-------------------------- MODULE ConsoleTxProof ---------------------------
(***************************************************************************)
(* Proofs about the transmitter of the console, for every number of tasks, *)
(* buffers and messages.  When the tick does not take a task out of an     *)
(* install without a lock, buffers leave in the order of their tickets,    *)
(* dumps with their own length, and no install runs over another; types    *)
(* are kept in any case.                                                   *)
(***************************************************************************)
EXTENDS ConsoleRxProof

Bufs == User \cup Local

\* places where a task has a buffer that it fills
Filling == {"xbuf", "fill", "ready", "u_fill"}

\* places in cs_txbuf_install before a buffer is on its way
Installing == {"user", "local", "install", "disable"}

Places == Filling \cup Delicate \cup {"idle", "alloc", "size", "test", "u_read", "u_post"}

State(b) == txbuf_hooker[b].state
Ticket(b) == txbuf_hooker[b].timestamp

TxTypes ==
    /\ txbuf_hooker \in [Bufs -> Hooker]
    /\ push_order_cnt \in Nat /\ pop_order_cnt \in Nat /\ pop_order_cnt <= push_order_cnt
    /\ cur_userbuf_id \in User /\ cur_buf_id \in Bufs /\ state \in {0, 1}
    /\ pc \in [Tasks -> Places] /\ own \in [Tasks -> Nat] /\ printed \in [Tasks -> Nat]
    /\ taken \in Seq(Message) /\ Len(taken) = push_order_cnt
    /\ sent \in Seq(Message \cup {NoMessage})

\* A task in a delicate place is alone in such a place.
Exclusive == \A p, q \in Tasks : pc[p] \in Delicate /\ pc[q] \in Delicate => p = q

\* A task that fills a buffer has it for itself.
Owned == \A p \in Tasks : pc[p] \in Filling => own[p] \in Bufs /\ State(own[p]) = "filling"
OwnedOnce == \A p, q \in Tasks :
                pc[p] \in Filling /\ pc[q] \in Filling /\ own[p] = own[q] => p = q

\* A dumper's ticket is still the next one when it takes a buffer.
TicketRead == \A p \in Tasks : pc[p] = "u_alloc" => own[p] = push_order_cnt

\* A buffer in use holds the message of its ticket, and no other has that ticket.
Ticketed == \A b \in Bufs : State(b) # "idle" =>
               /\ Ticket(b) < push_order_cnt
               /\ txbuf_hooker[b].msg = taken[Ticket(b) + 1]
OneTicket == \A b, c \in Bufs :
                State(b) # "idle" /\ State(c) # "idle" /\ Ticket(b) = Ticket(c) => b = c

\* A buffer on its way is the one with the last ticket taken off: either a task
\* is about to install it, or the UART is sending it.
Picked == \A p \in Tasks : pc[p] = "install" =>
             own[p] \in Bufs /\ State(own[p]) = "ready" /\ Ticket(own[p]) + 1 = pop_order_cnt
Sending ==
    /\ \A b \in Bufs : State(b) = "installed" => b = cur_buf_id /\ state = 1
    /\ state = 1 => State(cur_buf_id) = "installed" /\ Ticket(cur_buf_id) + 1 = pop_order_cnt

\* The others wait for theirs.
Waiting == \A b \in Bufs : State(b) \in {"filling", "ready"} =>
              \/ Ticket(b) >= pop_order_cnt
              \/ \E p \in Tasks : pc[p] = "install" /\ own[p] = b

\* Nothing is sent while a task installs.
Quiet == \A p \in Tasks : pc[p] \in Installing => state = 0

\* The tickets taken off are those sent and the one on its way.
OnItsWay == state = 1 \/ \E p \in Tasks : pc[p] = "install"
Counted == Len(sent) + (IF OnItsWay THEN 1 ELSE 0) = pop_order_cnt

TxInv ==
    /\ TxTypes /\ Exclusive /\ Owned /\ OwnedOnce /\ TicketRead
    /\ Ticketed /\ OneTicket /\ Picked /\ Sending /\ Waiting /\ Quiet
    /\ Counted /\ InTurn

-----------------------------------------------------------------------------

\* No buffer is in use.
LEMMA InitTxInv == TxInit => TxInv
<1> SUFFICES ASSUME TxInit PROVE TxInv
    OBVIOUS
<1>1. /\ User \subseteq Nat /\ 0 \in User /\ Local \subseteq Nat
    BY ConsoleAssumption DEF User, Local
<1>2. /\ \A b \in Bufs : txbuf_hooker[b] = Idle
      /\ txbuf_hooker \in [Bufs -> Hooker]
    BY DEF TxInit, Bufs, Hooker, Idle
<1>3. \A b \in Bufs : State(b) = "idle"
    BY <1>2 DEF State, Idle
<1>4. /\ pc = [p \in Tasks |-> "idle"] /\ own = [p \in Tasks |-> NoBuf]
      /\ printed = [p \in Tasks |-> 0] /\ taken = <<>> /\ sent = <<>> /\ state = 0
      /\ push_order_cnt = 0 /\ pop_order_cnt = 0 /\ cur_userbuf_id = 0 /\ cur_buf_id = 0
    BY DEF TxInit
<1>5. NoBuf \in Nat
    BY ConsoleAssumption DEF NoBuf
<1>6. TxTypes
    BY <1>1, <1>2, <1>4, <1>5 DEF TxTypes, Bufs, Places
<1>7. \A p \in Tasks : pc[p] = "idle"
    BY <1>4
<1>8. Exclusive /\ Owned /\ OwnedOnce /\ TicketRead /\ Picked /\ Quiet
    BY <1>7 DEF Exclusive, Owned, OwnedOnce, TicketRead, Picked, Quiet, Delicate, Filling, Installing
<1>9. Ticketed /\ OneTicket /\ Waiting
    BY <1>3 DEF Ticketed, OneTicket, Waiting
<1>10. Sending
    BY <1>3, <1>4 DEF Sending
<1>11. ~ OnItsWay
    BY <1>4, <1>7 DEF OnItsWay
<1>12. Counted /\ InTurn
    BY <1>4, <1>11 DEF Counted, InTurn
<1>13. QED
    BY <1>6, <1>8, <1>9, <1>10, <1>12 DEF TxInv

-----------------------------------------------------------------------------
(* Kinds of steps                                                          *)

\* A buffer that changes its state keeps ticket and message.
Mark(h, b, s) == [h EXCEPT ![b].state = s]

Same(h, g, b, s) ==
    /\ g \in [Bufs -> Hooker] /\ g[b].state = s
    /\ g[b].timestamp = h[b].timestamp /\ g[b].msg = h[b].msg
    /\ \A c \in Bufs : c # b => g[c] = h[c]

LEMMA Marked ==
    ASSUME NEW h \in [Bufs -> Hooker], NEW b \in Bufs,
           NEW s \in {"idle", "filling", "ready", "installed"}
    PROVE  Same(h, Mark(h, b, s), b, s)
<1>1. h[b] \in Hooker
    OBVIOUS
<1>2. PICK r : r = [h[b] EXCEPT !.state = s]
    OBVIOUS
<1>3. r \in Hooker /\ r.state = s /\ r.timestamp = h[b].timestamp /\ r.msg = h[b].msg
    BY <1>1, <1>2 DEF Hooker
<1>4. Mark(h, b, s) = [h EXCEPT ![b] = r]
    BY <1>2 DEF Mark
<1>5. QED
    BY <1>3, <1>4 DEF Same

counts == <<push_order_cnt, pop_order_cnt, cur_userbuf_id, state, cur_buf_id, taken, sent>>
buffers == <<txbuf_hooker, counts>>

\* No buffer changes but in its length.
Alike ==
    /\ txbuf_hooker' \in [Bufs -> Hooker]
    /\ \A c \in Bufs : /\ State(c)' = State(c) /\ Ticket(c)' = Ticket(c)
                        /\ txbuf_hooker'[c].msg = txbuf_hooker[c].msg

\* A task goes from one place to another, and no buffer changes but in its length.
LEMMA MovesAlike ==
    ASSUME TxInv, NEW p \in Tasks, NEW place \in Places, NEW o \in Nat,
           \A q \in Tasks \ {p} : pc[q] \notin Delicate,
           pc' = [pc EXCEPT ![p] = place], own' = [own EXCEPT ![p] = o],
           printed' \in [Tasks -> Nat], Alike, UNCHANGED counts,
           pc[p] # "install", place # "install",
           place \in Filling => pc[p] \in Filling /\ o = own[p],
           place \in Installing => state = 0,
           place = "u_alloc" => o = push_order_cnt
    PROVE  TxInv'
<1>1. pc \in [Tasks -> Places] /\ own \in [Tasks -> Nat]
    BY DEF TxInv, TxTypes
<1>2. /\ \A q \in Tasks : q # p => pc'[q] = pc[q] /\ own'[q] = own[q]
      /\ pc'[p] = place /\ own'[p] = o
      /\ pc' \in [Tasks -> Places] /\ own' \in [Tasks -> Nat]
    BY <1>1
<1>3. /\ push_order_cnt' = push_order_cnt
      /\ pop_order_cnt' = pop_order_cnt /\ cur_userbuf_id' = cur_userbuf_id
      /\ state' = state /\ cur_buf_id' = cur_buf_id /\ taken' = taken /\ sent' = sent
      /\ txbuf_hooker' \in [Bufs -> Hooker]
      /\ \A c \in Bufs : /\ State(c)' = State(c) /\ Ticket(c)' = Ticket(c)
                          /\ txbuf_hooker'[c].msg = txbuf_hooker[c].msg
    BY DEF counts, Alike
<1>c. cur_buf_id \in Bufs
    BY DEF TxInv, TxTypes
<1>4. TxTypes'
    BY <1>2, <1>3 DEF TxInv, TxTypes
<1>5. Exclusive'
    BY <1>2 DEF Exclusive
<1>6. Owned' /\ OwnedOnce'
    BY <1>2, <1>3 DEF TxInv, Owned, OwnedOnce
<1>7. TicketRead'
    BY <1>2, <1>3 DEF TxInv, TicketRead
<1>8. Ticketed' /\ OneTicket'
    BY <1>3 DEF TxInv, Ticketed, OneTicket
<1>9. Sending'
    BY <1>3, <1>c DEF TxInv, Sending
<1>10. Picked' /\ Quiet'
    BY <1>2, <1>3 DEF TxInv, Picked, Quiet
<1>11. \A q \in Tasks : (pc'[q] = "install" /\ own'[q] = own'[q]) <=> pc[q] = "install"
    BY <1>2
<1>12. Waiting'
    BY <1>2, <1>3 DEF TxInv, Waiting
<1>13. Counted' /\ InTurn'
    BY <1>3, <1>11 DEF TxInv, Counted, OnItsWay, InTurn
<1>14. QED
    BY <1>4, <1>5, <1>6, <1>7, <1>8, <1>9, <1>10, <1>12, <1>13 DEF TxInv

\* The same when no buffer changes at all.
LEMMA Moves ==
    ASSUME TxInv, NEW p \in Tasks, NEW place \in Places, NEW o \in Nat,
           \A q \in Tasks \ {p} : pc[q] \notin Delicate,
           pc' = [pc EXCEPT ![p] = place], own' = [own EXCEPT ![p] = o],
           printed' \in [Tasks -> Nat], UNCHANGED buffers,
           pc[p] # "install", place # "install",
           place \in Filling => pc[p] \in Filling /\ o = own[p],
           place \in Installing => state = 0,
           place = "u_alloc" => o = push_order_cnt
    PROVE  TxInv'
<1>1. Alike /\ UNCHANGED counts
    BY DEF buffers, Alike, TxInv, TxTypes, State, Ticket
<1>2. QED
    BY <1>1, MovesAlike

\* A task gets an idle buffer and the next ticket.
LEMMA Takes ==
    ASSUME TxInv, NEW p \in Tasks, NEW place \in Filling, NEW b \in Bufs,
           \A q \in Tasks \ {p} : pc[q] \notin Delicate,
           State(b) = "idle", Take(p, b, push_order_cnt),
           pc' = [pc EXCEPT ![p] = place], pc[p] # "install", place \notin Delicate,
           cur_userbuf_id' \in User,
           UNCHANGED <<pop_order_cnt, state, cur_buf_id, printed, sent>>
    PROVE  TxInv'
<1> DEFINE n == push_order_cnt
           m == MessageOf(p)
<1>1. /\ pc \in [Tasks -> Places] /\ own \in [Tasks -> Nat] /\ txbuf_hooker \in [Bufs -> Hooker]
      /\ n \in Nat /\ pop_order_cnt \in Nat /\ pop_order_cnt <= n /\ Len(taken) = n
      /\ taken \in Seq(Message) /\ printed \in [Tasks -> Nat] /\ Bufs \subseteq Nat
    BY ConsoleAssumption DEF TxInv, TxTypes, Bufs, User, Local
<1>2. m \in Message
    BY <1>1 DEF MessageOf, Message
<1>3. /\ txbuf_hooker' = [txbuf_hooker EXCEPT ![b] =
           [state |-> "filling", timestamp |-> n, msg |-> m, used_size |-> FALSE]]
      /\ push_order_cnt' = n + 1 /\ own' = [own EXCEPT ![p] = b] /\ taken' = Append(taken, m)
    BY DEF Take
<1> HIDE DEF n, m
<1>4. /\ txbuf_hooker' \in [Bufs -> Hooker]
      /\ \A c \in Bufs : c # b => txbuf_hooker'[c] = txbuf_hooker[c]
      /\ txbuf_hooker'[b] = [state |-> "filling", timestamp |-> n, msg |-> m, used_size |-> FALSE]
    BY <1>1, <1>2, <1>3 DEF Hooker
<1>5. /\ \A c \in Bufs : c # b => State(c)' = State(c) /\ Ticket(c)' = Ticket(c)
      /\ State(b)' = "filling" /\ Ticket(b)' = n /\ txbuf_hooker'[b].msg = m
    BY <1>4 DEF State, Ticket
<1>6. /\ taken' \in Seq(Message) /\ Len(taken') = n + 1 /\ taken'[n + 1] = m
      /\ \A i \in 1 .. n : taken'[i] = taken[i]
    BY <1>1, <1>2, <1>3, AppendProperties
<1>7. /\ \A q \in Tasks : q # p => pc'[q] = pc[q] /\ own'[q] = own[q]
      /\ pc'[p] = place /\ own'[p] = b
      /\ pc' \in [Tasks -> Places] /\ own' \in [Tasks -> Nat]
    BY <1>1, <1>3 DEF Places
<1>8. place # "install" /\ place # "u_alloc" /\ place \notin Installing
    BY DEF Filling, Installing
<1>9. TxTypes'
    BY <1>1, <1>3, <1>4, <1>6, <1>7 DEF TxInv, TxTypes
<1>10. Exclusive'
    BY <1>7 DEF Exclusive
<1>11. Owned'
    BY <1>5, <1>7 DEF TxInv, Owned
<1>12. OwnedOnce'
    BY <1>7 DEF TxInv, Owned, OwnedOnce
<1>13. TicketRead'
    BY <1>7, <1>8 DEF TicketRead, Delicate
<1>14. \A c \in Bufs : c # b /\ State(c) # "idle" => Ticket(c) \in 0 .. n - 1
    BY <1>1, n = push_order_cnt DEF TxInv, Ticketed, Ticket, Hooker, n
<1>15. Ticketed'
    <2> SUFFICES ASSUME NEW c \in Bufs, State(c)' # "idle"
                 PROVE  Ticket(c)' < n + 1 /\ txbuf_hooker'[c].msg = taken'[Ticket(c)' + 1]
        BY <1>3 DEF Ticketed
    <2>1. CASE c = b
        BY <1>1, <1>5, <1>6, <2>1
    <2>2. CASE c # b
        <3>1. /\ Ticket(c) \in 0 .. n - 1 /\ txbuf_hooker[c].msg = taken[Ticket(c) + 1]
              /\ Ticket(c)' = Ticket(c) /\ txbuf_hooker'[c] = txbuf_hooker[c]
            BY <1>4, <1>5, <1>14, <2>2 DEF TxInv, Ticketed
        <3>2. Ticket(c) + 1 \in 1 .. n
            BY <1>1, <3>1
        <3>3. QED
            BY <1>1, <1>6, <3>1, <3>2
    <2>3. QED
        BY <2>1, <2>2
<1>16. OneTicket'
    BY <1>1, <1>5, <1>14 DEF TxInv, OneTicket
<1>17. \A q \in Tasks : pc'[q] = "install" <=> (pc[q] = "install" /\ q # p)
    BY <1>7, <1>8
<1>18. Picked'
    BY <1>5, <1>7, <1>17 DEF TxInv, Picked
<1>19. Sending'
    BY <1>5 DEF TxInv, TxTypes, Sending
<1>20. Waiting'
    <2> SUFFICES ASSUME NEW c \in Bufs, State(c)' \in {"filling", "ready"},
                        ~ (Ticket(c)' >= pop_order_cnt)
                 PROVE  \E q \in Tasks : pc'[q] = "install" /\ own'[q] = c
        BY DEF Waiting
    <2>1. c # b
        BY <1>1, <1>5
    <2>2. State(c) \in {"filling", "ready"} /\ ~ (Ticket(c) >= pop_order_cnt)
        BY <1>5, <2>1
    <2>3. PICK q \in Tasks : pc[q] = "install" /\ own[q] = c
        BY <2>2 DEF TxInv, Waiting
    <2>4. pc'[q] = "install" /\ own'[q] = c
        BY <1>7, <2>3
    <2>5. QED
        BY <2>4
<1>21. Quiet'
    BY <1>7, <1>8 DEF TxInv, Quiet
<1>22. Counted'
    BY <1>17 DEF TxInv, Counted, OnItsWay
<1>23. InTurn'
    <2>1. sent' = sent /\ DOMAIN sent = 1 .. Len(sent) /\ Len(sent) \in Nat
        BY LenProperties DEF TxInv, TxTypes
    <2>2. Len(sent) <= n /\ \A i \in 1 .. Len(sent) : sent[i] = taken[i]
        BY <1>1, <2>1 DEF TxInv, InTurn
    <2>3. QED
        BY <1>1, <1>6, <2>1, <2>2 DEF InTurn
<1>24. QED
    BY <1>9, <1>10, <1>11, <1>12, <1>13, <1>15, <1>16, <1>18, <1>19, <1>20, <1>21, <1>22, <1>23
    DEF TxInv

\* A task has filled its buffer.
LEMMA Readies ==
    ASSUME TxInv, NEW p \in Tasks, NEW place \in Places \ Filling,
           \A q \in Tasks \ {p} : pc[q] \notin Delicate,
           pc[p] \in Filling, place \notin Delicate,
           Same(txbuf_hooker, txbuf_hooker', own[p], "ready"),
           pc' = [pc EXCEPT ![p] = place],
           UNCHANGED <<push_order_cnt, pop_order_cnt, cur_userbuf_id, state, cur_buf_id, own,
                       printed, taken, sent>>
    PROVE  TxInv'
<1>b. PICK b : b = own[p]
    OBVIOUS
<1>1. /\ pc \in [Tasks -> Places] /\ txbuf_hooker \in [Bufs -> Hooker]
      /\ b \in Bufs /\ State(b) = "filling"
    BY <1>b DEF TxInv, TxTypes, Owned
<1>3. /\ txbuf_hooker' \in [Bufs -> Hooker]
      /\ \A c \in Bufs : c # b => txbuf_hooker'[c] = txbuf_hooker[c]
      /\ txbuf_hooker'[b].state = "ready"
      /\ txbuf_hooker'[b].timestamp = txbuf_hooker[b].timestamp
      /\ txbuf_hooker'[b].msg = txbuf_hooker[b].msg
    BY <1>b DEF Same
<1>4. /\ \A c \in Bufs : c # b => State(c)' = State(c)
      /\ State(b)' = "ready"
      /\ \A c \in Bufs : Ticket(c)' = Ticket(c) /\ txbuf_hooker'[c].msg = txbuf_hooker[c].msg
    BY <1>1, <1>3 DEF State, Ticket
<1>5. /\ \A q \in Tasks : q # p => pc'[q] = pc[q]
      /\ pc'[p] = place /\ own' = own /\ pc' \in [Tasks -> Places]
    BY <1>1
<1>6. place # "install" /\ place # "u_alloc" /\ place \notin Installing /\ pc[p] # "install"
    BY DEF Filling, Installing, Delicate
<1>7. TxTypes'
    BY <1>3, <1>5 DEF TxInv, TxTypes
<1>8. Exclusive'
    BY <1>5 DEF Exclusive
<1>9. Owned'
    <2>1. \A q \in Tasks : q # p /\ pc[q] \in Filling => own[q] # b
        BY <1>b DEF TxInv, OwnedOnce
    <2>2. QED
        BY <1>4, <1>5, <2>1 DEF TxInv, Owned
<1>10. OwnedOnce' /\ TicketRead'
    BY <1>5, <1>6 DEF TxInv, OwnedOnce, TicketRead
<1>11. \A c \in Bufs : State(c)' # "idle" => State(c) # "idle"
    BY <1>1, <1>4
<1>12. Ticketed' /\ OneTicket'
    BY <1>4, <1>11 DEF TxInv, Ticketed, OneTicket
<1>13. \A q \in Tasks : pc'[q] = "install" <=> pc[q] = "install"
    BY <1>5, <1>6
<1>14. Picked'
    BY <1>1, <1>4, <1>5, <1>13 DEF TxInv, Picked
<1>15. Sending'
    <2>1. \A c \in Bufs : State(c)' = "installed" => State(c) = "installed"
        BY <1>1, <1>4 DEF State
    <2>2. /\ state = 1 => cur_buf_id # b
          /\ cur_buf_id \in Bufs /\ cur_buf_id' = cur_buf_id /\ state' = state
          /\ pop_order_cnt' = pop_order_cnt
        BY <1>1 DEF TxInv, TxTypes, Sending
    <2>3. state = 1 => txbuf_hooker'[cur_buf_id] = txbuf_hooker[cur_buf_id]
        BY <1>3, <2>2
    <2>4. QED
        BY <2>1, <2>2, <2>3 DEF TxInv, Sending, State, Ticket
<1>16. Waiting'
    <2> SUFFICES ASSUME NEW c \in Bufs, State(c)' \in {"filling", "ready"},
                        ~ (Ticket(c)' >= pop_order_cnt)
                 PROVE  \E q \in Tasks : pc'[q] = "install" /\ own'[q] = c
        BY DEF Waiting
    <2>1. State(c) \in {"filling", "ready"} /\ ~ (Ticket(c) >= pop_order_cnt)
        BY <1>1, <1>4
    <2>2. PICK q \in Tasks : pc[q] = "install" /\ own[q] = c
        BY <2>1 DEF TxInv, Waiting
    <2>3. pc'[q] = "install" /\ own'[q] = c
        BY <1>5, <1>13, <2>2
    <2>4. QED
        BY <2>3
<1>17. Quiet'
    BY <1>5, <1>6 DEF TxInv, Quiet
<1>18. Counted' /\ InTurn'
    BY <1>13 DEF TxInv, Counted, OnItsWay, InTurn
<1>19. QED
    BY <1>7, <1>8, <1>9, <1>10, <1>12, <1>14, <1>15, <1>16, <1>17, <1>18 DEF TxInv

\* The buffers other than b whose tickets are still to come.
LEMMA NextOnly ==
    ASSUME TxInv, NEW b \in Bufs, State(b) = "ready", Ticket(b) = pop_order_cnt,
           \A p \in Tasks : pc[p] # "install"
    PROVE  /\ pop_order_cnt + 1 <= push_order_cnt
           /\ \A c \in Bufs : c # b /\ State(c) \in {"filling", "ready"} =>
                                Ticket(c) >= pop_order_cnt + 1
<1>1. push_order_cnt \in Nat /\ pop_order_cnt \in Nat /\ \A c \in Bufs : Ticket(c) \in Nat
    BY DEF TxInv, TxTypes, Ticket, Hooker
<1>2. Ticket(b) < push_order_cnt
    BY DEF TxInv, Ticketed
<1>3. ASSUME NEW c \in Bufs, c # b, State(c) \in {"filling", "ready"}
      PROVE  Ticket(c) >= pop_order_cnt + 1
    <2>1. Ticket(c) >= pop_order_cnt
        BY <1>3 DEF TxInv, Waiting
    <2>2. State(c) # "idle" /\ State(b) # "idle"
        BY <1>3
    <2>3. Ticket(c) # Ticket(b)
        BY <1>3, <2>2 DEF TxInv, OneTicket
    <2>4. QED
        BY <1>1, <2>1, <2>3
<1>4. QED
    BY <1>1, <1>2, <1>3

\* A task that installs takes the next ticket off.
LEMMA Picks ==
    ASSUME TxInv, NEW p \in Tasks, NEW b \in Bufs, pc[p] \in {"user", "local"},
           \A q \in Tasks \ {p} : pc[q] \notin Delicate,
           State(b) = "ready", Ticket(b) = pop_order_cnt,
           own' = [own EXCEPT ![p] = b], pop_order_cnt' = pop_order_cnt + 1,
           pc' = [pc EXCEPT ![p] = "install"],
           UNCHANGED <<txbuf_hooker, push_order_cnt, cur_userbuf_id, state, cur_buf_id,
                       printed, taken, sent>>
    PROVE  TxInv'
<1>1. /\ pc \in [Tasks -> Places] /\ own \in [Tasks -> Nat] /\ Bufs \subseteq Nat
      /\ push_order_cnt \in Nat /\ pop_order_cnt \in Nat
    BY ConsoleAssumption DEF TxInv, TxTypes, Bufs, User, Local
<1>2. /\ \A q \in Tasks : q # p => pc'[q] = pc[q] /\ own'[q] = own[q]
      /\ pc'[p] = "install" /\ own'[p] = b
      /\ pc' \in [Tasks -> Places] /\ own' \in [Tasks -> Nat]
    BY <1>1 DEF Places, Delicate
<1>3. \A q \in Tasks : pc[q] # "install" /\ (q # p => pc[q] \notin Delicate)
    BY DEF Delicate
<1>4. state = 0
    BY DEF TxInv, Quiet, Installing
<1>5. /\ pop_order_cnt + 1 <= push_order_cnt
      /\ \A c \in Bufs : c # b /\ State(c) \in {"filling", "ready"} =>
                           Ticket(c) >= pop_order_cnt + 1
    BY <1>3, NextOnly
<1>6. \A c \in Bufs : /\ State(c)' = State(c) /\ Ticket(c)' = Ticket(c)
                        /\ txbuf_hooker'[c] = txbuf_hooker[c]
    BY DEF State, Ticket
<1>7. TxTypes'
    BY <1>1, <1>2, <1>5 DEF TxInv, TxTypes
<1>8. Exclusive'
    BY <1>2 DEF Exclusive
<1>9. Owned' /\ OwnedOnce' /\ TicketRead'
    BY <1>2, <1>6 DEF TxInv, Owned, OwnedOnce, TicketRead, Filling
<1>10. Ticketed' /\ OneTicket'
    BY <1>6 DEF TxInv, Ticketed, OneTicket
<1>11. \A q \in Tasks : pc'[q] = "install" <=> q = p
    BY <1>2, <1>3
<1>12. Picked'
    BY <1>2, <1>6, <1>11 DEF Picked
<1>13. Sending'
    BY <1>4, <1>6 DEF TxInv, TxTypes, Sending
<1>14. Waiting'
    <2> SUFFICES ASSUME NEW c \in Bufs, State(c)' \in {"filling", "ready"}, c # b
                 PROVE  Ticket(c)' >= pop_order_cnt + 1
        BY <1>2 DEF Waiting
    <2>1. QED
        BY <1>5, <1>6
<1>15. Quiet'
    BY <1>2, <1>4 DEF TxInv, Quiet
<1>16. Counted'
    <2>1. ~ OnItsWay /\ OnItsWay'
        BY <1>2, <1>3, <1>4 DEF OnItsWay
    <2>2. Len(sent) \in Nat
        BY LenProperties DEF TxInv, TxTypes
    <2>3. QED
        BY <1>1, <2>1, <2>2 DEF TxInv, Counted
<1>17. InTurn'
    BY DEF TxInv, InTurn
<1>18. QED
    BY <1>7, <1>8, <1>9, <1>10, <1>12, <1>13, <1>14, <1>15, <1>16, <1>17 DEF TxInv

\* The buffer picked is installed.
LEMMA InstallsPicked ==
    ASSUME TxInv, NEW p \in Tasks, \A q \in Tasks \ {p} : pc[q] \notin Delicate,
           InstallPicked(p)
    PROVE  TxInv'
<1>b. PICK b : b = own[p]
    OBVIOUS
<1>1. /\ pc \in [Tasks -> Places] /\ txbuf_hooker \in [Bufs -> Hooker] /\ pc[p] = "install"
      /\ b \in Bufs /\ State(b) = "ready" /\ Ticket(b) + 1 = pop_order_cnt /\ state = 0
    BY <1>b DEF TxInv, TxTypes, Picked, Quiet, Installing, InstallPicked, At
<1>2. /\ txbuf_hooker' = [txbuf_hooker EXCEPT ![b].state = "installed"]
      /\ cur_buf_id' = b /\ state' = 1 /\ pc' = [pc EXCEPT ![p] = "enable"]
      /\ own' = own /\ printed' = printed /\ taken' = taken /\ sent' = sent
      /\ push_order_cnt' = push_order_cnt /\ pop_order_cnt' = pop_order_cnt
      /\ cur_userbuf_id' = cur_userbuf_id
    BY <1>b DEF InstallPicked, Installed, Goto, tickets, history
<1>3. /\ txbuf_hooker' \in [Bufs -> Hooker]
      /\ \A c \in Bufs : c # b => txbuf_hooker'[c] = txbuf_hooker[c]
      /\ txbuf_hooker'[b].state = "installed"
      /\ txbuf_hooker'[b].timestamp = txbuf_hooker[b].timestamp
      /\ txbuf_hooker'[b].msg = txbuf_hooker[b].msg
    <2>1. txbuf_hooker' = Mark(txbuf_hooker, b, "installed")
        BY <1>2 DEF Mark
    <2>2. Same(txbuf_hooker, txbuf_hooker', b, "installed")
        BY <1>1, <2>1, Marked
    <2>3. QED
        BY <2>2 DEF Same
<1>4. /\ \A c \in Bufs : c # b => State(c)' = State(c)
      /\ State(b)' = "installed"
      /\ \A c \in Bufs : Ticket(c)' = Ticket(c) /\ txbuf_hooker'[c].msg = txbuf_hooker[c].msg
    BY <1>1, <1>3 DEF State, Ticket
<1>5. /\ \A q \in Tasks : q # p => pc'[q] = pc[q]
      /\ pc'[p] = "enable" /\ pc' \in [Tasks -> Places]
    BY <1>1, <1>2 DEF Places, Delicate
<1>6. \A q \in Tasks : pc[q] \in Delicate => q = p
    OBVIOUS
<1>7. TxTypes'
    BY <1>1, <1>2, <1>3, <1>5 DEF TxInv, TxTypes
<1>8. Exclusive'
    BY <1>5, <1>6 DEF Exclusive
<1>9. Owned'
    BY <1>1, <1>2, <1>4, <1>5 DEF TxInv, Owned, Filling
<1>10. OwnedOnce' /\ TicketRead'
    BY <1>2, <1>5 DEF TxInv, OwnedOnce, TicketRead, Filling
<1>11. \A c \in Bufs : State(c)' # "idle" => State(c) # "idle"
    BY <1>1, <1>4
<1>12. Ticketed' /\ OneTicket'
    BY <1>2, <1>4, <1>11 DEF TxInv, Ticketed, OneTicket
<1>13. \A q \in Tasks : pc'[q] # "install" /\ pc'[q] \notin Installing
    BY <1>5, <1>6 DEF Delicate, Installing
<1>14. Picked' /\ Quiet'
    BY <1>13 DEF Picked, Quiet
<1>15. \A c \in Bufs : State(c) # "installed"
    BY <1>1 DEF TxInv, Sending
<1>16. Sending'
    <2>1. \A c \in Bufs : State(c)' = "installed" => c = b
        BY <1>4, <1>15 DEF State
    <2>2. State(b)' = "installed" /\ Ticket(b)' + 1 = pop_order_cnt
        BY <1>1, <1>4
    <2>3. QED
        BY <1>2, <2>1, <2>2 DEF Sending, State, Ticket
<1>17. Waiting'
    <2> SUFFICES ASSUME NEW c \in Bufs, State(c)' \in {"filling", "ready"}
                 PROVE  Ticket(c)' >= pop_order_cnt
        BY <1>2 DEF Waiting
    <2>1. c # b /\ State(c) \in {"filling", "ready"}
        BY <1>4 DEF State
    <2>2. \A q \in Tasks : pc[q] = "install" => own[q] # c
        BY <1>6, <1>b, <2>1 DEF Delicate
    <2>3. QED
        BY <1>4, <2>1, <2>2 DEF TxInv, Waiting
<1>18. OnItsWay /\ OnItsWay'
    BY <1>1, <1>2 DEF OnItsWay
<1>19. Counted' /\ InTurn'
    BY <1>2, <1>18 DEF TxInv, Counted, InTurn
<1>20. QED
    BY <1>7, <1>8, <1>9, <1>10, <1>12, <1>14, <1>16, <1>17, <1>19 DEF TxInv

\* What was sent, if anything, gives its buffer back, and the next buffer is
\* installed if there is one: the last step of a dumper, and the interrupt.
Handing(d, b) ==
    /\ d = cur_buf_id /\ state' \in {0, 1}
    /\ state' = 1 => b \in Bufs /\ State(b) = "ready" /\ Ticket(b) = pop_order_cnt
    /\ txbuf_hooker' \in [Bufs -> Hooker]
    /\ \A c \in Bufs : (state = 1 => c # d) /\ (state' = 1 => c # b) =>
                         txbuf_hooker'[c] = txbuf_hooker[c]
    /\ state = 1 => txbuf_hooker'[d].state = "idle"
    /\ state' = 1 => /\ txbuf_hooker'[b].state = "installed"
                     /\ txbuf_hooker'[b].timestamp = txbuf_hooker[b].timestamp
                     /\ txbuf_hooker'[b].msg = txbuf_hooker[b].msg
                     /\ cur_buf_id' = b /\ pop_order_cnt' = pop_order_cnt + 1
    /\ state' = 0 => cur_buf_id' = cur_buf_id /\ pop_order_cnt' = pop_order_cnt
    /\ sent' = IF state = 1 THEN Append(sent, txbuf_hooker[d].msg) ELSE sent
    /\ \A q \in Tasks : pc[q] \notin Installing
    /\ pc' \in [Tasks -> Places] /\ \A q \in Tasks : pc'[q] = pc[q] \/ pc'[q] = "idle"
    /\ push_order_cnt' = push_order_cnt /\ cur_userbuf_id' = cur_userbuf_id
    /\ own' = own /\ printed' = printed /\ taken' = taken

LEMMA HandsOver ==
    ASSUME TxInv, NEW b, NEW d, Handing(d, b)
    PROVE  TxInv'
<1>d. PICK done \in BOOLEAN : done <=> state = 1
    OBVIOUS
<1>m. PICK more \in BOOLEAN : more <=> state' = 1
    OBVIOUS
<1>h. /\ d = cur_buf_id
      /\ more => b \in Bufs /\ State(b) = "ready" /\ Ticket(b) = pop_order_cnt
      /\ txbuf_hooker' \in [Bufs -> Hooker]
      /\ \A c \in Bufs : (done => c # d) /\ (more => c # b) =>
                           txbuf_hooker'[c] = txbuf_hooker[c]
      /\ done => txbuf_hooker'[d].state = "idle"
      /\ more => /\ txbuf_hooker'[b].state = "installed"
                 /\ txbuf_hooker'[b].timestamp = txbuf_hooker[b].timestamp
                 /\ txbuf_hooker'[b].msg = txbuf_hooker[b].msg
                 /\ cur_buf_id' = b /\ state' = 1 /\ pop_order_cnt' = pop_order_cnt + 1
      /\ ~ more => cur_buf_id' = cur_buf_id /\ state' = 0 /\ pop_order_cnt' = pop_order_cnt
      /\ done => sent' = Append(sent, txbuf_hooker[d].msg)
      /\ ~ done => sent' = sent
      /\ \A q \in Tasks : pc[q] \notin Installing
      /\ pc' \in [Tasks -> Places] /\ \A q \in Tasks : pc'[q] = pc[q] \/ pc'[q] = "idle"
      /\ push_order_cnt' = push_order_cnt /\ cur_userbuf_id' = cur_userbuf_id
      /\ own' = own /\ printed' = printed /\ taken' = taken
    BY <1>d, <1>m DEF Handing
<1> USE <1>d, <1>h
<1>1. /\ txbuf_hooker \in [Bufs -> Hooker] /\ d \in Bufs /\ state \in {0, 1}
      /\ push_order_cnt \in Nat /\ pop_order_cnt \in Nat /\ pop_order_cnt <= push_order_cnt
      /\ sent \in Seq(Message \cup {NoMessage}) /\ Len(sent) \in Nat
      /\ taken \in Seq(Message) /\ Len(taken) = push_order_cnt
    BY LenProperties DEF TxInv, TxTypes
<1>2. done => State(d) = "installed" /\ Ticket(d) + 1 = pop_order_cnt
    BY DEF TxInv, Sending
<1>3. \A c \in Bufs : State(c) = "installed" => c = d /\ done
    BY DEF TxInv, Sending
\* the buffers
<1>4. ASSUME NEW c \in Bufs, State(c)' # "idle"
      PROVE  /\ State(c) # "idle" /\ Ticket(c)' = Ticket(c)
             /\ txbuf_hooker'[c].msg = txbuf_hooker[c].msg
             /\ State(c)' = State(c) \/ (more /\ c = b /\ State(c)' = "installed")
    <2>1. done => c # d
        BY <1>4 DEF State
    <2>2. CASE more /\ c = b
        BY <2>2 DEF State, Ticket
    <2>3. CASE ~ (more /\ c = b)
        <3>1. txbuf_hooker'[c] = txbuf_hooker[c]
            BY <2>1, <2>3
        <3>2. QED
            BY <1>4, <3>1 DEF State, Ticket
    <2>4. QED
        BY <2>2, <2>3
<1>5. ASSUME NEW c \in Bufs, State(c)' \in {"filling", "ready"}
      PROVE  /\ State(c) = State(c)' /\ (more => c # b)
    <2>1. State(c)' # "idle" /\ State(c)' # "installed"
        BY <1>5
    <2>2. more => c # b
        BY <2>1 DEF State
    <2>3. QED
        BY <1>4, <2>1, <2>2
<1>6. ASSUME NEW c \in Bufs, State(c) = "filling"
      PROVE  State(c)' = "filling"
    <2>1. (done => c # d) /\ (more => c # b)
        BY <1>2, <1>6
    <2>2. QED
        BY <1>6, <2>1 DEF State
\* the tasks
<1>7. \A q \in Tasks : /\ pc'[q] # "install"
                       /\ pc'[q] \in Filling \cup Delicate => pc'[q] = pc[q]
    BY DEF Filling, Delicate, Installing
<1>8. Exclusive'
    BY <1>7 DEF TxInv, Exclusive
<1>9. Owned' /\ OwnedOnce'
    <2>1. \A q \in Tasks : pc'[q] \in Filling => /\ pc[q] \in Filling /\ own[q] \in Bufs
                                                /\ State(own[q]) = "filling"
        BY <1>7 DEF TxInv, Owned
    <2>2. \A q \in Tasks : pc'[q] \in Filling => txbuf_hooker'[own[q]].state = "filling"
        BY <1>6, <2>1 DEF State
    <2>3. own' = own
        OBVIOUS
    <2>4. QED
        BY <2>1, <2>2, <2>3 DEF TxInv, Owned, OwnedOnce, State
<1>10. TicketRead'
    BY <1>7 DEF TxInv, TicketRead, Delicate
<1>11. Picked'
    BY <1>7 DEF Picked
<1>12. Quiet'
    BY DEF Quiet, Installing
\* the tickets
<1>13. Ticketed' /\ OneTicket'
    <2>1. Ticketed'
        BY <1>4 DEF TxInv, Ticketed
    <2>2. OneTicket'
        BY <1>4 DEF TxInv, OneTicket
    <2>3. QED
        BY <2>1, <2>2
<1>14. more => /\ pop_order_cnt + 1 <= push_order_cnt
               /\ \A c \in Bufs : c # b /\ State(c) \in {"filling", "ready"} =>
                                    Ticket(c) >= pop_order_cnt + 1
    BY NextOnly DEF Installing
<1>15. Waiting'
    <2> SUFFICES ASSUME NEW c \in Bufs, State(c)' \in {"filling", "ready"}
                 PROVE  Ticket(c)' >= pop_order_cnt'
        BY DEF Waiting
    <2>1. State(c) \in {"filling", "ready"} /\ (more => c # b) /\ Ticket(c)' = Ticket(c)
        BY <1>4, <1>5
    <2>2. CASE more
        BY <1>14, <2>1, <2>2
    <2>3. CASE ~ more
        <3>1. Ticket(c) >= pop_order_cnt
            BY <2>1 DEF TxInv, Waiting, Installing
        <3>2. QED
            BY <2>1, <2>3, <3>1
    <2>4. QED
        BY <2>2, <2>3
<1>16. Sending'
    <2>1. CASE more
        <3>1. \A c \in Bufs : State(c)' = "installed" => c = b
            <4> SUFFICES ASSUME NEW c \in Bufs, State(c)' = "installed", c # b PROVE FALSE
                OBVIOUS
            <4>1. State(c) = "installed"
                BY <1>4
            <4>2. c = d /\ done
                BY <1>3, <4>1
            <4>3. QED
                BY <4>2 DEF State
        <3>2. State(b)' = "installed" /\ Ticket(b)' + 1 = pop_order_cnt'
            BY <2>1 DEF State, Ticket
        <3>3. QED
            BY <2>1, <3>1, <3>2 DEF Sending, State, Ticket
    <2>2. CASE ~ more
        <3>1. \A c \in Bufs : State(c)' # "installed"
            <4> SUFFICES ASSUME NEW c \in Bufs, State(c)' = "installed" PROVE FALSE
                OBVIOUS
            <4>1. State(c) = "installed"
                BY <1>4, <2>2
            <4>2. c = d /\ done
                BY <1>3, <4>1
            <4>3. QED
                BY <4>2 DEF State
        <3>2. QED
            BY <2>2, <3>1 DEF Sending
    <2>3. QED
        BY <2>1, <2>2
\* what was sent
<1>17. Len(sent) + (IF done THEN 1 ELSE 0) = pop_order_cnt
    BY DEF TxInv, Counted, OnItsWay, Installing
<1>18. OnItsWay' <=> more
    BY <1>7 DEF OnItsWay
<1>19. /\ sent' \in Seq(Message \cup {NoMessage})
       /\ Len(sent') = pop_order_cnt
       /\ \A i \in 1 .. Len(sent) : sent'[i] = sent[i]
       /\ done => sent'[pop_order_cnt] = txbuf_hooker[d].msg
    <2>1. CASE done
        <3>1. txbuf_hooker[d].msg \in Message \cup {NoMessage}
            BY <1>1 DEF Hooker
        <3>s. sent' = Append(sent, txbuf_hooker[d].msg) /\ sent \in Seq(Message \cup {NoMessage})
            BY <1>1, <2>1
        <3>2. /\ sent' \in Seq(Message \cup {NoMessage}) /\ Len(sent') = Len(sent) + 1
              /\ \A i \in 1 .. Len(sent) : sent'[i] = sent[i]
              /\ sent'[Len(sent) + 1] = txbuf_hooker[d].msg
            BY <3>s, <3>1, AppendProperties
        <3>3. QED
            BY <1>1, <1>17, <2>1, <3>2
    <2>2. CASE ~ done
        BY <1>1, <1>17, <2>2
    <2>3. QED
        BY <2>1, <2>2
<1>20. Counted'
    BY <1>1, <1>18, <1>19 DEF Counted
<1>21. InTurn'
    <2>1. DOMAIN sent = 1 .. Len(sent) /\ DOMAIN sent' = 1 .. pop_order_cnt
        BY <1>1, <1>19, LenProperties
    <2>2. ASSUME NEW i \in 1 .. pop_order_cnt
          PROVE  sent'[i] = taken[i]
        <3>1. CASE i \in 1 .. Len(sent)
            BY <1>19, <2>1, <3>1 DEF TxInv, InTurn
        <3>2. CASE i \notin 1 .. Len(sent)
            <4>1. done /\ i = pop_order_cnt
                BY <1>1, <1>17, <3>2
            <4>2. txbuf_hooker[d].msg = taken[Ticket(d) + 1]
                BY <1>1, <1>2, <4>1 DEF TxInv, Ticketed
            <4>3. QED
                BY <1>2, <1>19, <4>1, <4>2
        <3>3. QED
            BY <3>1, <3>2
    <2>3. QED
        BY <1>1, <1>19, <2>1, <2>2 DEF InTurn
<1>22. TxTypes'
    <2>1. pop_order_cnt' \in Nat /\ pop_order_cnt' <= push_order_cnt
        BY <1>1, <1>14
    <2>2. cur_buf_id' \in Bufs /\ state' \in {0, 1}
        BY <1>1
    <2>3. QED
        BY <1>19, <2>1, <2>2 DEF TxInv, TxTypes
<1>23. QED
    BY <1>8, <1>9, <1>10, <1>11, <1>12, <1>13, <1>15, <1>16, <1>20, <1>21, <1>22 DEF TxInv

-----------------------------------------------------------------------------
(* The steps of the program                                                *)

\* Buffers: those of dumpers come first.
LEMMA BufsAre == User \subseteq Bufs /\ Local \subseteq Bufs /\ Bufs \subseteq Nat
BY ConsoleAssumption DEF Bufs, User, Local

\* What cs_txbuf_install does to the buffers h: the next is installed, or none
\* is and the transmitter stops.
LEMMA InstallDoes ==
    ASSUME NEW h, NEW quiet, cs_txbuf_install(h, quiet)
    PROVE  \/ \E b \in Bufs : /\ State(b) = "ready" /\ Ticket(b) = pop_order_cnt
                             /\ txbuf_hooker' = [h EXCEPT ![b].state = "installed"]
                             /\ cur_buf_id' = b /\ state' = 1 /\ pop_order_cnt' = pop_order_cnt + 1
           \/ /\ txbuf_hooker' = h /\ state' = 0
              /\ cur_buf_id' = cur_buf_id /\ pop_order_cnt' = pop_order_cnt
<1>1. CASE \E b \in Next1(User) \cup Next1(Local) :
             /\ txbuf_hooker' = Installed(b, h)
             /\ cur_buf_id' = b /\ state' = 1 /\ pop_order_cnt' = pop_order_cnt + 1
    BY <1>1, BufsAre DEF Next1, IsNext, Installed, State, Ticket
<1>2. CASE /\ txbuf_hooker' = h /\ state' = 0
           /\ cur_buf_id' = cur_buf_id /\ pop_order_cnt' = pop_order_cnt
    BY <1>2
<1>3. QED
    BY <1>1, <1>2 DEF cs_txbuf_install

\* The transmitter was idle.
LEMMA InstallsNext ==
    ASSUME TxInv, state = 0, cs_txbuf_install(txbuf_hooker, TRUE),
           \A q \in Tasks : pc[q] \notin Installing,
           pc' \in [Tasks -> Places], \A q \in Tasks : pc'[q] = pc[q] \/ pc'[q] = "idle",
           UNCHANGED <<push_order_cnt, cur_userbuf_id, own, printed, taken, sent>>
    PROVE  TxInv'
<1>1. txbuf_hooker \in [Bufs -> Hooker]
    BY DEF TxInv, TxTypes
<1>2. PICK d : d = cur_buf_id
    OBVIOUS
<1>3. CASE \E b \in Bufs : /\ State(b) = "ready" /\ Ticket(b) = pop_order_cnt
                           /\ txbuf_hooker' = [txbuf_hooker EXCEPT ![b].state = "installed"]
                           /\ cur_buf_id' = b /\ state' = 1 /\ pop_order_cnt' = pop_order_cnt + 1
    <2>1. PICK b \in Bufs : /\ State(b) = "ready" /\ Ticket(b) = pop_order_cnt
                           /\ txbuf_hooker' = [txbuf_hooker EXCEPT ![b].state = "installed"]
                           /\ cur_buf_id' = b /\ state' = 1 /\ pop_order_cnt' = pop_order_cnt + 1
        BY <1>3
    <2>2. txbuf_hooker' = Mark(txbuf_hooker, b, "installed")
        BY <2>1 DEF Mark
    <2>3. Same(txbuf_hooker, txbuf_hooker', b, "installed")
        BY <1>1, <2>2, Marked
    <2>4. Handing(d, b)
        BY <1>2, <2>1, <2>3 DEF Handing, Same
    <2>5. QED
        BY <2>4, HandsOver
<1>4. CASE /\ txbuf_hooker' = txbuf_hooker /\ state' = 0
           /\ cur_buf_id' = cur_buf_id /\ pop_order_cnt' = pop_order_cnt
    <2>1. Handing(d, d)
        BY <1>1, <1>2, <1>4 DEF Handing
    <2>2. QED
        BY <2>1, HandsOver
<1>5. QED
    BY <1>3, <1>4, InstallDoes

\* The interrupt at the end of a buffer.
LEMMA UartTxDoneKeeps ==
    ASSUME TxInv, UartTxDone
    PROVE  TxInv'
<1>1. txbuf_hooker \in [Bufs -> Hooker] /\ pc \in [Tasks -> Places]
    BY DEF TxInv, TxTypes
<1>2. PICK d \in Bufs : d = cur_buf_id
    BY DEF TxInv, TxTypes
<1>3. PICK h : h = [txbuf_hooker EXCEPT ![d] = Idle]
    OBVIOUS
<1>4. /\ state = 1 /\ sent' = Append(sent, txbuf_hooker[d].msg) /\ cs_txbuf_install(h, FALSE)
      /\ UNCHANGED <<push_order_cnt, cur_userbuf_id, pc, own, printed, taken>>
    BY <1>2, <1>3 DEF UartTxDone
<1>5. Idle \in Hooker /\ Idle.state = "idle"
    BY DEF Idle, Hooker
<1>6. /\ h \in [Bufs -> Hooker] /\ h[d] = Idle
      /\ \A c \in Bufs : c # d => h[c] = txbuf_hooker[c]
    BY <1>1, <1>3, <1>5
<1>7. /\ \A q \in Tasks : pc[q] \notin Installing
      /\ pc' \in [Tasks -> Places] /\ \A q \in Tasks : pc'[q] = pc[q] \/ pc'[q] = "idle"
    BY <1>1, <1>4 DEF TxInv, Quiet
<1>8. State(d) = "installed"
    BY <1>2, <1>4 DEF TxInv, Sending
<1>9. CASE \E b \in Bufs : /\ State(b) = "ready" /\ Ticket(b) = pop_order_cnt
                           /\ txbuf_hooker' = [h EXCEPT ![b].state = "installed"]
                           /\ cur_buf_id' = b /\ state' = 1 /\ pop_order_cnt' = pop_order_cnt + 1
    <2>1. PICK b \in Bufs : /\ State(b) = "ready" /\ Ticket(b) = pop_order_cnt
                           /\ txbuf_hooker' = [h EXCEPT ![b].state = "installed"]
                           /\ cur_buf_id' = b /\ state' = 1 /\ pop_order_cnt' = pop_order_cnt + 1
        BY <1>9
    <2>2. b # d
        BY <1>8, <2>1
    <2>3. txbuf_hooker' = Mark(h, b, "installed")
        BY <2>1 DEF Mark
    <2>4. Same(h, txbuf_hooker', b, "installed")
        BY <1>6, <2>3, Marked
    <2>5. /\ txbuf_hooker' \in [Bufs -> Hooker]
          /\ txbuf_hooker'[b].state = "installed"
          /\ txbuf_hooker'[b].timestamp = txbuf_hooker[b].timestamp
          /\ txbuf_hooker'[b].msg = txbuf_hooker[b].msg
          /\ h[b] = txbuf_hooker[b] /\ txbuf_hooker'[d].state = "idle"
          /\ \A c \in Bufs : c # d /\ c # b => txbuf_hooker'[c] = txbuf_hooker[c]
        BY <1>5, <1>6, <2>2, <2>4 DEF Same
    <2>6. Handing(d, b)
        BY <1>2, <1>4, <1>7, <2>1, <2>5 DEF Handing
    <2>7. QED
        BY <2>6, HandsOver
<1>10. CASE /\ txbuf_hooker' = h /\ state' = 0
            /\ cur_buf_id' = cur_buf_id /\ pop_order_cnt' = pop_order_cnt
    <2>1. /\ txbuf_hooker' \in [Bufs -> Hooker] /\ txbuf_hooker'[d].state = "idle"
          /\ \A c \in Bufs : c # d => txbuf_hooker'[c] = txbuf_hooker[c]
        BY <1>5, <1>6, <1>10
    <2>2. Handing(d, d)
        BY <1>2, <1>4, <1>7, <1>10, <2>1 DEF Handing
    <2>3. QED
        BY <2>2, HandsOver
<1>11. QED
    BY <1>4, <1>9, <1>10, InstallDoes

\* A buffer gets another length.
LEMMA LengthSet ==
    ASSUME txbuf_hooker \in [Bufs -> Hooker], NEW b, NEW whole \in BOOLEAN,
           txbuf_hooker' = [txbuf_hooker EXCEPT ![b].used_size = whole]
    PROVE  Alike
<1>1. PICK r : r = [txbuf_hooker[b] EXCEPT !.used_size = whole]
    OBVIOUS
<1>2. txbuf_hooker' = [txbuf_hooker EXCEPT ![b] = r]
    BY <1>1
<1>3. b \in Bufs => /\ r \in Hooker /\ r.state = State(b) /\ r.timestamp = Ticket(b)
                    /\ r.msg = txbuf_hooker[b].msg
    <2>1. SUFFICES ASSUME b \in Bufs
                   PROVE  /\ r \in Hooker /\ r.state = State(b) /\ r.timestamp = Ticket(b)
                          /\ r.msg = txbuf_hooker[b].msg
        OBVIOUS
    <2>2. txbuf_hooker[b] \in Hooker
        BY <2>1
    <2>3. QED
        BY <1>1, <2>2 DEF Hooker, State, Ticket
<1>4. QED
    BY <1>2, <1>3 DEF Alike, State, Ticket

\* A task prints.
LEMMA PrintsKeeps ==
    ASSUME TxInv, NEW p \in Tasks, \A q \in Tasks \ {p} : pc[q] \notin Delicate, Prints(p)
    PROVE  TxInv'
<1>1. pc \in [Tasks -> Places] /\ own \in [Tasks -> Nat] /\ printed \in [Tasks -> Nat]
    BY DEF TxInv, TxTypes
<1>o. own' = own => own' = [own EXCEPT ![p] = own[p]]
    BY <1>1
<1>2. CASE Alloc(p)
    <2>1. PICK b \in Local : State(b) = "idle" /\ Take(p, b, push_order_cnt)
        BY <1>2 DEF Alloc, State
    <2>2. /\ pc[p] = "alloc" /\ pc' = [pc EXCEPT ![p] = "xbuf"] /\ cur_userbuf_id' \in User
          /\ UNCHANGED <<pop_order_cnt, state, cur_buf_id, printed, sent>>
        BY <1>2 DEF Alloc, At, Goto, uart, TxInv, TxTypes
    <2>3. b \in Bufs /\ "xbuf" \in Filling /\ "xbuf" \notin Delicate
        BY BufsAre DEF Filling, Delicate
    <2>4. QED
        BY <2>1, <2>2, <2>3, Takes
<1>3. CASE XbufInstall(p)
    <2>1. /\ pc[p] = "xbuf" /\ pc' = [pc EXCEPT ![p] = "fill"] /\ own' = own /\ printed' = printed
          /\ UNCHANGED buffers
        BY <1>3 DEF XbufInstall, At, Goto, uart, tickets, history, buffers, counts
    <2>2. /\ "xbuf" \in Filling /\ "fill" \in Filling /\ "fill" \in Places
          /\ "fill" \notin Installing
        BY DEF Filling, Places, Installing
    <2>3. QED
        BY <1>1, <1>o, <2>1, <2>2, Moves
<1>4. CASE XbufRelease(p)
    <2>1. /\ pc[p] = "fill" /\ pc' = [pc EXCEPT ![p] = "ready"] /\ own' = own /\ printed' = printed
          /\ UNCHANGED buffers
        BY <1>4 DEF XbufRelease, At, Goto, uart, tickets, history, buffers, counts
    <2>2. /\ "fill" \in Filling /\ "ready" \in Filling /\ "ready" \in Places
          /\ "ready" \notin Installing
        BY DEF Filling, Places, Installing
    <2>3. QED
        BY <1>1, <1>o, <2>1, <2>2, Moves
<1>5. CASE MarkReady(p)
    <2>1. /\ pc[p] = "ready" /\ pc' = [pc EXCEPT ![p] = "size"]
          /\ txbuf_hooker' = Mark(txbuf_hooker, own[p], "ready")
          /\ UNCHANGED <<push_order_cnt, pop_order_cnt, cur_userbuf_id, state, cur_buf_id, own,
                         printed, taken, sent>>
        BY <1>5 DEF MarkReady, At, Goto, uart, tickets, history, Mark
    <2>2. "ready" \in Filling /\ "size" \in Places \ Filling /\ "size" \notin Delicate
        BY DEF Filling, Places, Delicate
    <2>3. txbuf_hooker \in [Bufs -> Hooker] /\ own[p] \in Bufs
        BY <2>1, <2>2 DEF TxInv, TxTypes, Owned
    <2>4. Same(txbuf_hooker, txbuf_hooker', own[p], "ready")
        BY <2>1, <2>3, Marked
    <2>5. QED
        BY <2>1, <2>2, <2>4, Readies
<1>s. CASE SetSize(p)
    <2>1. /\ pc[p] = "size" /\ pc' = [pc EXCEPT ![p] = "test"] /\ own' = own /\ printed' = printed
          /\ txbuf_hooker' = [txbuf_hooker EXCEPT
                 ![own[p]].used_size = (txbuf_hooker[own[p]].msg = MessageOf(p))]
          /\ UNCHANGED counts
        BY <1>s DEF SetSize, At, Goto, uart, tickets, history, counts
    <2>2. "test" \in Places \ Filling /\ "test" \notin Installing
        BY DEF Filling, Places, Delicate, Installing
    <2>3. Alike
        BY <2>1, LengthSet DEF TxInv, TxTypes
    <2>4. QED
        BY <1>1, <1>o, <2>1, <2>2, <2>3, MovesAlike
<1>6. CASE TestState(p)
    <2>1. /\ pc[p] = "test" /\ pc' = [pc EXCEPT ![p] = IF state = 0 THEN "user" ELSE "idle"]
          /\ own' = own /\ printed' = printed /\ UNCHANGED buffers
        BY <1>6 DEF TestState, At, Goto, uart, tickets, history, buffers, counts
    <2>2. /\ {"user", "idle"} \subseteq Places \ Filling /\ "idle" \notin Installing
        BY DEF Filling, Places, Delicate, Installing
    <2>3. CASE state = 0
        BY <1>1, <1>o, <2>1, <2>2, <2>3, Moves
    <2>4. CASE state # 0
        BY <1>1, <1>o, <2>1, <2>2, <2>4, Moves
    <2>5. QED
        BY <2>3, <2>4
<1>7. CASE PickFrom(p, "user", User, "local") \/ PickFrom(p, "local", Local, "disable")
    <2>1. PICK place \in {"user", "local"}, B \in {User, Local}, other \in {"local", "disable"} :
            PickFrom(p, place, B, other)
        BY <1>7
    <2>2. /\ pc[p] = place /\ printed' = printed
          /\ UNCHANGED <<txbuf_hooker, push_order_cnt, cur_userbuf_id, state, cur_buf_id,
                         printed, taken, sent>>
        BY <2>1 DEF PickFrom, At, uart, history
    <2>3. CASE \E b \in Next1(B) :
                 /\ own' = [own EXCEPT ![p] = b] /\ pop_order_cnt' = pop_order_cnt + 1
                 /\ Goto(p, "install")
        <3>1. PICK b \in B : /\ IsNext(b) /\ own' = [own EXCEPT ![p] = b]
                             /\ pop_order_cnt' = pop_order_cnt + 1
                             /\ pc' = [pc EXCEPT ![p] = "install"]
            BY <2>3 DEF Next1, Goto
        <3>2. b \in Bufs /\ State(b) = "ready" /\ Ticket(b) = pop_order_cnt
            BY <3>1, BufsAre DEF IsNext, State, Ticket
        <3>3. QED
            BY <2>2, <3>1, <3>2, Picks
    <2>4. CASE Goto(p, other) /\ own' = own /\ pop_order_cnt' = pop_order_cnt
        <3>1. state = 0
            BY <2>2 DEF TxInv, Quiet, Installing
        <3>2. /\ pc' = [pc EXCEPT ![p] = other] /\ UNCHANGED buffers
              /\ other \in Places /\ other \notin Filling /\ other # "install"
              /\ other # "u_alloc" /\ pc[p] # "install"
            BY <2>2, <2>4 DEF Goto, buffers, counts, Places, Filling, Delicate
        <3>3. QED
            BY <1>1, <1>o, <2>2, <2>4, <3>1, <3>2, Moves
    <2>5. QED
        BY <2>1, <2>3, <2>4 DEF PickFrom
<1>8. CASE InstallPicked(p)
    BY <1>8, InstallsPicked
<1>9. CASE NothingPicked(p)
    <2>1. /\ pc[p] = "disable" /\ pc' = [pc EXCEPT ![p] = "enable"] /\ state' = 0
          /\ own' = own /\ printed' = printed
          /\ UNCHANGED <<txbuf_hooker, push_order_cnt, pop_order_cnt, cur_userbuf_id, cur_buf_id,
                         taken, sent>>
        BY <1>9 DEF NothingPicked, At, Goto, tickets, history
    <2>2. state = 0
        BY <2>1 DEF TxInv, Quiet, Installing
    <2>3. UNCHANGED buffers
        BY <2>1, <2>2 DEF buffers, counts
    <2>4. "enable" \in Places \ Filling /\ "enable" \notin Installing
        BY DEF Filling, Places, Delicate, Installing
    <2>5. QED
        BY <1>1, <1>o, <2>1, <2>3, <2>4, Moves
<1>10. CASE EnableInt(p)
    <2>1. /\ pc[p] = "enable" /\ pc' = [pc EXCEPT ![p] = "idle"] /\ own' = own /\ printed' = printed
          /\ UNCHANGED buffers
        BY <1>10 DEF EnableInt, At, Goto, tickets, history, buffers, counts
    <2>2. "idle" \in Places \ Filling /\ "idle" \notin Installing
        BY DEF Filling, Places, Delicate, Installing
    <2>3. QED
        BY <1>1, <1>o, <2>1, <2>2, Moves
<1>11. QED
    BY <1>2, <1>3, <1>4, <1>5, <1>s, <1>6, <1>7, <1>8, <1>9, <1>10 DEF Prints

\* A task dumps.
LEMMA DumpsKeeps ==
    ASSUME TxInv, NEW p \in Tasks, \A q \in Tasks \ {p} : pc[q] \notin Delicate, Dumps(p)
    PROVE  TxInv'
<1>1. /\ pc \in [Tasks -> Places] /\ own \in [Tasks -> Nat] /\ printed \in [Tasks -> Nat]
      /\ push_order_cnt \in Nat /\ cur_userbuf_id \in User /\ UserBufs \in Nat \ {0}
    BY ConsoleAssumption DEF TxInv, TxTypes
<1>o. own' = own => own' = [own EXCEPT ![p] = own[p]]
    BY <1>1
<1>2. CASE UserRead(p)
    <2>1. /\ pc[p] = "u_read" /\ pc' = [pc EXCEPT ![p] = "u_alloc"]
          /\ own' = [own EXCEPT ![p] = push_order_cnt] /\ printed' = printed /\ UNCHANGED buffers
        BY <1>2 DEF UserRead, At, Goto, uart, tickets, history, buffers, counts
    <2>2. "u_alloc" \in Places \ Filling /\ "u_alloc" \notin Installing
        BY DEF Filling, Places, Delicate, Installing
    <2>3. QED
        BY <1>1, <2>1, <2>2, Moves
<1>3. CASE UserAlloc(p)
    <2>1. /\ pc[p] = "u_alloc" /\ printed' = printed /\ own[p] = push_order_cnt
          /\ UNCHANGED <<pop_order_cnt, state, cur_buf_id, printed, sent>>
        BY <1>3 DEF UserAlloc, At, uart, TxInv, TicketRead
    <2>2. CASE /\ txbuf_hooker[cur_userbuf_id].state = "idle"
               /\ Take(p, cur_userbuf_id, own[p])
               /\ cur_userbuf_id' = (cur_userbuf_id + 1) % UserBufs
               /\ Goto(p, "u_fill")
        <3>1. PICK b \in Bufs : b = cur_userbuf_id
            BY <1>1, BufsAre
        <3>2. State(b) = "idle" /\ Take(p, b, push_order_cnt) /\ pc' = [pc EXCEPT ![p] = "u_fill"]
            BY <2>1, <2>2, <3>1 DEF State, Goto
        <3>3. cur_userbuf_id' \in User
            BY <1>1, <2>2 DEF User
        <3>4. "u_fill" \in Filling /\ "u_fill" \notin Delicate
            BY DEF Filling, Delicate
        <3>5. QED
            BY <2>1, <3>2, <3>3, <3>4, Takes
    <2>3. CASE /\ Goto(p, "u_read")
               /\ UNCHANGED <<txbuf_hooker, push_order_cnt, own, cur_userbuf_id, taken>>
        <3>1. pc' = [pc EXCEPT ![p] = "u_read"] /\ own' = own /\ UNCHANGED buffers
            BY <2>1, <2>3 DEF Goto, buffers, counts
        <3>2. "u_read" \in Places \ Filling /\ "u_read" \notin Installing
            BY DEF Filling, Places, Delicate, Installing
        <3>3. QED
            BY <1>1, <1>o, <2>1, <3>1, <3>2, Moves
    <2>4. QED
        BY <1>3, <2>2, <2>3 DEF UserAlloc
<1>4. CASE UserFill(p)
    <2>1. /\ pc[p] = "u_fill" /\ pc' = [pc EXCEPT ![p] = "u_post"]
          /\ txbuf_hooker' = [txbuf_hooker EXCEPT ![own[p]].state = "ready",
                                                 ![own[p]].used_size = TRUE]
          /\ UNCHANGED <<push_order_cnt, pop_order_cnt, cur_userbuf_id, state, cur_buf_id, own,
                         printed, taken, sent>>
        BY <1>4 DEF UserFill, At, Goto, uart, tickets, history
    <2>2. "u_fill" \in Filling /\ "u_post" \in Places \ Filling /\ "u_post" \notin Delicate
        BY DEF Filling, Places, Delicate
    <2>3. txbuf_hooker \in [Bufs -> Hooker] /\ own[p] \in Bufs
        BY <2>1, <2>2 DEF TxInv, TxTypes, Owned
    <2>4. Same(txbuf_hooker, txbuf_hooker', own[p], "ready")
        BY <2>1, <2>3 DEF Same, Hooker
    <2>5. QED
        BY <2>1, <2>2, <2>4, Readies
<1>5. CASE UserPost(p)
    <2>1. /\ pc[p] = "u_post" /\ pc' = [pc EXCEPT ![p] = "idle"]
          /\ own' = own /\ printed' = printed
          /\ UNCHANGED <<push_order_cnt, cur_userbuf_id, own, printed, taken, sent>>
        BY <1>5 DEF UserPost, At, Goto, history
    <2>2. /\ "idle" \in Places \ Filling /\ "idle" \notin Installing
          /\ \A q \in Tasks : pc[q] \notin Installing
        BY <2>1 DEF Filling, Places, Delicate, Installing
    <2>3. CASE UNCHANGED <<txbuf_hooker, uart, pop_order_cnt>>
        <3>1. UNCHANGED buffers
            BY <2>1, <2>3 DEF buffers, counts, uart
        <3>2. QED
            BY <1>1, <1>o, <2>1, <2>2, <3>1, Moves
    <2>4. CASE state = 0 /\ cs_txbuf_install(txbuf_hooker, TRUE)
        <3>1. pc' \in [Tasks -> Places] /\ \A q \in Tasks : pc'[q] = pc[q] \/ pc'[q] = "idle"
            BY <1>1, <2>1, <2>2
        <3>2. QED
            BY <2>1, <2>2, <2>4, <3>1, InstallsNext
    <2>5. QED
        BY <1>5, <2>3, <2>4 DEF UserPost
<1>6. QED
    BY <1>2, <1>3, <1>4, <1>5 DEF Dumps

\* A task has something to say, or is woken to answer a command.
LEMMA BeginsKeeps ==
    ASSUME TxInv, NEW p \in Tasks, \A q \in Tasks \ {p} : pc[q] \notin Delicate,
           pc[p] = "idle", NEW place \in {"alloc", "u_read"}, pc' = [pc EXCEPT ![p] = place],
           printed' = [printed EXCEPT ![p] = @ + 1], own' = own, UNCHANGED buffers
    PROVE  TxInv'
<1>1. pc \in [Tasks -> Places] /\ own \in [Tasks -> Nat] /\ printed \in [Tasks -> Nat]
    BY DEF TxInv, TxTypes
<1>2. own' = [own EXCEPT ![p] = own[p]] /\ printed' \in [Tasks -> Nat]
    BY <1>1
<1>3. place \in Places \ Filling /\ place \notin Installing /\ place # "install" /\ place # "u_alloc"
    BY DEF Filling, Places, Delicate, Installing
<1>4. QED
    BY <1>1, <1>2, <1>3, Moves

\* Every step of the console keeps the invariant, if no tick disturbs.
LEMMA NextKeepsTxInv ==
    ASSUME ~ Preempt
    PROVE  TxInv /\ [Next]_vars => TxInv'
<1> SUFFICES ASSUME TxInv, [Next]_vars PROVE TxInv'
    OBVIOUS
<1>1. \A p \in Tasks : MayRun(p) => \A q \in Tasks \ {p} : pc[q] \notin Delicate
    BY DEF MayRun
<1>2. CASE UNCHANGED tvars
    BY <1>2 DEF TxInv, TxTypes, Exclusive, Owned, OwnedOnce, TicketRead, Ticketed, OneTicket, Picked,
                Sending, Waiting, Quiet, Counted, OnItsWay, InTurn, State, Ticket,
                tvars, tickets, uart, history
<1>3. CASE \E p \in Printers : Prints(p)
    <2>1. PICK p \in Tasks : Prints(p)
        BY <1>3 DEF Tasks
    <2>2. MayRun(p)
        BY <2>1 DEF Prints, Alloc, XbufInstall, XbufRelease, MarkReady, SetSize, TestState, PickFrom,
                    InstallPicked, NothingPicked, EnableInt, At
    <2>3. QED
        BY <1>1, <2>1, <2>2, PrintsKeeps
<1>4. CASE \E p \in Dumpers : Dumps(p)
    <2>1. PICK p \in Tasks : Dumps(p)
        BY <1>4 DEF Tasks
    <2>2. MayRun(p)
        BY <2>1 DEF Dumps, UserRead, UserAlloc, UserFill, UserPost, At
    <2>3. QED
        BY <1>1, <2>1, <2>2, DumpsKeeps
<1>5. CASE UartTxDone
    BY <1>5, UartTxDoneKeeps
<1>6. CASE \E p \in Tasks \ {Cli} : Begin(p)
    <2>1. PICK p \in Tasks : Begin(p)
        BY <1>6
    <2>2. PICK place \in {"alloc", "u_read"} : pc' = [pc EXCEPT ![p] = place]
        BY <2>1 DEF Begin, Goto
    <2>3. /\ MayRun(p) /\ pc[p] = "idle" /\ printed' = [printed EXCEPT ![p] = @ + 1] /\ own' = own
          /\ UNCHANGED buffers
        BY <2>1 DEF Begin, At, tickets, uart, history, buffers, counts
    <2>4. QED
        BY <1>1, <2>2, <2>3, BeginsKeeps
<1>7. CASE Reads
    <2>1. CASE Fits(Head(msg_queue))
        <3>1. /\ MayRun(Cli) /\ pc[Cli] = "idle" /\ pc' = [pc EXCEPT ![Cli] = "alloc"]
              /\ printed' = [printed EXCEPT ![Cli] = @ + 1] /\ own' = own /\ UNCHANGED buffers
            BY <1>7, <2>1 DEF Reads, At, Goto, tickets, uart, history, buffers, counts
        <3>2. Cli \in Tasks
            BY CliAssumption DEF Tasks
        <3>3. QED
            BY <1>1, <3>1, <3>2, BeginsKeeps
    <2>2. CASE ~ Fits(Head(msg_queue))
        BY <1>2, <1>7, <2>2 DEF Reads, tvars
    <2>3. QED
        BY <2>1, <2>2
<1>8. CASE Types
    BY <1>2, <1>8 DEF Types
<1>9. QED
    BY <1>2, <1>3, <1>4, <1>5, <1>6, <1>7, <1>8 DEF Next, TxStep, vars

\* The invariant always holds.
LEMMA TxInvHolds == ASSUME ~ Preempt PROVE Spec => []TxInv
<1>1. Init => TxInv
    BY InitTxInv DEF Init
<1>2. TxInv /\ [Next]_vars => TxInv'
    BY NextKeepsTxInv
<1>3. QED
    BY <1>1, <1>2, PTL DEF Spec

\* Nor does an install then run over another, however many tasks print.
THEOREM InstalledIsAlwaysSent == ASSUME ~ Preempt PROVE Spec => []InstalledIsSent
<1>1. TxInv => InstalledIsSent
    BY DEF TxInv, Sending, State, InstalledIsSent, Bufs
<1>2. QED
    BY <1>1, TxInvHolds, PTL

-----------------------------------------------------------------------------
(* What is dumped leaves whole: a dumper's buffer is never ready without   *)
(* its length, and a printer that sets one late sets that of a printer's.  *)

\* places where a printer goes on to mark, or give its length to, its buffer
Lining == {"xbuf", "fill", "ready", "size"}

LinesLocal == \A p \in Tasks : pc[p] \in Lining => own[p] \in Local
UserWhole == \A b \in User :
                State(b) \in {"ready", "installed"} => txbuf_hooker[b].used_size = TRUE
SendingWhole == state = 1 /\ cur_buf_id \in User => buf_len = TRUE

WholeInv == TxInv /\ LinesLocal /\ UserWhole /\ SendingWhole

\* Nothing is printed yet.
LEMMA InitWholeInv == TxInit => WholeInv
<1> SUFFICES ASSUME TxInit PROVE WholeInv
    OBVIOUS
<1>1. TxInv
    BY InitTxInv
<1>2. \A b \in Bufs : State(b) = "idle"
    BY DEF TxInit, Bufs, State, Idle
<1>3. (\A p \in Tasks : pc[p] = "idle") /\ state = 0
    BY DEF TxInit
<1>4. LinesLocal /\ SendingWhole
    BY <1>3 DEF LinesLocal, SendingWhole, Lining
<1>5. UserWhole
    BY <1>2, BufsAre DEF UserWhole
<1>6. QED
    BY <1>1, <1>4, <1>5 DEF WholeInv

\* No hooker is of both kinds.
LEMMA Kinds == User \cap Local = {} /\ Bufs = User \cup Local
BY ConsoleAssumption DEF User, Local, Bufs

\* A task goes on to a place where it neither marks nor sizes a buffer it has not
\* had before, and no buffer changes.
LEMMA GoesOn ==
    ASSUME WholeInv, TxInv', NEW p \in Tasks, NEW place, pc' = [pc EXCEPT ![p] = place],
           place \in Lining => pc[p] \in Lining /\ own' = own,
           \A q \in Tasks \ {p} : own'[q] = own[q],
           UNCHANGED <<txbuf_hooker, state, cur_buf_id, buf_len>>
    PROVE  WholeInv'
<1>1. pc \in [Tasks -> Places]
    BY DEF WholeInv, TxInv, TxTypes
<1>2. LinesLocal'
    BY <1>1 DEF WholeInv, LinesLocal
<1>3. UserWhole' /\ SendingWhole'
    BY DEF WholeInv, UserWhole, SendingWhole, State
<1>4. QED
    BY <1>2, <1>3 DEF WholeInv

\* A printer.
LEMMA PrintsWhole ==
    ASSUME WholeInv, TxInv', NEW p \in Printers, Prints(p)
    PROVE  WholeInv'
<1>1. /\ p \in Tasks /\ pc \in [Tasks -> Places] /\ own \in [Tasks -> Nat]
      /\ txbuf_hooker \in [Bufs -> Hooker] /\ printed \in [Tasks -> Nat]
    BY DEF Tasks, WholeInv, TxInv, TxTypes
<1>l. LinesLocal /\ UserWhole /\ SendingWhole
    BY DEF WholeInv
<1>2. CASE Alloc(p)
    <2>1. PICK b \in Local : Take(p, b, push_order_cnt)
        BY <1>2 DEF Alloc
    <2>2. /\ pc' = [pc EXCEPT ![p] = "xbuf"] /\ own' = [own EXCEPT ![p] = b]
          /\ UNCHANGED <<state, cur_buf_id, buf_len>>
        BY <1>2, <2>1 DEF Alloc, Goto, Take, uart
    <2>3. \A c \in Bufs : c # b => txbuf_hooker'[c] = txbuf_hooker[c]
        BY <1>1, <2>1, Kinds DEF Take
    <2>4. LinesLocal'
        BY <1>1, <1>l, <2>2 DEF LinesLocal
    <2>5. UserWhole'
        BY <1>l, <2>3, Kinds DEF UserWhole, State
    <2>6. SendingWhole'
        BY <1>l, <2>2 DEF SendingWhole
    <2>7. QED
        BY <2>4, <2>5, <2>6 DEF WholeInv
<1>3. CASE XbufInstall(p)
    BY <1>1, <1>3, GoesOn DEF XbufInstall, At, Goto, uart, history, Lining
<1>4. CASE XbufRelease(p)
    BY <1>1, <1>4, GoesOn DEF XbufRelease, At, Goto, uart, history, Lining
<1>5. CASE MarkReady(p)
    <2>1. /\ pc[p] = "ready" /\ pc' = [pc EXCEPT ![p] = "size"] /\ own' = own
          /\ UNCHANGED <<state, cur_buf_id, buf_len>>
          /\ txbuf_hooker' = Mark(txbuf_hooker, own[p], "ready")
        BY <1>5 DEF MarkReady, At, Goto, uart, history, Mark
    <2>2. own[p] \in Local /\ own[p] \in Bufs /\ State(own[p]) = "filling"
        BY <1>1, <1>l, <2>1, Kinds DEF LinesLocal, Lining, WholeInv, TxInv, Owned, Filling
    <2>3. Same(txbuf_hooker, txbuf_hooker', own[p], "ready")
        BY <1>1, <2>1, <2>2, Marked
    <2>4. LinesLocal'
        BY <1>1, <1>l, <2>1 DEF LinesLocal, Lining
    <2>5. UserWhole'
        BY <1>l, <2>2, <2>3, Kinds DEF UserWhole, State, Same
    <2>6. SendingWhole'
        BY <1>l, <2>1 DEF SendingWhole
    <2>7. QED
        BY <2>4, <2>5, <2>6 DEF WholeInv
<1>6. CASE SetSize(p)
    <2>1. /\ pc[p] = "size" /\ pc' = [pc EXCEPT ![p] = "test"] /\ own' = own
          /\ UNCHANGED <<state, cur_buf_id, buf_len>>
          /\ txbuf_hooker' = [txbuf_hooker EXCEPT
                 ![own[p]].used_size = (txbuf_hooker[own[p]].msg = MessageOf(p))]
        BY <1>6 DEF SetSize, At, Goto, uart, history
    <2>2. own[p] \in Local
        BY <1>1, <1>l, <2>1 DEF LinesLocal, Lining
    <2>3. \A c \in User : txbuf_hooker'[c] = txbuf_hooker[c]
        BY <1>1, <2>1, <2>2, Kinds
    <2>4. LinesLocal'
        BY <1>1, <1>l, <2>1 DEF LinesLocal, Lining
    <2>5. UserWhole'
        BY <1>l, <2>3 DEF UserWhole, State
    <2>6. SendingWhole'
        BY <1>l, <2>1 DEF SendingWhole
    <2>7. QED
        BY <2>4, <2>5, <2>6 DEF WholeInv
<1>7. CASE TestState(p)
    <2>1. PICK place \in {"user", "idle"} : pc' = [pc EXCEPT ![p] = place]
        BY <1>7 DEF TestState, Goto
    <2>2. place \notin Lining
        BY DEF Lining
    <2>3. QED
        BY <1>1, <1>7, <2>1, <2>2, GoesOn DEF TestState, uart, history
<1>8. CASE PickFrom(p, "user", User, "local") \/ PickFrom(p, "local", Local, "disable")
    <2>1. PICK place \in {"install", "local", "disable"} : pc' = [pc EXCEPT ![p] = place]
        BY <1>8 DEF PickFrom, Goto
    <2>2. place \notin Lining
        BY DEF Lining
    <2>3. \A q \in Tasks \ {p} : own'[q] = own[q]
        BY <1>1, <1>8 DEF PickFrom
    <2>4. QED
        BY <1>1, <1>8, <2>1, <2>2, <2>3, GoesOn DEF PickFrom, uart, history
<1>9. CASE InstallPicked(p)
    <2>1. /\ pc[p] = "install" /\ pc' = [pc EXCEPT ![p] = "enable"] /\ own' = own
          /\ cur_buf_id' = own[p] /\ buf_len' = txbuf_hooker[own[p]].used_size
          /\ txbuf_hooker' = Mark(txbuf_hooker, own[p], "installed")
        BY <1>9 DEF InstallPicked, At, Goto, history, Mark, Installed
    <2>2. own[p] \in Bufs /\ State(own[p]) = "ready"
        BY <1>1, <2>1 DEF WholeInv, TxInv, Picked
    <2>3. Same(txbuf_hooker, txbuf_hooker', own[p], "installed")
        BY <1>1, <2>1, <2>2, Marked
    <2>4. \A c \in Bufs : txbuf_hooker'[c].used_size = txbuf_hooker[c].used_size
        BY <1>1, <2>1 DEF Mark, Hooker
    <2>5. LinesLocal'
        BY <1>1, <1>l, <2>1 DEF LinesLocal, Lining
    <2>6. UserWhole'
        BY <1>l, <2>2, <2>3, <2>4, Kinds DEF UserWhole, State, Same
    <2>7. SendingWhole'
        BY <1>l, <2>1, <2>2 DEF SendingWhole, UserWhole
    <2>8. QED
        BY <2>5, <2>6, <2>7 DEF WholeInv
<1>10. CASE NothingPicked(p)
    <2>1. /\ pc' = [pc EXCEPT ![p] = "enable"] /\ own' = own /\ state' = 0 /\ state = 0
          /\ UNCHANGED <<txbuf_hooker, cur_buf_id, buf_len>>
        BY <1>1, <1>10 DEF NothingPicked, At, Goto, history, WholeInv, TxInv, Quiet, Installing
    <2>2. QED
        BY <1>1, <2>1, GoesOn DEF Lining
<1>11. CASE EnableInt(p)
    BY <1>1, <1>11, GoesOn DEF EnableInt, At, Goto, history, Lining
<1>12. QED
    BY <1>2, <1>3, <1>4, <1>5, <1>6, <1>7, <1>8, <1>9, <1>10, <1>11 DEF Prints

\* The next buffer, if any, is installed with the length it has.
LEMMA InstallsWhole ==
    ASSUME WholeInv, TxInv', NEW h \in [Bufs -> Hooker], NEW quiet, cs_txbuf_install(h, quiet),
           \A b \in Bufs : \/ h[b] = txbuf_hooker[b]
                           \/ State(b) = "installed" /\ h[b].state = "idle",
           \A q \in Tasks : pc'[q] = pc[q] \/ pc'[q] = "idle", own' = own
    PROVE  WholeInv'
<1>l. LinesLocal /\ UserWhole /\ SendingWhole
    BY DEF WholeInv
<1>1. LinesLocal'
    BY <1>l DEF LinesLocal, Lining
<1>2. CASE \E b \in Next1(User) \cup Next1(Local) :
             /\ txbuf_hooker' = Installed(b, h)
             /\ cur_buf_id' = b /\ buf_len' = h[b].used_size /\ state' = 1
    <2>1. PICK b \in Bufs : /\ State(b) = "ready" /\ txbuf_hooker' = Mark(h, b, "installed")
                           /\ cur_buf_id' = b /\ buf_len' = h[b].used_size
        BY <1>2, Kinds DEF Next1, IsNext, Installed, State, Mark
    <2>2. h[b] = txbuf_hooker[b]
        BY <2>1
    <2>3. Same(h, txbuf_hooker', b, "installed")
        BY <2>1, Marked
    <2>4. txbuf_hooker'[b].used_size = txbuf_hooker[b].used_size
        BY <2>1, <2>2 DEF Mark, Hooker
    <2>5. \A c \in Bufs : c # b => txbuf_hooker'[c] = txbuf_hooker[c] \/ State(c)' = "idle"
        BY <2>3 DEF Same, State
    <2>6. UserWhole'
        BY <1>l, <2>1, <2>4, <2>5, Kinds DEF UserWhole, State
    <2>7. SendingWhole'
        BY <1>l, <2>1, <2>2 DEF UserWhole, SendingWhole
    <2>8. QED
        BY <1>1, <2>6, <2>7 DEF WholeInv
<1>3. CASE txbuf_hooker' = h /\ state' = 0
    <2>1. \A c \in Bufs : txbuf_hooker'[c] = txbuf_hooker[c] \/ State(c)' = "idle"
        BY <1>3 DEF State
    <2>2. UserWhole'
        BY <1>l, <2>1, Kinds DEF UserWhole, State
    <2>3. SendingWhole'
        BY <1>3 DEF SendingWhole
    <2>4. QED
        BY <1>1, <2>2, <2>3 DEF WholeInv
<1>4. QED
    BY <1>2, <1>3 DEF cs_txbuf_install

\* A dumper.
LEMMA DumpsKeepWhole ==
    ASSUME WholeInv, TxInv', NEW p \in Dumpers, Dumps(p)
    PROVE  WholeInv'
<1>1. /\ p \in Tasks /\ pc \in [Tasks -> Places] /\ own \in [Tasks -> Nat]
      /\ txbuf_hooker \in [Bufs -> Hooker] /\ cur_userbuf_id \in User
    BY DEF Tasks, WholeInv, TxInv, TxTypes
<1>l. LinesLocal /\ UserWhole /\ SendingWhole
    BY DEF WholeInv
<1>2. CASE UserRead(p)
    <2>1. /\ pc' = [pc EXCEPT ![p] = "u_alloc"] /\ \A q \in Tasks \ {p} : own'[q] = own[q]
          /\ UNCHANGED <<txbuf_hooker, state, cur_buf_id, buf_len>>
        BY <1>1, <1>2 DEF UserRead, Goto, uart, history
    <2>2. QED
        BY <1>1, <2>1, GoesOn DEF Lining
<1>3. CASE UserAlloc(p)
    <2>1. UNCHANGED <<state, cur_buf_id, buf_len>>
        BY <1>3 DEF UserAlloc, uart
    <2>2. CASE Take(p, cur_userbuf_id, own[p]) /\ Goto(p, "u_fill")
        <3>1. PICK b \in User : b = cur_userbuf_id
            BY <1>1
        <3>2. /\ \A c \in Bufs : c # b => txbuf_hooker'[c] = txbuf_hooker[c]
              /\ State(b)' = "filling"
            BY <1>1, <2>2, <3>1, Kinds DEF Take, State
        <3>3. LinesLocal'
            BY <1>1, <1>l, <2>2 DEF LinesLocal, Lining, Take, Goto
        <3>4. UserWhole'
            BY <1>l, <3>2, Kinds DEF UserWhole, State
        <3>5. SendingWhole'
            BY <1>l, <2>1 DEF SendingWhole
        <3>6. QED
            BY <3>3, <3>4, <3>5 DEF WholeInv
    <2>3. CASE Goto(p, "u_read") /\ UNCHANGED <<txbuf_hooker, own>>
        BY <1>1, <2>1, <2>3, GoesOn DEF Goto, Lining
    <2>4. QED
        BY <1>3, <2>2, <2>3 DEF UserAlloc
<1>4. CASE UserFill(p)
    <2>1. /\ pc[p] = "u_fill" /\ pc' = [pc EXCEPT ![p] = "u_post"] /\ own' = own
          /\ UNCHANGED <<state, cur_buf_id, buf_len>>
          /\ txbuf_hooker' = [txbuf_hooker EXCEPT ![own[p]].state = "ready",
                                                 ![own[p]].used_size = TRUE]
        BY <1>4 DEF UserFill, At, Goto, uart, history
    <2>2. PICK b \in Bufs : b = own[p] /\ State(b) = "filling"
        BY <1>1, <2>1 DEF WholeInv, TxInv, Owned, Filling
    <2>3. /\ \A c \in Bufs : c # b => txbuf_hooker'[c] = txbuf_hooker[c]
          /\ txbuf_hooker'[b].used_size = TRUE
        BY <1>1, <2>1, <2>2 DEF Hooker
    <2>4. LinesLocal'
        BY <1>1, <1>l, <2>1 DEF LinesLocal, Lining
    <2>5. UserWhole'
        BY <1>l, <2>2, <2>3, Kinds DEF UserWhole, State
    <2>6. SendingWhole'
        BY <1>l, <2>1 DEF SendingWhole
    <2>7. QED
        BY <2>4, <2>5, <2>6 DEF WholeInv
<1>5. CASE UserPost(p)
    <2>1. /\ pc' = [pc EXCEPT ![p] = "idle"] /\ own' = own
        BY <1>5 DEF UserPost, Goto, history
    <2>2. CASE cs_txbuf_install(txbuf_hooker, TRUE)
        <3>1. \A q \in Tasks : pc'[q] = pc[q] \/ pc'[q] = "idle"
            BY <1>1, <2>1
        <3>2. QED
            BY <1>1, <2>1, <2>2, <3>1, InstallsWhole
    <2>3. CASE UNCHANGED <<txbuf_hooker, uart, pop_order_cnt>>
        BY <1>1, <2>1, <2>3, GoesOn DEF uart, Lining
    <2>4. QED
        BY <1>5, <2>2, <2>3 DEF UserPost
<1>6. QED
    BY <1>2, <1>3, <1>4, <1>5 DEF Dumps

\* The interrupt.
LEMMA UartTxDoneWhole ==
    ASSUME WholeInv, TxInv', UartTxDone
    PROVE  WholeInv'
<1>1. txbuf_hooker \in [Bufs -> Hooker]
    BY DEF WholeInv, TxInv, TxTypes
<1>2. PICK d \in Bufs : d = cur_buf_id
    BY DEF WholeInv, TxInv, TxTypes
<1>3. PICK h : h = [txbuf_hooker EXCEPT ![d] = Idle]
    OBVIOUS
<1>4. /\ state = 1 /\ cs_txbuf_install(h, FALSE) /\ pc' = pc /\ own' = own
    BY <1>2, <1>3 DEF UartTxDone
<1>5. State(d) = "installed"
    BY <1>2, <1>4 DEF WholeInv, TxInv, Sending
<1>6. Idle \in Hooker /\ Idle.state = "idle"
    BY DEF Idle, Hooker
<1>7. /\ h \in [Bufs -> Hooker]
      /\ \A b \in Bufs : \/ h[b] = txbuf_hooker[b]
                         \/ State(b) = "installed" /\ h[b].state = "idle"
    BY <1>1, <1>3, <1>5, <1>6
<1>8. QED
    BY <1>4, <1>7, InstallsWhole

\* Every step of the console, if no tick disturbs.
LEMMA NextKeepsWholeInv ==
    ASSUME ~ Preempt
    PROVE  WholeInv /\ [Next]_vars => WholeInv'
<1> SUFFICES ASSUME WholeInv, [Next]_vars PROVE WholeInv'
    OBVIOUS
<1>t. TxInv'
    BY NextKeepsTxInv DEF WholeInv
<1>1. pc \in [Tasks -> Places]
    BY DEF WholeInv, TxInv, TxTypes
<1>2. CASE UNCHANGED tvars
    BY <1>t, <1>2 DEF WholeInv, LinesLocal, UserWhole, SendingWhole, State,
                      tvars, uart, history
<1>3. CASE \E p \in Printers : Prints(p)
    BY <1>t, <1>3, PrintsWhole
<1>4. CASE \E p \in Dumpers : Dumps(p)
    BY <1>t, <1>4, DumpsKeepWhole
<1>5. CASE UartTxDone
    BY <1>t, <1>5, UartTxDoneWhole
<1>6. CASE \E p \in Tasks \ {Cli} : Begin(p)
    <2>1. PICK p \in Tasks, place \in {"alloc", "u_read"} : Begin(p) /\ Goto(p, place)
        BY <1>6 DEF Begin
    <2>2. place \notin Lining
        BY DEF Lining
    <2>3. QED
        BY <1>t, <2>1, <2>2, GoesOn DEF Begin, Goto, uart, history
<1>7. CASE Reads
    <2>1. CASE Fits(Head(msg_queue))
        <3>1. Cli \in Tasks /\ "alloc" \notin Lining
            BY CliAssumption DEF Tasks, Lining
        <3>2. QED
            BY <1>t, <1>7, <2>1, <3>1, GoesOn DEF Reads, Goto, uart, history
    <2>2. CASE ~ Fits(Head(msg_queue))
        BY <1>2, <1>7, <2>2 DEF Reads, tvars
    <2>3. QED
        BY <2>1, <2>2
<1>8. CASE Types
    BY <1>2, <1>8 DEF Types
<1>9. QED
    BY <1>2, <1>3, <1>4, <1>5, <1>6, <1>7, <1>8 DEF Next, TxStep, vars

\* Whatever the number of tasks, buffers and messages: buffers leave in the order
\* of their tickets, each once, and what is dumped leaves with its own length, if
\* the tick does not take a task out of an install without a lock.  Of what is
\* printed it says the order only: the interrupt may come between the state and
\* the length that post_printf writes.
THEOREM AlwaysSentInOrder == ASSUME ~ Preempt PROVE Spec => []SentInOrder
<1>1. Init => WholeInv
    BY InitWholeInv DEF Init
<1>2. WholeInv /\ [Next]_vars => WholeInv'
    BY NextKeepsWholeInv
<1>3. WholeInv => SentInOrder
    BY DEF WholeInv, TxInv, SentInOrder, SendingWhole, DumpsWhole
<1>4. QED
    BY <1>1, <1>2, <1>3, PTL DEF Spec

-----------------------------------------------------------------------------
(* Types, whether or not the tick disturbs.                                *)

\* What the types of the console rest on: who fills or installs a buffer has one,
\* and no ticket, read early or late, is ahead of those given out.
AnyTypes ==
    /\ txbuf_hooker \in [Bufs -> Hooker]
    /\ push_order_cnt \in Nat /\ pop_order_cnt \in 0 .. push_order_cnt
    /\ taken \in Seq(Message) /\ Len(taken) = push_order_cnt
    /\ cur_userbuf_id \in User /\ cur_buf_id \in Bufs
    /\ state \in {0, 1} /\ buf_len \in BOOLEAN /\ uart_int \in BOOLEAN /\ outptr \in Tasks \cup {Nobody}
    /\ pc \in [Tasks -> Places] /\ own \in [Tasks -> Nat] /\ printed \in [Tasks -> Nat]

HasBuffer == \A p \in Tasks : pc[p] \in Filling \cup {"install"} =>
                own[p] \in Bufs /\ push_order_cnt > 0
NoTicketAhead ==
    /\ \A p \in Tasks : pc[p] = "u_alloc" => own[p] <= push_order_cnt
    /\ \A b \in Bufs : \/ Ticket(b) < push_order_cnt
                       \/ push_order_cnt = 0 /\ Ticket(b) = 0 /\ State(b) = "idle"

TypesInv == AnyTypes /\ HasBuffer /\ NoTicketAhead

\* Nothing is printed yet.
LEMMA InitTypesInv == TxInit => TypesInv
<1> SUFFICES ASSUME TxInit PROVE TypesInv
    OBVIOUS
<1>1. /\ User \subseteq Nat /\ 0 \in User /\ Local \subseteq Nat /\ NoBuf \in Nat
    BY ConsoleAssumption DEF User, Local, NoBuf
<1>2. txbuf_hooker \in [Bufs -> Hooker] /\ \A b \in Bufs : State(b) = "idle" /\ Ticket(b) = 0
    BY DEF TxInit, Bufs, Hooker, Idle, State, Ticket
<1>3. AnyTypes
    BY <1>1, <1>2 DEF TxInit, AnyTypes, Bufs, Places
<1>4. HasBuffer /\ NoTicketAhead
    BY <1>2 DEF TxInit, HasBuffer, NoTicketAhead, Filling
<1>5. QED
    BY <1>3, <1>4 DEF TypesInv

\* The next buffer to send is one, and its ticket has been given out.
LEMMA NextIsTaken ==
    ASSUME TypesInv, NEW B, B \subseteq Bufs, NEW b \in Next1(B)
    PROVE  b \in Bufs /\ b \in Nat /\ pop_order_cnt + 1 \in 0 .. push_order_cnt
BY BufsAre DEF TypesInv, AnyTypes, NoTicketAhead, Next1, IsNext, State, Ticket

\* A task gets a buffer and a ticket.
LEMMA TakeTypes ==
    ASSUME TypesInv, NEW p \in Tasks, NEW b \in Bufs, NEW n \in Nat, n <= push_order_cnt,
           Take(p, b, n), NEW place \in Filling, Goto(p, place),
           cur_userbuf_id' \in User, UNCHANGED <<pop_order_cnt, uart, outptr, printed>>
    PROVE  TypesInv'
<1>1. MessageOf(p) \in Message
    BY DEF TypesInv, AnyTypes, MessageOf, Message
<1>2. txbuf_hooker' \in [Bufs -> Hooker]
    BY <1>1 DEF TypesInv, AnyTypes, Take, Hooker
<1>3. push_order_cnt' \in Nat /\ pop_order_cnt' \in 0 .. push_order_cnt'
    BY DEF TypesInv, AnyTypes, Take
<1>4. taken' \in Seq(Message) /\ Len(taken') = push_order_cnt'
    BY <1>1, AppendProperties DEF TypesInv, AnyTypes, Take
<1>5. place \in Places /\ place # "u_alloc" /\ b \in Nat
    BY BufsAre DEF Places, Filling
<1>6. pc' \in [Tasks -> Places] /\ own' \in [Tasks -> Nat]
    BY <1>5 DEF TypesInv, AnyTypes, Take, Goto
<1>7. AnyTypes'
    BY <1>2, <1>3, <1>4, <1>6 DEF TypesInv, AnyTypes, uart
<1>8. HasBuffer'
    BY DEF TypesInv, AnyTypes, HasBuffer, Take, Goto
<1>9. NoTicketAhead'
    <2>1. push_order_cnt \in Nat /\ push_order_cnt' = push_order_cnt + 1
        BY DEF TypesInv, AnyTypes, Take
    <2>2. \A q \in Tasks : pc'[q] = "u_alloc" => own'[q] = own[q] /\ pc[q] = "u_alloc"
        BY <1>5 DEF TypesInv, AnyTypes, Take, Goto
    <2>3. \A q \in Tasks : own[q] \in Nat
        BY DEF TypesInv, AnyTypes
    <2>4. \A c \in Bufs : Ticket(c)' = Ticket(c) \/ Ticket(c)' = n
        BY DEF TypesInv, AnyTypes, Take, Ticket
    <2>5. \A c \in Bufs : Ticket(c) \in Nat /\ Ticket(c) <= push_order_cnt
        <3>1. \A c \in Bufs : txbuf_hooker[c] \in Hooker
            BY DEF TypesInv, AnyTypes
        <3>2. \A c \in Bufs : Ticket(c) \in Nat
            BY <3>1 DEF Ticket, Hooker
        <3>3. QED
            BY <2>1, <3>2 DEF TypesInv, NoTicketAhead
    <2>6. \A c \in Bufs : Ticket(c)' < push_order_cnt'
        BY <2>1, <2>4, <2>5
    <2>7. QED
        BY <2>1, <2>2, <2>3, <2>6 DEF TypesInv, NoTicketAhead
<1>10. QED
    BY <1>7, <1>8, <1>9 DEF TypesInv

\* A buffer of a task changes its state and keeps its ticket; the task goes on.
LEMMA MarkTypes ==
    ASSUME TypesInv, NEW p \in Tasks, pc[p] \in Filling \cup {"install"},
           NEW s \in {"ready", "installed"},
           Same(txbuf_hooker, txbuf_hooker', own[p], s),
           NEW place \in Places \ (Filling \cup {"install", "u_alloc"}), Goto(p, place),
           cur_buf_id' \in {cur_buf_id, own[p]}, state' \in {0, 1}, buf_len' \in BOOLEAN,
           UNCHANGED <<uart_int, tickets, outptr, own, printed, history>>
    PROVE  TypesInv'
<1>1. own[p] \in Bufs /\ push_order_cnt > 0
    BY DEF TypesInv, HasBuffer
<1>2. txbuf_hooker' \in [Bufs -> Hooker] /\ \A b \in Bufs : Ticket(b)' = Ticket(b)
    BY <1>1 DEF Same, Ticket
<1>3. AnyTypes'
    BY <1>1, <1>2 DEF TypesInv, AnyTypes, Goto, tickets, history
<1>4. HasBuffer'
    BY DEF TypesInv, AnyTypes, HasBuffer, Goto, tickets
<1>5. NoTicketAhead'
    BY <1>1, <1>2 DEF TypesInv, AnyTypes, NoTicketAhead, Goto, tickets
<1>6. QED
    BY <1>3, <1>4, <1>5 DEF TypesInv

\* A buffer that stays as it is.
LEMMA Unmoved == ASSUME TypesInv, UNCHANGED txbuf_hooker PROVE Alike
BY DEF TypesInv, AnyTypes, Alike, State, Ticket

\* A task goes on, and no buffer, but for a length, and no ticket changes.
LEMMA GoTypes ==
    ASSUME TypesInv, NEW p \in Tasks, NEW place \in Places, Goto(p, place),
           \/ own' = own /\ (place \in Filling => pc[p] \in Filling)
                         /\ place \notin {"install", "u_alloc"}
           \/ own' = [own EXCEPT ![p] = push_order_cnt] /\ place = "u_alloc",
           printed' \in [Tasks -> Nat], outptr' \in Tasks \cup {Nobody},
           state' \in {0, 1}, uart_int' \in BOOLEAN,
           Alike, UNCHANGED <<cur_buf_id, buf_len, tickets, history>>
    PROVE  TypesInv'
<1>1. AnyTypes'
    BY DEF TypesInv, AnyTypes, Goto, tickets, history, Alike
<1>2. HasBuffer'
    BY DEF TypesInv, AnyTypes, HasBuffer, Goto, tickets, Filling
<1>3. NoTicketAhead'
    BY DEF TypesInv, AnyTypes, NoTicketAhead, Goto, tickets, Alike
<1>4. QED
    BY <1>1, <1>2, <1>3 DEF TypesInv

\* A task that prints.
LEMMA PrintsTypes ==
    ASSUME TypesInv, NEW p \in Tasks, Prints(p)
    PROVE  TypesInv'
<1> USE DEF At, tickets, uart, history
<1>1. CASE Alloc(p)
    <2>1. PICK b \in Local : Take(p, b, push_order_cnt)
        BY <1>1 DEF Alloc
    <2>2. push_order_cnt \in Nat /\ push_order_cnt <= push_order_cnt /\ cur_userbuf_id' \in User
        BY <1>1 DEF Alloc, TypesInv, AnyTypes
    <2>3. "xbuf" \in Filling /\ b \in Bufs
        BY BufsAre DEF Filling
    <2>4. QED
        BY <1>1, <2>1, <2>2, <2>3, TakeTypes DEF Alloc
<1>2. CASE XbufInstall(p) \/ XbufRelease(p) \/ TestState(p) \/ NothingPicked(p) \/ EnableInt(p)
    <2>1. PICK place \in {"fill", "ready", "user", "idle", "enable"} :
              Goto(p, place) /\ (place \in {"fill", "ready"} => pc[p] \in {"xbuf", "fill"})
        BY <1>2 DEF XbufInstall, XbufRelease, TestState, NothingPicked, EnableInt
    <2>2. /\ own' = own /\ printed' \in [Tasks -> Nat] /\ outptr' \in Tasks \cup {Nobody}
          /\ state' \in {0, 1} /\ uart_int' \in BOOLEAN
          /\ UNCHANGED <<txbuf_hooker, cur_buf_id, buf_len, tickets, history>>
        BY <1>2 DEF XbufInstall, XbufRelease, TestState, NothingPicked, EnableInt, TypesInv, AnyTypes
    <2>3. place \in Places /\ place \notin {"install", "u_alloc"}
          /\ (place \in Filling => pc[p] \in Filling)
        BY <2>1 DEF Places, Filling, Delicate
    <2>4. QED
        BY <2>1, <2>2, <2>3, Unmoved, GoTypes
<1>3. CASE MarkReady(p)
    <2>1. pc[p] \in Filling /\ "size" \in Places \ (Filling \cup {"install", "u_alloc"})
        BY <1>3 DEF MarkReady, Filling, Places, Delicate
    <2>2. state' \in {0, 1} /\ cur_buf_id' = cur_buf_id /\ buf_len' \in BOOLEAN
        BY <1>3 DEF MarkReady, TypesInv, AnyTypes
    <2>3. txbuf_hooker \in [Bufs -> Hooker] /\ own[p] \in Bufs
        BY <2>1 DEF TypesInv, AnyTypes, HasBuffer
    <2>4. Same(txbuf_hooker, txbuf_hooker', own[p], "ready")
        BY <1>3, <2>3, Marked DEF MarkReady, Mark
    <2>5. QED
        BY <1>3, <2>1, <2>2, <2>4, MarkTypes DEF MarkReady
<1>s. CASE SetSize(p)
    <2>1. Alike
        BY <1>s, LengthSet DEF SetSize, TypesInv, AnyTypes
    <2>2. "test" \in Places \ (Filling \cup {"install", "u_alloc"})
        BY DEF Filling, Places, Delicate
    <2>3. QED
        BY <1>s, <2>1, <2>2, GoTypes DEF SetSize, TypesInv, AnyTypes
<1>4. CASE InstallPicked(p)
    <2>1. pc[p] = "install" /\ "enable" \in Places \ (Filling \cup {"install", "u_alloc"})
        BY <1>4 DEF InstallPicked, Filling, Places, Delicate
    <2>2. txbuf_hooker \in [Bufs -> Hooker] /\ own[p] \in Bufs
        BY <2>1 DEF TypesInv, AnyTypes, HasBuffer
    <2>3. Same(txbuf_hooker, txbuf_hooker', own[p], "installed")
        BY <1>4, <2>2, Marked DEF InstallPicked, Installed, Mark
    <2>4. buf_len' \in BOOLEAN
        BY <1>4, <2>2 DEF InstallPicked, Hooker
    <2>5. QED
        BY <1>4, <2>1, <2>3, <2>4, MarkTypes DEF InstallPicked
<1>5. ASSUME NEW B, B \subseteq Bufs, NEW from, NEW otherwise \in {"local", "disable"},
             PickFrom(p, from, B, otherwise)
      PROVE  TypesInv'
    <2>1. CASE Next1(B) = {}
        <3>1. Goto(p, otherwise) /\ own' = own /\ UNCHANGED pop_order_cnt
            BY <1>5, <2>1 DEF PickFrom
        <3>2. otherwise \in Places /\ otherwise \notin Filling \cup {"install", "u_alloc"}
            BY DEF Places, Filling, Delicate
        <3>3. QED
            BY <1>5, <3>1, <3>2, Unmoved, GoTypes DEF PickFrom, TypesInv, AnyTypes
    <2>2. ASSUME NEW b \in Next1(B), own' = [own EXCEPT ![p] = b],
                 pop_order_cnt' = pop_order_cnt + 1, Goto(p, "install")
          PROVE  TypesInv'
        <3>1. b \in Bufs /\ b \in Nat /\ pop_order_cnt' \in 0 .. push_order_cnt /\ push_order_cnt > 0
            <4>1. b \in Bufs /\ b \in Nat /\ pop_order_cnt + 1 \in 0 .. push_order_cnt
                BY <1>5, <2>2, NextIsTaken
            <4>2. pop_order_cnt \in Nat /\ push_order_cnt \in Nat
                BY DEF TypesInv, AnyTypes
            <4>3. QED
                BY <2>2, <4>1, <4>2
        <3>2. "install" \in Places
            BY DEF Places, Delicate
        <3>3. AnyTypes'
            BY <1>5, <2>2, <3>1, <3>2 DEF PickFrom, TypesInv, AnyTypes, Goto
        <3>4. HasBuffer'
            BY <1>5, <2>2, <3>1 DEF PickFrom, TypesInv, AnyTypes, HasBuffer, Goto
        <3>5. NoTicketAhead'
            BY <1>5, <2>2 DEF PickFrom, TypesInv, AnyTypes, NoTicketAhead, Goto, State, Ticket
        <3>6. QED
            BY <3>3, <3>4, <3>5 DEF TypesInv
    <2>3. QED
        BY <1>5, <2>1, <2>2 DEF PickFrom
<1>6. QED
    BY <1>1, <1>2, <1>3, <1>s, <1>4, <1>5, BufsAre DEF Prints

\* What cs_txbuf_install does to the types, on the hookers as they are or with
\* the buffer just sent given back.
LEMMA InstallTypes ==
    ASSUME TypesInv, NEW h \in [Bufs -> Hooker], NEW quiet \in BOOLEAN,
           \A b \in Bufs : h[b] \in {txbuf_hooker[b], Idle}, cs_txbuf_install(h, quiet),
           \/ UNCHANGED <<pc, own>>
           \/ \E p \in Tasks : Goto(p, "idle") /\ own' = own,
           UNCHANGED <<push_order_cnt, cur_userbuf_id, outptr, printed, taken>>
    PROVE  TypesInv'
<1>1. \/ \E b \in Bufs : /\ pop_order_cnt + 1 \in 0 .. push_order_cnt
                          /\ txbuf_hooker' = [h EXCEPT ![b].state = "installed"]
                          /\ cur_buf_id' = b /\ buf_len' = h[b].used_size
                          /\ state' = 1 /\ uart_int' = TRUE
                          /\ pop_order_cnt' = pop_order_cnt + 1
      \/ /\ txbuf_hooker' = h /\ state' = 0 /\ uart_int' = quiet
         /\ UNCHANGED <<cur_buf_id, buf_len, pop_order_cnt>>
    BY NextIsTaken, BufsAre DEF cs_txbuf_install, Installed
<1>2. \A b \in Bufs : h[b].timestamp = Ticket(b) \/ (h[b].timestamp = 0 /\ h[b].state = "idle")
    BY DEF Idle, Ticket
<1>3. \A b \in Bufs : \/ h[b].timestamp < push_order_cnt
                      \/ push_order_cnt = 0 /\ h[b].timestamp = 0 /\ h[b].state = "idle"
    <2>1. \A b \in Bufs : State(b) = "idle" => h[b].state = "idle"
        BY DEF State, Idle
    <2>2. push_order_cnt \in Nat
        BY DEF TypesInv, AnyTypes
    <2>3. QED
        BY <1>2, <2>1, <2>2 DEF TypesInv, NoTicketAhead
<1>4. txbuf_hooker' \in [Bufs -> Hooker]
    BY <1>1 DEF Hooker
<1>5. "idle" \in Places /\ "idle" \notin Filling \cup {"install", "u_alloc"}
    BY DEF Places, Filling
<1>6. /\ pc' \in [Tasks -> Places] /\ own' = own
      /\ \A q \in Tasks : pc'[q] = pc[q] \/ pc'[q] = "idle"
    BY <1>5 DEF TypesInv, AnyTypes, Goto
<1>b. buf_len' \in BOOLEAN
    BY <1>1 DEF Hooker, TypesInv, AnyTypes
<1>7. AnyTypes'
    BY <1>1, <1>4, <1>6, <1>b DEF TypesInv, AnyTypes
<1>8. HasBuffer'
    BY <1>5, <1>6 DEF TypesInv, HasBuffer
<1>9. NoTicketAhead'
    <2>1. \A b \in Bufs : \/ Ticket(b)' < push_order_cnt'
                          \/ push_order_cnt' = 0 /\ Ticket(b)' = 0 /\ State(b)' = "idle"
        <3>1. CASE txbuf_hooker' = h
            BY <1>3, <3>1 DEF State, Ticket
        <3>2. ASSUME NEW c \in Bufs, txbuf_hooker' = [h EXCEPT ![c].state = "installed"],
                     pop_order_cnt + 1 \in 0 .. push_order_cnt
              PROVE  \A b \in Bufs : Ticket(b)' < push_order_cnt'
            <4>1. push_order_cnt # 0
                BY <3>2 DEF TypesInv, AnyTypes
            <4>2. \A b \in Bufs : txbuf_hooker'[b].timestamp = h[b].timestamp
                BY <3>2 DEF Hooker
            <4>3. QED
                BY <1>3, <4>1, <4>2 DEF Ticket
        <3>3. QED
            BY <1>1, <3>1, <3>2
    <2>2. QED
        BY <1>6, <2>1 DEF TypesInv, NoTicketAhead
<1>10. QED
    BY <1>7, <1>8, <1>9 DEF TypesInv

\* A task that dumps.
LEMMA DumpsTypes ==
    ASSUME TypesInv, NEW p \in Tasks, Dumps(p)
    PROVE  TypesInv'
<1> USE DEF At, tickets, uart, history
<1>1. CASE UserRead(p)
    <2>1. "u_alloc" \in Places
        BY DEF Places, Delicate
    <2>2. QED
        BY <1>1, <2>1, Unmoved, GoTypes DEF UserRead, TypesInv, AnyTypes
<1>2. CASE UserAlloc(p)
    <2>1. own[p] \in Nat /\ own[p] <= push_order_cnt /\ pc[p] = "u_alloc"
        BY <1>2 DEF UserAlloc, TypesInv, AnyTypes, NoTicketAhead
    <2>2. CASE Take(p, cur_userbuf_id, own[p]) /\ Goto(p, "u_fill")
               /\ cur_userbuf_id' = (cur_userbuf_id + 1) % UserBufs
        <3>1. cur_userbuf_id \in User /\ cur_userbuf_id \in Bufs
            BY BufsAre DEF TypesInv, AnyTypes
        <3>2. cur_userbuf_id' \in User
            BY <2>2, <3>1, ConsoleAssumption DEF User
        <3>3. "u_fill" \in Filling
            BY DEF Filling
        <3>4. QED
            BY <1>2, <2>1, <2>2, <3>1, <3>2, <3>3, TakeTypes DEF UserAlloc
    <2>3. CASE Goto(p, "u_read") /\ UNCHANGED <<txbuf_hooker, push_order_cnt, own, cur_userbuf_id, taken>>
        <3>1. "u_read" \in Places /\ "u_read" \notin Filling
            BY DEF Places, Filling
        <3>2. QED
            BY <1>2, <2>3, <3>1, Unmoved, GoTypes DEF UserAlloc, TypesInv, AnyTypes
    <2>4. QED
        BY <1>2, <2>2, <2>3 DEF UserAlloc
<1>3. CASE UserFill(p)
    <2>1. pc[p] \in Filling /\ "u_post" \in Places \ (Filling \cup {"install", "u_alloc"})
        BY <1>3 DEF UserFill, Filling, Places, Delicate
    <2>2. state' \in {0, 1} /\ cur_buf_id' = cur_buf_id /\ buf_len' \in BOOLEAN
        BY <1>3 DEF UserFill, TypesInv, AnyTypes
    <2>3. txbuf_hooker \in [Bufs -> Hooker] /\ own[p] \in Bufs
        BY <2>1 DEF TypesInv, AnyTypes, HasBuffer
    <2>4. Same(txbuf_hooker, txbuf_hooker', own[p], "ready")
        BY <1>3, <2>3 DEF UserFill, Same, Hooker
    <2>5. QED
        BY <1>3, <2>1, <2>2, <2>4, MarkTypes DEF UserFill
<1>4. CASE UserPost(p)
    <2>1. CASE cs_txbuf_install(txbuf_hooker, TRUE)
        <3>1. txbuf_hooker \in [Bufs -> Hooker]
            BY DEF TypesInv, AnyTypes
        <3>2. QED
            BY <1>4, <2>1, <3>1, InstallTypes DEF UserPost
    <2>2. CASE UNCHANGED <<txbuf_hooker, uart, pop_order_cnt>>
        <3>1. "idle" \in Places /\ "idle" \notin Filling
            BY DEF Places, Filling
        <3>2. QED
            BY <1>4, <2>2, <3>1, Unmoved, GoTypes DEF UserPost, TypesInv, AnyTypes
    <2>3. QED
        BY <1>4, <2>1, <2>2 DEF UserPost
<1>5. QED
    BY <1>1, <1>2, <1>3, <1>4 DEF Dumps

\* Every step keeps the types, ticks included.
LEMMA NextKeepsTypesInv == TypesInv /\ [Next]_vars => TypesInv'
<1> SUFFICES ASSUME TypesInv, [Next]_vars PROVE TypesInv'
    OBVIOUS
<1>1. CASE UNCHANGED tvars
    BY <1>1 DEF TypesInv, AnyTypes, HasBuffer, NoTicketAhead, State, Ticket,
                tvars, tickets, uart, history
<1>2. CASE \E p \in Printers : Prints(p)
    BY <1>2, PrintsTypes DEF Tasks
<1>3. CASE \E p \in Dumpers : Dumps(p)
    BY <1>3, DumpsTypes DEF Tasks
<1>4. CASE UartTxDone
    <2> DEFINE h == [txbuf_hooker EXCEPT ![cur_buf_id] = Idle]
    <2>1. Idle \in Hooker
        BY DEF Idle, Hooker
    <2>2. h \in [Bufs -> Hooker] /\ \A b \in Bufs : h[b] \in {txbuf_hooker[b], Idle}
        BY <2>1 DEF TypesInv, AnyTypes
    <2>3. /\ cs_txbuf_install(h, FALSE)
          /\ UNCHANGED <<push_order_cnt, cur_userbuf_id, outptr, pc, own, printed, taken>>
        BY <1>4 DEF UartTxDone
    <2> HIDE DEF h
    <2>4. QED
        BY <2>2, <2>3, InstallTypes
<1>5. ASSUME NEW p \in Tasks, NEW place \in {"alloc", "u_read"}, Goto(p, place),
             printed' = [printed EXCEPT ![p] = @ + 1],
             UNCHANGED <<txbuf_hooker, tickets, uart, outptr, own, history>>
      PROVE  TypesInv'
    <2>1. place \in Places /\ place \notin Filling \cup {"install", "u_alloc"}
        BY DEF Places, Filling
    <2>2. printed' \in [Tasks -> Nat]
        BY <1>5 DEF TypesInv, AnyTypes
    <2>3. QED
        BY <1>5, <2>1, <2>2, Unmoved, GoTypes DEF uart, TypesInv, AnyTypes
<1>6. CASE \E p \in Tasks \ {Cli} : Begin(p)
    BY <1>5, <1>6 DEF Begin
<1>7. CASE Reads
    <2>1. CASE Fits(Head(msg_queue))
        BY <1>5, <1>7, <2>1, CliAssumption DEF Reads, Tasks
    <2>2. CASE ~ Fits(Head(msg_queue))
        BY <1>1, <1>7, <2>2 DEF Reads, tvars
    <2>3. QED
        BY <2>1, <2>2
<1>8. CASE Types
    BY <1>1, <1>8 DEF Types
<1>9. QED
    BY <1>1, <1>2, <1>3, <1>4, <1>6, <1>7, <1>8 DEF Next, TxStep, vars

\* Whatever the scheduler does: every counter, buffer and place has its type, no
\* more tickets are taken off than were given out, and the ring and its window
\* keep their shape (console.c).
THEOREM ConsoleTypes == Spec => []TypeOK
<1>1. Init => TypesInv
    BY InitTypesInv DEF Init
<1>2. Spec => []TypesInv
    BY <1>1, NextKeepsTypesInv, PTL DEF Spec
<1>3. TypesInv /\ RxInv => TypeOK
    BY DEF TypesInv, AnyTypes, RxInv, TypeOK, Bufs
<1>4. QED
    BY <1>2, <1>3, RxInvHolds, PTL

=============================================================================
