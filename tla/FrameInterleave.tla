-------------------------- MODULE FrameInterleave --------------------------
(***************************************************************************)
(* Frame interleaving (baseband.c): which frame type the next frame has.   *)
(* Each chip keeps an enable flag, a counter and the bank it selected; the *)
(* strategy is a record as struct frame_intrlv.                            *)
(***************************************************************************)
EXTENDS Integers

MAX_FRAME_TYPE == 4         \* banks of the baseband
FrameTypes == 0 .. MAX_FRAME_TYPE - 1

\* frame_intrlv_t; a rotation has no more frame types than there are banks, which
\* main asserts, and FI_VELAMB has three
Strategy ==
    {s \in [strategy : STRING, sw_num : Nat \ {0}, sel_0 : FrameTypes, sel_1 : FrameTypes] :
        s.strategy \in {"ROTATE", "VELAMB"} => s.sw_num <= MAX_FRAME_TYPE}

Interleaving == [type : FrameTypes, cnt : Nat, en : BOOLEAN]

\* fi_en and fi_cnt as they are initialised; the bank after reset
InterleavingAtStart == [type |-> 0, cnt |-> 0, en |-> TRUE]

baesband_frame_interleave_cnt_clr(f) == [f EXCEPT !.en = TRUE, !.cnt = 0]

\* the bank that the strategy s selects; the others leave the bank as it is
Selected(s, f) ==
    CASE s.strategy = "FIXED" /\ f.en /\ f.cnt = 0 -> s.sel_0
      [] s.strategy = "ROTATE" -> f.cnt % s.sw_num
      [] s.strategy = "AIR_CONDITIONER" /\ f.en /\ f.cnt = 0 -> s.sel_0
      [] s.strategy = "AIR_CONDITIONER" /\ f.en /\ f.cnt # 0 /\ f.cnt = s.sw_num - 1 -> s.sel_1
      [] s.strategy = "VELAMB" -> IF f.cnt % s.sw_num = 2 THEN s.sel_1 ELSE f.cnt % s.sw_num
      [] OTHER -> f.type

\* FIXED and AIR_CONDITIONER stop counting after their last selection
Settles(s, f) ==
    \/ s.strategy = "FIXED" /\ f.cnt = 0
    \/ s.strategy = "AIR_CONDITIONER" /\ f.cnt # 0 /\ f.cnt = s.sw_num - 1

baseband_frame_interleave_recfg(s, f) ==
    LET en == f.en /\ ~ Settles(s, f)
    IN  [type |-> Selected(s, f),
         en |-> en,
         cnt |-> IF ~ en THEN f.cnt ELSE IF f.cnt < s.sw_num - 1 THEN f.cnt + 1 ELSE 0]

=============================================================================
