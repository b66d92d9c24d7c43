------------------------------ MODULE Tracker ------------------------------
(***************************************************************************)
(* The object tracker (track/public/ekf_track.c): each frame it pairs the  *)
(* trackers with the candidates the baseband found, promotes, starts and   *)
(* drops trackers, and filters those that are left.  The filter itself is  *)
(* left out: what it predicts shows as the costs of the next frame.        *)
(***************************************************************************)
EXTENDS Integers

CONSTANTS NumTrk, NumCdi,       \* TRACK_NUM_TRK, TRACK_NUM_CDI
          Far,                  \* TRACK_CST_MAX, the cost of a candidate out of reach
          ThresPre, ThresVal,   \* track_type_thres_pre and _val, in frames
          Leave                 \* may an object leave the field of view?

\* hit_time and miss_time are of int8_t
ASSUME TrackerAssumption ==
    /\ {NumTrk, NumCdi, Far} \subseteq Nat \ {0}
    /\ {ThresPre, ThresVal} \subseteq 1 .. 127
    /\ Leave \in BOOLEAN

Trackers == 0 .. NumTrk - 1
Candidates == 0 .. NumCdi - 1
Nul == -1                       \* TRACK_IDX_NUL

VARIABLES
    trk,            \* type, hit_time, miss_time; idx_1, idx_2, cst_1, cst_2 of each tracker
    index,          \* the tracker of each candidate
    cdi_number,     \* how many candidates this frame has
    pc, i,          \* place in func_track_run, the tracker to pair
    row,            \* history: the costs the pairing has seen, of each tracker
    streak          \* history: frames in a row with a candidate, up to ThresPre + 1

vars == <<trk, index, cdi_number, pc, i, row, streak>>

InUse(t) == trk[t].type # "nul"

-----------------------------------------------------------------------------
(* ekf_run_pair                                                            *)

Unpaired == [idx_1 |-> Nul, idx_2 |-> Nul, cst_1 |-> Far, cst_2 |-> Far]

BeginFrame ==
    /\ pc = "rest"
    /\ cdi_number' \in 0 .. NumCdi
    /\ index' = [j \in Candidates |-> Nul]
    /\ trk' = [t \in Trackers |-> [trk[t] EXCEPT !.idx_1 = Nul, !.idx_2 = Nul,
                                                 !.cst_1 = Far, !.cst_2 = Far]]
    /\ i' = 0 /\ pc' = "pair"
    /\ UNCHANGED <<row, streak>>

\* the loop over the candidates finds a, the first of the nearest in S
IsNearest(a, costs, S) ==
    \/ S = {} /\ a = Nul
    \/ a \in S /\ \A j \in S : costs[a] < costs[j] \/ (costs[a] = costs[j] /\ a <= j)

\* the costs of the candidates of this frame, Far where a threshold is passed
Costs == {costs \in [Candidates -> 0 .. Far] : \A j \in Candidates : j >= cdi_number => costs[j] = Far}

Reach(costs) == {j \in Candidates : costs[j] < Far}

Cost(costs, a) == IF a = Nul THEN Far ELSE costs[a]

\* the trackers after tracker i has found a and b, nearest and next nearest
Found(a, b, costs) ==
    [trk EXCEPT ![i].idx_1 = a, ![i].idx_2 = b,
                ![i].cst_1 = Cost(costs, a), ![i].cst_2 = Cost(costs, b)]

\* mutant: the cost of the first choice is kept with the second
FallBack_CostKept(t, trks, ix) ==
    LET d == trks[t].idx_2
    IN  IF d # Nul /\ ix[d] = Nul
        THEN /\ trk' = [trks EXCEPT ![t].idx_1 = d, ![t].idx_2 = Nul]
             /\ index' = [ix EXCEPT ![d] = t]
        ELSE trk' = [trks EXCEPT ![t].idx_1 = Nul] /\ index' = ix

\* mutant: the second choice is taken whoever has it
FallBack_Grab(t, trks, ix) ==
    LET d == trks[t].idx_2
    IN  IF d # Nul
        THEN /\ trk' = [trks EXCEPT ![t].idx_1 = d, ![t].idx_2 = Nul, ![t].cst_1 = trks[t].cst_2]
             /\ index' = [ix EXCEPT ![d] = t]
        ELSE trk' = [trks EXCEPT ![t].idx_1 = Nul] /\ index' = ix

\* tracker t has lost its first choice: it takes its second if that is free
FallBack(t, trks, ix) ==
    LET d == trks[t].idx_2
    IN  IF d # Nul /\ ix[d] = Nul
        THEN /\ trk' = [trks EXCEPT ![t].idx_1 = d, ![t].idx_2 = Nul, ![t].cst_1 = trks[t].cst_2]
             /\ index' = [ix EXCEPT ![d] = t]
        ELSE trk' = [trks EXCEPT ![t].idx_1 = Nul] /\ index' = ix

Pair ==
    /\ pc = "pair" /\ i < NumTrk
    /\ i' = i + 1
    /\ \/ ~InUse(i) /\ UNCHANGED <<trk, index, row>>
       \/ /\ InUse(i)
          /\ \E costs \in Costs :
             \E a, b \in Candidates \cup {Nul} :
               /\ IsNearest(a, costs, Reach(costs))
               /\ IsNearest(b, costs, Reach(costs) \ {a})
               /\ row' = [row EXCEPT ![i] = costs]
               /\ LET found == Found(a, b, costs)
                  IN  \/ a = Nul /\ trk' = found /\ UNCHANGED index
                      \/ /\ a # Nul /\ index[a] = Nul
                         /\ trk' = found
                         /\ index' = [index EXCEPT ![a] = i]
                      \/ /\ a # Nul /\ index[a] # Nul
                         /\ costs[a] < trk[index[a]].cst_1
                         /\ FallBack(index[a], found, [index EXCEPT ![a] = i])
                      \/ /\ a # Nul /\ index[a] # Nul
                         /\ costs[a] >= trk[index[a]].cst_1
                         /\ FallBack(i, found, index)
    /\ UNCHANGED <<cdi_number, pc, streak>>

-----------------------------------------------------------------------------
(* ekf_run_update, and ekf_run_filter, which reads what is left            *)

Hit(r) == r.idx_1 # Nul

\* mutant: a tracker on trial survives a frame without a candidate
OnTrial_Spared(r) ==
    IF Hit(r) /\ r.hit_time + 1 = ThresPre THEN [r EXCEPT !.type = "val", !.miss_time = 0]
    ELSE IF Hit(r) THEN [r EXCEPT !.hit_time = @ + 1]
    ELSE r

\* a tracker on trial: one more hit, promoted with the last one, or given up
OnTrial(r) ==
    IF Hit(r) /\ r.hit_time + 1 = ThresPre THEN [r EXCEPT !.type = "val", !.miss_time = 0]
    ELSE IF Hit(r) THEN [r EXCEPT !.hit_time = @ + 1]
    ELSE [r EXCEPT !.type = "nul"]

Promote ==
    /\ pc = "pair" /\ i = NumTrk
    /\ trk' = [t \in Trackers |-> IF trk[t].type = "pre" THEN OnTrial(trk[t]) ELSE trk[t]]
    /\ streak' = [t \in Trackers |->
          IF trk[t].idx_1 = Nul THEN 0
          ELSE IF streak[t] <= ThresPre THEN streak[t] + 1 ELSE streak[t]]
    /\ row' = [t \in Trackers |-> [j \in Candidates |-> Far]]
    /\ pc' = "start"
    /\ UNCHANGED <<index, cdi_number, i>>

Free == {t \in Trackers : ~InUse(t)}
Strays == {j \in 0 .. cdi_number - 1 : index[j] = Nul}

\* the first candidate that nobody follows gets the first tracker that is free
Start ==
    /\ pc = "start"
    /\ \E j \in Strays, t \in Free :
         /\ \A k \in Strays : j <= k
         /\ \A u \in Free : t <= u
         /\ trk' = [trk EXCEPT ![t].type = "pre", ![t].hit_time = 0, ![t].idx_1 = j]
         /\ index' = [index EXCEPT ![j] = t]
         /\ streak' = [streak EXCEPT ![t] = 1]
    /\ UNCHANGED <<cdi_number, pc, i, row>>

\* mutant: the hits of a valid tracker are not limited
Settled_NoLimit(r, gone) ==
    IF Hit(r) THEN [r EXCEPT !.miss_time = 0, !.hit_time = @ + 1]
    ELSE [r EXCEPT !.miss_time = @ + 1,
                   !.type = IF gone \/ r.miss_time + 1 >= r.hit_time THEN "nul" ELSE "val"]

\* mutant: off by one, a tracker is dropped one miss too late
Settled_OneMore(r, gone) ==
    IF Hit(r) THEN [r EXCEPT !.miss_time = 0, !.hit_time = IF @ < ThresVal THEN @ + 1 ELSE @]
    ELSE [r EXCEPT !.miss_time = @ + 1,
                   !.type = IF gone \/ r.miss_time + 1 > r.hit_time THEN "nul" ELSE "val"]

\* a valid tracker: one more hit, or a miss that may be its last
Settled(r, gone) ==
    IF Hit(r) THEN [r EXCEPT !.miss_time = 0, !.hit_time = IF @ < ThresVal THEN @ + 1 ELSE @]
    ELSE [r EXCEPT !.miss_time = @ + 1,
                   !.type = IF gone \/ r.miss_time + 1 >= r.hit_time THEN "nul" ELSE "val"]

Settle ==
    /\ pc = "start"
    /\ Strays = {} \/ Free = {}
    /\ \E gone \in SUBSET {t \in Trackers : Leave} :
         trk' = [t \in Trackers |->
                    IF trk[t].type = "val" THEN Settled(trk[t], t \in gone) ELSE trk[t]]
    /\ pc' = "rest"
    /\ UNCHANGED <<index, cdi_number, i, row, streak>>

\* a new scan: track_pre_start, func_track_init
PreStart ==
    /\ pc = "rest"
    /\ trk' = [t \in Trackers |-> [trk[t] EXCEPT !.type = "nul"]]
    /\ UNCHANGED <<index, cdi_number, pc, i, row, streak>>

-----------------------------------------------------------------------------

Init ==
    /\ trk = [t \in Trackers |-> [type |-> "nul", hit_time |-> 0, miss_time |-> 0,
                                  idx_1 |-> Nul, idx_2 |-> Nul, cst_1 |-> Far, cst_2 |-> Far]]
    /\ index = [j \in Candidates |-> Nul]
    /\ cdi_number = 0
    /\ pc = "rest" /\ i = NumTrk
    /\ row = [t \in Trackers |-> [j \in Candidates |-> Far]]
    /\ streak = [t \in Trackers |-> 0]

Next == BeginFrame \/ Pair \/ Promote \/ Start \/ Settle \/ PreStart

Spec == Init /\ [][Next]_vars

-----------------------------------------------------------------------------

MostHits == IF ThresPre > ThresVal THEN ThresPre ELSE ThresVal

Record == [type : {"nul", "pre", "val"}, hit_time : 0 .. MostHits, miss_time : 0 .. MostHits,
           idx_1 : Candidates \cup {Nul}, idx_2 : Candidates \cup {Nul},
           cst_1 : 0 .. Far, cst_2 : 0 .. Far]

TypeOK ==
    /\ trk \in [Trackers -> Record]
    /\ index \in [Candidates -> Trackers \cup {Nul}]
    /\ cdi_number \in 0 .. NumCdi
    /\ pc \in {"rest", "pair", "start"} /\ i \in 0 .. NumTrk
    /\ row \in [Trackers -> [Candidates -> 0 .. Far]]
    /\ streak \in [Trackers -> 0 .. ThresPre + 1]

\* The two sides of the pairing agree, however often a candidate changes hands:
\* a tracker follows the candidate that names it, so no two follow the same.
PairsAgree == \A t \in Trackers, j \in Candidates : trk[t].idx_1 = j <=> index[j] = t

\* The candidate nearest to a tracker is followed, by that tracker or by one
\* that is no farther from it: it is not taken for a new object, and a tracker
\* that has lost it to a nearer one does not get it back by way of a third.
NearestKept ==
    \A t \in Trackers, c \in Candidates :
        row[t][c] < Far /\ IsNearest(c, row[t], Reach(row[t])) =>
            index[c] # Nul /\ row[index[c]][c] <= row[t][c]

\* What the filter reads is there: a tracker on trial has a candidate, one of
\* this frame, and a valid one has one unless it has just been missed.
FilterHasInput ==
    pc = "rest" => \A t \in Trackers :
        /\ trk[t].type = "pre" => Hit(trk[t])
        /\ trk[t].type = "val" => (Hit(trk[t]) <=> trk[t].miss_time = 0)
        /\ InUse(t) /\ Hit(trk[t]) => trk[t].idx_1 < cdi_number

\* A valid tracker is missed for fewer frames than it was hit, and never for
\* longer than the configuration says (track_drop_delay).
LivesOnItsHits ==
    pc = "rest" => \A t \in Trackers : trk[t].type = "val" =>
        /\ trk[t].miss_time < trk[t].hit_time
        /\ trk[t].hit_time <= ThresVal \/ trk[t].hit_time < ThresPre

\* A tracker becomes valid only after it had a candidate in as many frames
\* running as the configuration says (track_capture_delay), its first not counted.
OnlyProven ==
    [][\A t \in Trackers : trk'[t].type = "val" /\ trk[t].type # "val" => streak'[t] = ThresPre + 1]_vars

=============================================================================
