---------------------------- MODULE TrackerProof ----------------------------
(***************************************************************************)
(* What the tracker promises holds for any number of trackers, candidates  *)
(* and costs, and any two thresholds: proofs about Tracker.                *)
(***************************************************************************)
EXTENDS Tracker, TLAPS

-----------------------------------------------------------------------------
(* The inductive invariant: what the pairing knows while it runs, and what *)
(* hits, misses and history say of a tracker between its steps.            *)

\* A tracker's two choices are candidates of this frame.
InReach == \A t \in Trackers, j \in Candidates :
    trk[t].idx_1 = j \/ trk[t].idx_2 = j => j < cdi_number

\* A tracker that was not looked at yet follows none, and has seen no costs.
NotYet == \A t \in Trackers : pc # "pair" \/ t >= i =>
    /\ pc = "pair" => trk[t].idx_1 = Nul
    /\ \A j \in Candidates : row[t][j] = Far

\* The costs kept with a tracker's choices are theirs.
Priced == pc = "pair" => \A t \in Trackers, j \in Candidates :
    /\ trk[t].idx_1 = j => trk[t].cst_1 = row[t][j]
    /\ trk[t].idx_2 = j => trk[t].cst_2 = row[t][j]

\* A tracker on trial was hit in every frame since it started, a valid one is
\* missed for fewer frames than it was hit, or was promoted in this frame.
Life(t) ==
    /\ trk[t].type = "pre" =>
         /\ trk[t].hit_time < ThresPre
         /\ streak[t] = trk[t].hit_time + 1
         /\ pc = "start" => Hit(trk[t])
    /\ trk[t].type = "val" =>
         /\ trk[t].hit_time <= ThresVal \/ trk[t].hit_time < ThresPre
         /\ \/ trk[t].miss_time < trk[t].hit_time
            \/ pc = "start" /\ trk[t].miss_time = 0 /\ Hit(trk[t])

Lives == \A t \in Trackers : Life(t)

\* A tracker that is not in use follows none while trackers are handled.
FreeIdle == pc # "rest" => \A t \in Trackers : ~InUse(t) => trk[t].idx_1 = Nul

IInv == /\ TypeOK /\ PairsAgree /\ InReach /\ NotYet /\ Priced /\ NearestKept
        /\ FreeIdle /\ Lives /\ FilterHasInput

-----------------------------------------------------------------------------
(* The pairing, over trackers trks, candidates' owners ix and costs rw.    *)

Agree(trks, ix, lost) == \A t \in Trackers, j \in Candidates :
    t # lost => (trks[t].idx_1 = j <=> ix[j] = t)

Choices(trks, rw) == \A t \in Trackers, j \in Candidates :
    /\ trks[t].idx_1 = j => j < cdi_number /\ trks[t].cst_1 = rw[t][j]
    /\ trks[t].idx_2 = j => j < cdi_number /\ trks[t].cst_2 = rw[t][j]

Kept(ix, rw) == \A t \in Trackers, c \in Candidates :
    rw[t][c] < Far /\ IsNearest(c, rw[t], Reach(rw[t])) =>
        ix[c] # Nul /\ rw[ix[c]][c] <= rw[t][c]

\* A tracker keeps all but what the pairing writes.
Same(r, q) == r.type = q.type /\ r.hit_time = q.hit_time /\ r.miss_time = q.miss_time

\* The two outcomes of falling back.
LEMMA FallBackOutcome ==
    ASSUME NEW t \in Trackers, NEW trks \in [Trackers -> Record],
           NEW ix \in [Candidates -> Trackers \cup {Nul}],
           FallBack(t, trks, ix)
    PROVE  \/ \E d \in Candidates :
                /\ trks[t].idx_2 = d /\ ix[d] = Nul
                /\ trk' = [trks EXCEPT ![t].idx_1 = d, ![t].idx_2 = Nul, ![t].cst_1 = trks[t].cst_2]
                /\ index' = [ix EXCEPT ![d] = t]
           \/ trk' = [trks EXCEPT ![t].idx_1 = Nul] /\ index' = ix
<1>1. trks[t].idx_2 \in Candidates \cup {Nul}
  BY DEF Record
<1> QED
  BY <1>1 DEF FallBack

\* Whoever has lost its candidate and falls back leaves the pairing in order.
LEMMA FallBackRestores ==
    ASSUME NEW lost \in Trackers, NEW trks \in [Trackers -> Record],
           NEW ix \in [Candidates -> Trackers \cup {Nul}],
           NEW rw \in [Trackers -> [Candidates -> 0 .. Far]],
           Agree(trks, ix, lost), \A j \in Candidates : ix[j] # lost,
           Choices(trks, rw), Kept(ix, rw),
           FallBack(lost, trks, ix)
    PROVE  /\ trk' \in [Trackers -> Record]
           /\ index' \in [Candidates -> Trackers \cup {Nul}]
           /\ Agree(trk', index', Nul)
           /\ Choices(trk', rw)
           /\ Kept(index', rw)
           /\ \A t \in Trackers : Same(trk'[t], trks[t])
           /\ \A t \in Trackers : t # lost => trk'[t] = trks[t]
<1>0. Nul \notin Trackers /\ Nul \notin Candidates
  BY TrackerAssumption DEF Nul, Trackers, Candidates
<1>1. CASE \E d \in Candidates :
             /\ trks[lost].idx_2 = d /\ ix[d] = Nul
             /\ trk' = [trks EXCEPT ![lost].idx_1 = d, ![lost].idx_2 = Nul,
                                    ![lost].cst_1 = trks[lost].cst_2]
             /\ index' = [ix EXCEPT ![d] = lost]
  <2> PICK d \in Candidates :
             /\ trks[lost].idx_2 = d /\ ix[d] = Nul
             /\ trk' = [trks EXCEPT ![lost].idx_1 = d, ![lost].idx_2 = Nul,
                                    ![lost].cst_1 = trks[lost].cst_2]
             /\ index' = [ix EXCEPT ![d] = lost]
    BY <1>1
  <2>1. trk' \in [Trackers -> Record]
    <3> DEFINE r == [trks[lost] EXCEPT !.idx_1 = d, !.idx_2 = Nul, !.cst_1 = trks[lost].cst_2]
    <3>0. trks[lost] \in Record /\ trks[lost].cst_2 \in 0 .. Far
      BY DEF Record
    <3>1. r \in Record
      BY <3>0 DEF Record
    <3>2. trk' = [trks EXCEPT ![lost] = r]
      OBVIOUS
    <3> HIDE DEF r
    <3> QED
      BY <3>1, <3>2
  <2>2. index' \in [Candidates -> Trackers \cup {Nul}]
    OBVIOUS
  <2>3. /\ trk'[lost].idx_1 = d /\ trk'[lost].idx_2 = Nul /\ trk'[lost].cst_1 = trks[lost].cst_2
        /\ Same(trk'[lost], trks[lost])
    BY DEF Same, Record
  <2>4. \A t \in Trackers : t # lost => trk'[t] = trks[t]
    OBVIOUS
  <2>5. Agree(trk', index', Nul)
    BY <1>0, <2>3, <2>4 DEF Agree
  <2>6. Choices(trk', rw)
    BY <1>0, <2>3, <2>4 DEF Choices
  <2>7. Kept(index', rw)
    BY DEF Kept
  <2>8. \A t \in Trackers : Same(trk'[t], trks[t])
    BY <2>3, <2>4 DEF Same
  <2> QED
    BY <2>1, <2>2, <2>4, <2>5, <2>6, <2>7, <2>8
<1>2. CASE trk' = [trks EXCEPT ![lost].idx_1 = Nul] /\ index' = ix
  <2>1. trk' \in [Trackers -> Record]
    <3> DEFINE r == [trks[lost] EXCEPT !.idx_1 = Nul]
    <3>1. r \in Record
      <4>1. trks[lost] \in Record
        OBVIOUS
      <4> QED
        BY <4>1 DEF Record
    <3>2. trk' = [trks EXCEPT ![lost] = r]
      BY <1>2
    <3> HIDE DEF r
    <3> QED
      BY <3>1, <3>2
  <2>3. /\ trk'[lost].idx_1 = Nul /\ trk'[lost].idx_2 = trks[lost].idx_2
        /\ trk'[lost].cst_2 = trks[lost].cst_2
        /\ Same(trk'[lost], trks[lost])
    BY <1>2 DEF Same, Record
  <2>4. \A t \in Trackers : t # lost => trk'[t] = trks[t]
    BY <1>2
  <2>5. Agree(trk', index', Nul)
    BY <1>0, <1>2, <2>3, <2>4 DEF Agree
  <2>6. Choices(trk', rw)
    BY <1>0, <2>3, <2>4 DEF Choices
  <2>7. Kept(index', rw)
    BY <1>2 DEF Kept
  <2>8. \A t \in Trackers : Same(trk'[t], trks[t])
    BY <2>3, <2>4 DEF Same
  <2> QED
    BY <1>2, <2>1, <2>4, <2>5, <2>6, <2>7, <2>8
<1>3. \/ \E d \in Candidates :
           /\ trks[lost].idx_2 = d /\ ix[d] = Nul
           /\ trk' = [trks EXCEPT ![lost].idx_1 = d, ![lost].idx_2 = Nul,
                                  ![lost].cst_1 = trks[lost].cst_2]
           /\ index' = [ix EXCEPT ![d] = lost]
      \/ trk' = [trks EXCEPT ![lost].idx_1 = Nul] /\ index' = ix
  BY FallBackOutcome
<1> QED
  BY <1>1, <1>2, <1>3

\* There is only one nearest candidate.
LEMMA NearestIsOne ==
    ASSUME NEW costs \in [Candidates -> 0 .. Far], NEW a \in Candidates, NEW b \in Candidates,
           NEW S \in SUBSET Candidates, IsNearest(a, costs, S), IsNearest(b, costs, S)
    PROVE  a = b
BY DEF IsNearest, Candidates, Nul

\* What Found is, of the tracker that is paired and of the others.
LEMMA FoundRecords ==
    ASSUME TypeOK, i \in Trackers, NEW costs \in Costs,
           NEW a \in Candidates \cup {Nul}, NEW b \in Candidates \cup {Nul}
    PROVE  /\ Found(a, b, costs) \in [Trackers -> Record]
           /\ Found(a, b, costs)[i].idx_1 = a /\ Found(a, b, costs)[i].idx_2 = b
           /\ Found(a, b, costs)[i].cst_1 = Cost(costs, a)
           /\ Found(a, b, costs)[i].cst_2 = Cost(costs, b)
           /\ \A t \in Trackers : Same(Found(a, b, costs)[t], trk[t])
           /\ \A t \in Trackers : t # i => Found(a, b, costs)[t] = trk[t]
<1> DEFINE r == [trk[i] EXCEPT !.idx_1 = a, !.idx_2 = b,
                               !.cst_1 = Cost(costs, a), !.cst_2 = Cost(costs, b)]
<1>1. trk \in [Trackers -> Record] /\ trk[i] \in Record
  BY DEF TypeOK
<1>2. Cost(costs, a) \in 0 .. Far /\ Cost(costs, b) \in 0 .. Far
  BY TrackerAssumption DEF Cost, Costs
<1>3. r \in Record
  BY <1>1, <1>2 DEF Record
<1>4. /\ r.idx_1 = a /\ r.idx_2 = b /\ r.cst_1 = Cost(costs, a) /\ r.cst_2 = Cost(costs, b)
      /\ Same(r, trk[i])
  BY <1>1 DEF Record, Same
<1>5. Found(a, b, costs) = [trk EXCEPT ![i] = r]
  BY <1>1 DEF Found
<1> HIDE DEF r
<1> QED
  BY <1>1, <1>3, <1>4, <1>5 DEF Same

\* One tracker is paired.
LEMMA PairKeeps ==
    ASSUME IInv, Pair
    PROVE  IInv' /\ \A t \in Trackers : trk'[t].type = trk[t].type
<1>0. Nul \notin Trackers /\ Nul \notin Candidates /\ Trackers \subseteq Int /\ Candidates \subseteq Int
  BY TrackerAssumption DEF Nul, Trackers, Candidates
<1>1. i \in Trackers /\ i \in Int /\ i' = i + 1 /\ i' \in 0 .. NumTrk /\ pc = "pair" /\ pc' = "pair"
  BY TrackerAssumption DEF IInv, Pair, TypeOK, Trackers
<1>2. UNCHANGED <<cdi_number, streak>>
  BY DEF Pair
<1>3. FilterHasInput'
  BY <1>1 DEF FilterHasInput
<1>x. TypeOK /\ PairsAgree /\ InReach /\ NotYet /\ Priced /\ NearestKept /\ FreeIdle /\ Lives
  BY DEF IInv
<1>t. /\ trk \in [Trackers -> Record] /\ index \in [Candidates -> Trackers \cup {Nul}]
      /\ row \in [Trackers -> [Candidates -> 0 .. Far]]
  BY <1>x DEF TypeOK
<1>y. /\ \A t \in Trackers : t >= i => trk[t].idx_1 = Nul
      /\ \A t \in Trackers : t >= i => \A j \in Candidates : row[t][j] = Far
  BY <1>x, <1>1 DEF NotYet
<1>4. CASE ~InUse(i) /\ UNCHANGED <<trk, index, row>>
  <2>1. TypeOK'
    BY <1>x, <1>1, <1>2, <1>4 DEF TypeOK
  <2>2. PairsAgree' /\ InReach' /\ Priced' /\ NearestKept'
    BY <1>x, <1>1, <1>2, <1>4 DEF PairsAgree, InReach, Priced, NearestKept
  <2>3. NotYet'
    <3> SUFFICES ASSUME NEW t \in Trackers, t >= i + 1
                 PROVE  trk[t].idx_1 = Nul /\ \A j \in Candidates : row[t][j] = Far
      BY <1>1, <1>4 DEF NotYet
    <3>1. t >= i
      BY <1>0, <1>1
    <3> QED
      BY <1>y, <3>1
  <2>4. Lives'
    BY <1>x, <1>1, <1>2, <1>4 DEF Lives, Life
  <2>5. FreeIdle'
    BY <1>x, <1>1, <1>4 DEF FreeIdle, InUse
  <2> QED
    BY <1>3, <1>4, <2>1, <2>2, <2>3, <2>4, <2>5 DEF IInv
<1>5. CASE InUse(i)
  <2>1. PICK costs \in Costs, a \in Candidates \cup {Nul}, b \in Candidates \cup {Nul} :
          /\ IsNearest(a, costs, Reach(costs))
          /\ IsNearest(b, costs, Reach(costs) \ {a})
          /\ row' = [row EXCEPT ![i] = costs]
          /\ LET found == Found(a, b, costs)
             IN  \/ a = Nul /\ trk' = found /\ UNCHANGED index
                 \/ /\ a # Nul /\ index[a] = Nul
                    /\ trk' = found
                    /\ index' = [index EXCEPT ![a] = i]
                 \/ /\ a # Nul /\ index[a] # Nul
                    /\ costs[a] < trk[index[a]].cst_1
                    /\ FallBack(index[a], found, [index EXCEPT ![a] = i])
                 \/ /\ a # Nul /\ index[a] # Nul
                    /\ costs[a] >= trk[index[a]].cst_1
                    /\ FallBack(i, found, index)
    BY <1>5 DEF Pair
  <2> DEFINE found == Found(a, b, costs)
             rw == [row EXCEPT ![i] = costs]
  <2>2. /\ found \in [Trackers -> Record]
        /\ found[i].idx_1 = a /\ found[i].idx_2 = b
        /\ found[i].cst_1 = Cost(costs, a) /\ found[i].cst_2 = Cost(costs, b)
        /\ \A t \in Trackers : Same(found[t], trk[t])
        /\ \A t \in Trackers : t # i => found[t] = trk[t]
    BY <1>x, <1>1, FoundRecords
  <2>3. costs \in [Candidates -> 0 .. Far] /\ \A j \in Candidates : j >= cdi_number => costs[j] = Far
    BY DEF Costs
  <2>4. /\ rw \in [Trackers -> [Candidates -> 0 .. Far]]
        /\ rw[i] = costs /\ \A t \in Trackers : t # i => rw[t] = row[t]
    BY <1>1, <1>t, <2>3
  <2>5. Reach(costs) \in SUBSET Candidates
    BY DEF Reach
  <2>6. /\ \A t \in Trackers, j \in Candidates : trk[t].idx_1 = j <=> index[j] = t
        /\ \A j \in Candidates : index[j] # i
    <3>1. \A t \in Trackers, j \in Candidates : trk[t].idx_1 = j <=> index[j] = t
      BY <1>x DEF PairsAgree
    <3>2. trk[i].idx_1 = Nul
      BY <1>1, <1>y
    <3> QED
      BY <1>0, <1>1, <3>1, <3>2
  <2>7. Choices(found, rw)
    <3>1. ASSUME NEW t \in Trackers, NEW j \in Candidates, t # i
          PROVE  /\ found[t].idx_1 = j => j < cdi_number /\ found[t].cst_1 = rw[t][j]
                 /\ found[t].idx_2 = j => j < cdi_number /\ found[t].cst_2 = rw[t][j]
      BY <1>x, <1>1, <2>2, <2>4, <3>1 DEF InReach, Priced
    <3>2. a \in Candidates => a < cdi_number /\ Cost(costs, a) = costs[a]
      BY <1>0, <1>x, <2>1, <2>3, TrackerAssumption DEF IsNearest, Reach, Cost, Candidates, TypeOK
    <3>3. b \in Candidates => b < cdi_number /\ Cost(costs, b) = costs[b]
      BY <1>0, <1>x, <2>1, <2>3, TrackerAssumption DEF IsNearest, Reach, Cost, Candidates, TypeOK
    <3> HIDE DEF found, rw
    <3> QED
      BY <2>2, <2>4, <3>1, <3>2, <3>3, <1>0 DEF Choices
  <2>8. \A t \in Trackers, c \in Candidates :
          row[t][c] < Far /\ IsNearest(c, row[t], Reach(row[t])) =>
            index[c] \in Trackers \ {i} /\ row[index[c]][c] <= row[t][c]
    <3> SUFFICES ASSUME NEW t \in Trackers, NEW c \in Candidates,
                        row[t][c] < Far, IsNearest(c, row[t], Reach(row[t]))
                 PROVE  index[c] \in Trackers \ {i} /\ row[index[c]][c] <= row[t][c]
      OBVIOUS
    <3>1. index[c] # Nul /\ row[index[c]][c] <= row[t][c]
      BY <1>x DEF NearestKept
    <3> QED
      BY <1>t, <2>6, <3>1
  <2>9. \A c \in Candidates : costs[c] < Far /\ IsNearest(c, costs, Reach(costs)) => c = a /\ a # Nul
    <3> SUFFICES ASSUME NEW c \in Candidates, costs[c] < Far, IsNearest(c, costs, Reach(costs))
                 PROVE  c = a /\ a # Nul
      OBVIOUS
    <3>1. c \in Reach(costs)
      BY DEF Reach
    <3>2. a \in Reach(costs)
      BY <2>1, <3>1 DEF IsNearest
    <3>3. a \in Candidates
      BY <3>2 DEF Reach
    <3>4. c = a
      BY <2>1, <2>3, <2>5, <3>3, NearestIsOne
    <3> QED
      BY <1>0, <3>3, <3>4
  <2> HIDE DEF found, rw
  <2>z. a # Nul => a \in Candidates
    OBVIOUS
  <2>10. /\ trk' \in [Trackers -> Record] /\ index' \in [Candidates -> Trackers \cup {Nul}]
         /\ Agree(trk', index', Nul) /\ Choices(trk', rw) /\ Kept(index', rw)
         /\ \A t \in Trackers : Same(trk'[t], trk[t])
         /\ \A t \in Trackers : t > i \/ ~InUse(t) => trk'[t].idx_1 = Nul
    <3>y. \A t \in Trackers : t > i \/ ~InUse(t) => t # i /\ found[t].idx_1 = Nul
      <4> SUFFICES ASSUME NEW t \in Trackers, t > i \/ ~InUse(t)
                   PROVE  t # i /\ found[t].idx_1 = Nul
        OBVIOUS
      <4>1. t # i /\ (t >= i \/ ~InUse(t))
        BY <1>0, <1>1, <1>5
      <4>2. trk[t].idx_1 = Nul
        BY <1>x, <1>1, <1>y, <4>1 DEF FreeIdle
      <4> QED
        BY <2>2, <4>1, <4>2
    <3>1. CASE a = Nul /\ trk' = found /\ index' = index
      <4>1. Agree(found, index, Nul)
        <5> SUFFICES ASSUME NEW t \in Trackers, NEW j \in Candidates
                     PROVE  found[t].idx_1 = j <=> index[j] = t
          BY DEF Agree
        <5> QED
          BY <1>0, <2>2, <2>6, <3>1
      <4>2. Kept(index, rw)
        <5> SUFFICES ASSUME NEW t \in Trackers, NEW c \in Candidates,
                            rw[t][c] < Far, IsNearest(c, rw[t], Reach(rw[t]))
                     PROVE  index[c] # Nul /\ rw[index[c]][c] <= rw[t][c]
          BY DEF Kept
        <5>1. t # i
          BY <2>4, <2>9, <3>1
        <5>2. index[c] \in Trackers \ {i} /\ row[index[c]][c] <= row[t][c]
          BY <2>4, <2>8, <5>1
        <5> QED
          BY <1>0, <2>4, <5>1, <5>2
      <4> QED
        BY <1>t, <2>2, <2>7, <3>y, <3>1, <4>1, <4>2
    <3>2. CASE a # Nul /\ index[a] = Nul /\ trk' = found /\ index' = [index EXCEPT ![a] = i]
      <4>0. a \in Candidates
        BY <2>z, <3>2
      <4>3. index' \in [Candidates -> Trackers \cup {Nul}] /\ index'[a] = i
            /\ \A j \in Candidates : j # a => index'[j] = index[j]
        BY <1>1, <1>t, <3>2, <4>0
      <4>1. Agree(found, index', Nul)
        <5> SUFFICES ASSUME NEW t \in Trackers, NEW j \in Candidates
                     PROVE  found[t].idx_1 = j <=> index'[j] = t
          BY DEF Agree
        <5>1. CASE t = i
          BY <2>2, <2>6, <4>3, <5>1
        <5>2. CASE t # i /\ j = a
          BY <1>0, <2>2, <2>6, <3>2, <4>3, <5>2
        <5>3. CASE t # i /\ j # a
          BY <2>2, <2>6, <4>3, <5>3
        <5> QED
          BY <5>1, <5>2, <5>3
      <4>2. Kept(index', rw)
        <5> SUFFICES ASSUME NEW t \in Trackers, NEW c \in Candidates,
                            rw[t][c] < Far, IsNearest(c, rw[t], Reach(rw[t]))
                     PROVE  index'[c] # Nul /\ rw[index'[c]][c] <= rw[t][c]
          BY DEF Kept
        <5>1. CASE t = i
          <6>1. c = a
            BY <2>4, <2>9, <5>1
          <6>2. costs[a] \in Int
            BY <2>3, <4>0
          <6> QED
            BY <1>0, <1>1, <2>4, <4>3, <5>1, <6>1, <6>2
        <5>2. CASE t # i
          <6>1. index[c] \in Trackers \ {i} /\ row[index[c]][c] <= row[t][c]
            BY <2>4, <2>8, <5>2
          <6>2. c # a
            BY <1>0, <3>2, <6>1
          <6> QED
            BY <1>0, <2>4, <4>3, <5>2, <6>1, <6>2
        <5> QED
          BY <5>1, <5>2
      <4> QED
        BY <2>2, <2>7, <3>y, <3>2, <4>1, <4>2, <4>3
    <3>3. CASE /\ a # Nul /\ index[a] # Nul /\ costs[a] < trk[index[a]].cst_1
               /\ FallBack(index[a], found, [index EXCEPT ![a] = i])
      <4> DEFINE h == index[a]
                 ix == [index EXCEPT ![a] = i]
      <4>0. a \in Candidates
        BY <2>z, <3>3
      <4>1. h \in Trackers \ {i} /\ trk[h].idx_1 = a
        BY <1>t, <2>6, <3>3, <4>0
      <4>2. ix \in [Candidates -> Trackers \cup {Nul}] /\ ix[a] = i
            /\ \A j \in Candidates : j # a => ix[j] = index[j]
        BY <1>1, <1>t, <4>0
      <4>3. trk[h].cst_1 = row[h][a] /\ costs[a] < row[h][a] /\ row[h][a] \in Int /\ costs[a] \in Int
        <5>1. trk[h].cst_1 = row[h][a]
          BY <1>x, <1>1, <4>0, <4>1 DEF Priced
        <5>2. row[h][a] \in Int /\ costs[a] \in Int
          BY <1>t, <2>3, <4>0, <4>1
        <5> QED
          BY <3>3, <5>1, <5>2
      <4>x. index[a] = h
        OBVIOUS
      <4>7. FallBack(h, found, ix)
        BY <3>3
      <4> HIDE DEF h, ix
      <4>4. Agree(found, ix, h)
        <5> SUFFICES ASSUME NEW t \in Trackers, NEW j \in Candidates, t # h
                     PROVE  found[t].idx_1 = j <=> ix[j] = t
          BY DEF Agree
        <5>1. CASE t = i
          BY <2>2, <2>6, <4>2, <5>1
        <5>2. CASE t # i /\ j = a
          BY <2>2, <2>6, <4>x, <4>2, <5>2
        <5>3. CASE t # i /\ j # a
          BY <2>2, <2>6, <4>2, <5>3
        <5> QED
          BY <5>1, <5>2, <5>3
      <4>5. \A j \in Candidates : ix[j] # h
        BY <2>6, <4>1, <4>2
      <4>6. Kept(ix, rw)
        <5> SUFFICES ASSUME NEW t \in Trackers, NEW c \in Candidates,
                            rw[t][c] < Far, IsNearest(c, rw[t], Reach(rw[t]))
                     PROVE  ix[c] # Nul /\ rw[ix[c]][c] <= rw[t][c]
          BY DEF Kept
        <5>1. CASE t = i
          <6>1. c = a
            BY <2>4, <2>9, <5>1
          <6> QED
            BY <1>0, <1>1, <2>4, <4>2, <4>3, <5>1, <6>1
        <5>2. CASE t # i /\ c = a
          <6>1. row[h][a] <= row[t][a]
            BY <2>4, <2>8, <4>x, <5>2
          <6>2. row[t][a] \in Int
            BY <1>t, <4>0
          <6> QED
            BY <1>0, <1>1, <2>4, <4>2, <4>3, <5>2, <6>1, <6>2
        <5>3. CASE t # i /\ c # a
          <6>1. index[c] \in Trackers \ {i} /\ row[index[c]][c] <= row[t][c]
            BY <2>4, <2>8, <5>3
          <6> QED
            BY <1>0, <2>4, <4>2, <5>3, <6>1
        <5> QED
          BY <5>1, <5>2, <5>3
      <4>8. /\ trk' \in [Trackers -> Record]
            /\ index' \in [Candidates -> Trackers \cup {Nul}]
            /\ Agree(trk', index', Nul) /\ Choices(trk', rw) /\ Kept(index', rw)
            /\ \A t \in Trackers : Same(trk'[t], found[t])
            /\ \A t \in Trackers : t # h => trk'[t] = found[t]
        BY <2>2, <2>4, <2>7, <4>1, <4>2, <4>4, <4>5, <4>6, <4>7, FallBackRestores
      <4>9. ~(h > i) /\ InUse(h)
        <5>1. trk[h].idx_1 # Nul
          BY <1>0, <4>0, <4>1
        <5>2. ~(h > i)
          BY <1>0, <1>y, <4>1, <1>1, <5>1
        <5> QED
          BY <1>x, <1>1, <4>1, <5>1, <5>2 DEF FreeIdle
      <4>10. \A t \in Trackers : t > i \/ ~InUse(t) => trk'[t].idx_1 = Nul
        BY <3>y, <4>8, <4>9
      <4> QED
        BY <2>2, <4>8, <4>10 DEF Same
    <3>4. CASE /\ a # Nul /\ index[a] # Nul /\ costs[a] >= trk[index[a]].cst_1
               /\ FallBack(i, found, index)
      <4>0. a \in Candidates
        BY <2>z, <3>4
      <4>1. index[a] \in Trackers \ {i} /\ trk[index[a]].idx_1 = a
        BY <1>t, <2>6, <3>4, <4>0
      <4>2. row[index[a]][a] <= costs[a]
        <5>1. trk[index[a]].cst_1 = row[index[a]][a]
          BY <1>x, <1>1, <4>0, <4>1 DEF Priced
        <5>2. row[index[a]][a] \in Int /\ costs[a] \in Int
          BY <1>t, <2>3, <4>0, <4>1
        <5> QED
          BY <3>4, <5>1, <5>2
      <4>3. Agree(found, index, i)
        BY <2>2, <2>6 DEF Agree
      <4>4. Kept(index, rw)
        <5> SUFFICES ASSUME NEW t \in Trackers, NEW c \in Candidates,
                            rw[t][c] < Far, IsNearest(c, rw[t], Reach(rw[t]))
                     PROVE  index[c] # Nul /\ rw[index[c]][c] <= rw[t][c]
          BY DEF Kept
        <5>1. CASE t = i
          <6>1. c = a
            BY <2>4, <2>9, <5>1
          <6> QED
            BY <2>4, <3>4, <4>1, <4>2, <5>1, <6>1
        <5>2. CASE t # i
          <6>1. index[c] \in Trackers \ {i} /\ row[index[c]][c] <= row[t][c]
            BY <2>4, <2>8, <5>2
          <6> QED
            BY <1>0, <2>4, <5>2, <6>1
        <5> QED
          BY <5>1, <5>2
      <4>5. /\ trk' \in [Trackers -> Record]
            /\ index' \in [Candidates -> Trackers \cup {Nul}]
            /\ Agree(trk', index', Nul) /\ Choices(trk', rw) /\ Kept(index', rw)
            /\ \A t \in Trackers : Same(trk'[t], found[t])
            /\ \A t \in Trackers : t # i => trk'[t] = found[t]
        BY <1>1, <1>t, <2>2, <2>4, <2>6, <2>7, <3>4, <4>3, <4>4, FallBackRestores
      <4> QED
        BY <2>2, <3>y, <4>5 DEF Same
    <3> QED
      BY <2>1, <3>1, <3>2, <3>3, <3>4 DEF found
  <2>11. row' = rw
    BY <2>1 DEF rw
  <2>12. TypeOK'
    BY <1>x, <1>1, <1>2, <2>4, <2>10, <2>11 DEF TypeOK
  <2>13. PairsAgree'
    BY <1>0, <2>10 DEF PairsAgree, Agree
  <2>14. InReach' /\ Priced'
    BY <1>2, <2>10, <2>11 DEF InReach, Priced, Choices
  <2>15. NearestKept'
    BY <2>10, <2>11 DEF NearestKept, Kept, Reach
  <2>16. NotYet'
    <3> SUFFICES ASSUME NEW t \in Trackers, t >= i + 1
                 PROVE  trk'[t].idx_1 = Nul /\ \A j \in Candidates : rw[t][j] = Far
      BY <1>1, <2>11 DEF NotYet
    <3>1. t > i /\ t >= i /\ t # i
      BY <1>0, <1>1
    <3> QED
      BY <1>y, <2>4, <2>10, <3>1
  <2>17. Lives'
    BY <1>x, <1>1, <1>2, <2>10 DEF Lives, Life, Same
  <2>18. FreeIdle'
    BY <1>1, <2>10 DEF FreeIdle, InUse, Same
  <2> QED
    BY <1>3, <2>10, <2>12, <2>13, <2>14, <2>15, <2>16, <2>17, <2>18 DEF IInv, Same
<1> QED
  BY <1>4, <1>5 DEF Pair

-----------------------------------------------------------------------------
(* The other steps of a frame.                                             *)

LEMMA InitI == ASSUME Init PROVE IInv
<1>0. Nul \notin Trackers /\ Nul \notin Candidates
  BY DEF Nul, Trackers, Candidates
<1>1. 0 \in 0 .. MostHits /\ Far \in 0 .. Far /\ NumTrk \in 0 .. NumTrk
  BY TrackerAssumption DEF MostHits
<1>2. TypeOK
  BY <1>1, TrackerAssumption DEF Init, TypeOK, Record
<1>3. PairsAgree /\ InReach
  BY <1>0 DEF Init, PairsAgree, InReach
<1>4. NotYet /\ Priced /\ FreeIdle
  BY DEF Init, NotYet, Priced, FreeIdle
<1>5. NearestKept
  BY TrackerAssumption DEF Init, NearestKept
<1>6. Lives /\ FilterHasInput
  BY DEF Init, Lives, Life, FilterHasInput, InUse
<1> QED
  BY <1>2, <1>3, <1>4, <1>5, <1>6 DEF IInv

\* A frame begins with nobody paired.
LEMMA BeginFrameKeeps ==
    ASSUME IInv, BeginFrame
    PROVE  IInv'
<1>0. Nul \notin Trackers /\ Nul \notin Candidates
  BY DEF Nul, Trackers, Candidates
<1>1. /\ pc = "rest" /\ pc' = "pair" /\ i' = 0 /\ cdi_number' \in 0 .. NumCdi
      /\ index' = [j \in Candidates |-> Nul]
      /\ UNCHANGED <<row, streak>>
  BY DEF BeginFrame
<1>2. TypeOK /\ NotYet /\ Lives
  BY DEF IInv
<1>3. \A t \in Trackers : \A j \in Candidates : row[t][j] = Far
  BY <1>1, <1>2 DEF NotYet
<1>4. \A t \in Trackers : trk[t] \in Record
  BY <1>2 DEF TypeOK
<1>5. trk' \in [Trackers -> Record]
  <2>0. Far \in 0 .. Far
    BY TrackerAssumption
  <2>1. ASSUME NEW r \in Record
        PROVE  [r EXCEPT !.idx_1 = Nul, !.idx_2 = Nul, !.cst_1 = Far, !.cst_2 = Far] \in Record
    BY <2>0 DEF Record
  <2> QED
    BY <1>4, <2>1 DEF BeginFrame
<1>6. \A t \in Trackers : trk'[t].idx_1 = Nul /\ trk'[t].idx_2 = Nul /\ Same(trk'[t], trk[t])
  BY <1>4 DEF BeginFrame, Record, Same
<1>7. TypeOK'
  BY <1>1, <1>2, <1>5, TrackerAssumption DEF TypeOK
<1>8. PairsAgree' /\ InReach' /\ Priced' /\ FreeIdle'
  BY <1>0, <1>1, <1>6 DEF PairsAgree, InReach, Priced, FreeIdle
<1>9. NotYet'
  BY <1>1, <1>3, <1>6 DEF NotYet
<1>10. NearestKept'
  BY <1>1, <1>3, TrackerAssumption DEF NearestKept
<1>11. Lives' /\ FilterHasInput'
  BY <1>1, <1>2, <1>6 DEF Lives, Life, Same, FilterHasInput
<1> QED
  BY <1>7, <1>8, <1>9, <1>10, <1>11 DEF IInv

\* Trackers on trial are promoted or given up.
LEMMA PromoteKeeps ==
    ASSUME IInv, Promote
    PROVE  IInv'
<1>0. /\ Nul \notin Trackers /\ Nul \notin Candidates
      /\ ThresPre \in 1 .. 127 /\ ThresVal \in 1 .. 127 /\ Far \in 0 .. Far
  BY TrackerAssumption DEF Nul, Trackers, Candidates
<1>1. /\ pc = "pair" /\ pc' = "start" /\ UNCHANGED <<index, cdi_number, i>>
      /\ row' = [t \in Trackers |-> [j \in Candidates |-> Far]]
      /\ trk' = [t \in Trackers |-> IF trk[t].type = "pre" THEN OnTrial(trk[t]) ELSE trk[t]]
      /\ streak' = [t \in Trackers |->
            IF trk[t].idx_1 = Nul THEN 0
            ELSE IF streak[t] <= ThresPre THEN streak[t] + 1 ELSE streak[t]]
  BY DEF Promote
<1>2. TypeOK /\ PairsAgree /\ InReach /\ FreeIdle /\ Lives
  BY DEF IInv
<1>3. \A t \in Trackers : trk[t] \in Record /\ streak[t] \in 0 .. ThresPre + 1
  BY <1>2 DEF TypeOK
<1>4. ASSUME NEW t \in Trackers
      PROVE  /\ trk'[t] \in Record
             /\ streak'[t] \in 0 .. ThresPre + 1
             /\ trk'[t].idx_1 = trk[t].idx_1 /\ trk'[t].idx_2 = trk[t].idx_2
             /\ ~InUse(t)' => trk'[t].idx_1 = Nul
             /\ Life(t)'
  <2> DEFINE r == trk[t]
  <2>1. Life(t) /\ (~InUse(t) => r.idx_1 = Nul)
    BY <1>1, <1>2 DEF Lives, FreeIdle
  <2>2. /\ r \in Record /\ r.hit_time \in Nat /\ r.miss_time \in Nat
        /\ streak[t] \in Nat /\ streak[t] <= ThresPre + 1
    BY <1>3 DEF Record
  <2>3. CASE r.type # "pre"
    <3>1. trk'[t] = r
      BY <1>1, <2>3
    <3>2. streak'[t] \in 0 .. ThresPre + 1
      BY <1>0, <1>1, <2>2
    <3> QED
      BY <1>1, <2>1, <2>2, <2>3, <3>1, <3>2 DEF Life, InUse
  <2>4. CASE r.type = "pre" /\ Hit(r) /\ r.hit_time + 1 = ThresPre
    <3>1. trk'[t] = [r EXCEPT !.type = "val", !.miss_time = 0]
      BY <1>1, <2>4 DEF OnTrial
    <3>2. 0 \in 0 .. MostHits
      BY <1>0 DEF MostHits
    <3>3. /\ trk'[t] \in Record /\ trk'[t].type = "val" /\ trk'[t].miss_time = 0
          /\ trk'[t].hit_time = r.hit_time
          /\ trk'[t].idx_1 = r.idx_1 /\ trk'[t].idx_2 = r.idx_2
      BY <2>2, <3>1, <3>2 DEF Record
    <3>4. streak'[t] \in 0 .. ThresPre + 1
      BY <1>0, <1>1, <2>2
    <3>5. r.hit_time < ThresPre
      BY <1>0, <2>2, <2>4
    <3> QED
      BY <1>1, <2>4, <3>3, <3>4, <3>5 DEF Life, InUse, Hit
  <2>5. CASE r.type = "pre" /\ Hit(r) /\ r.hit_time + 1 # ThresPre
    <3>1. trk'[t] = [r EXCEPT !.hit_time = @ + 1]
      BY <1>1, <2>5 DEF OnTrial
    <3>2. r.hit_time < ThresPre /\ streak[t] = r.hit_time + 1
      BY <2>1, <2>5 DEF Life
    <3>3. r.hit_time + 1 < ThresPre /\ r.hit_time + 1 \in 0 .. MostHits
      BY <1>0, <2>2, <2>5, <3>2 DEF MostHits
    <3>4. /\ trk'[t] \in Record /\ trk'[t].type = "pre"
          /\ trk'[t].hit_time = r.hit_time + 1
          /\ trk'[t].idx_1 = r.idx_1 /\ trk'[t].idx_2 = r.idx_2
      BY <2>2, <2>5, <3>1, <3>3 DEF Record
    <3>5. streak'[t] = streak[t] + 1 /\ streak'[t] \in 0 .. ThresPre + 1
      BY <1>0, <1>1, <2>2, <2>5, <3>2, <3>3 DEF Hit
    <3> QED
      BY <1>1, <2>5, <3>2, <3>3, <3>4, <3>5 DEF Life, InUse, Hit
  <2>6. CASE r.type = "pre" /\ ~Hit(r)
    <3>1. trk'[t] = [r EXCEPT !.type = "nul"]
      BY <1>1, <2>6 DEF OnTrial
    <3>2. /\ trk'[t] \in Record /\ trk'[t].type = "nul"
          /\ trk'[t].idx_1 = r.idx_1 /\ trk'[t].idx_2 = r.idx_2
      BY <2>2, <3>1 DEF Record
    <3>3. streak'[t] \in 0 .. ThresPre + 1
      BY <1>0, <1>1, <2>2
    <3> QED
      BY <2>6, <3>2, <3>3 DEF Life, Hit
  <2> QED
    BY <2>3, <2>4, <2>5, <2>6
<1>5. row' \in [Trackers -> [Candidates -> 0 .. Far]]
  BY <1>0, <1>1
<1>6. trk' \in [Trackers -> Record] /\ streak' \in [Trackers -> 0 .. ThresPre + 1]
  BY <1>1, <1>4
<1>7. TypeOK'
  BY <1>1, <1>2, <1>5, <1>6 DEF TypeOK
<1>8. PairsAgree' /\ InReach'
  BY <1>1, <1>2, <1>4 DEF PairsAgree, InReach
<1>9. NotYet' /\ Priced' /\ NearestKept' /\ FilterHasInput'
  BY <1>0, <1>1, TrackerAssumption DEF NotYet, Priced, NearestKept, FilterHasInput
<1>10. FreeIdle' /\ Lives'
  BY <1>4 DEF FreeIdle, Lives
<1> QED
  BY <1>7, <1>8, <1>9, <1>10 DEF IInv

\* A candidate that nobody follows starts a tracker.
LEMMA StartKeeps ==
    ASSUME IInv, Start
    PROVE  IInv'
<1>0. /\ Nul \notin Trackers /\ Nul \notin Candidates /\ Candidates \subseteq Int
      /\ ThresPre \in 1 .. 127 /\ 0 \in 0 .. MostHits
  BY TrackerAssumption DEF Nul, Trackers, Candidates, MostHits
<1>2. TypeOK /\ PairsAgree /\ InReach /\ NotYet /\ FreeIdle /\ Lives
  BY DEF IInv
<1>1. pc = "start" /\ UNCHANGED <<cdi_number, pc, i, row>>
  BY DEF Start
<1>3. PICK j \in Strays, t \in Free :
         /\ trk' = [trk EXCEPT ![t].type = "pre", ![t].hit_time = 0, ![t].idx_1 = j]
         /\ index' = [index EXCEPT ![j] = t]
         /\ streak' = [streak EXCEPT ![t] = 1]
  BY DEF Start
<1>4. j \in Candidates /\ j < cdi_number /\ index[j] = Nul
  BY <1>2, TrackerAssumption DEF Strays, TypeOK, Candidates
<1>5. t \in Trackers /\ trk[t].idx_1 = Nul
  BY <1>1, <1>2 DEF Free, FreeIdle
<1>6. /\ trk \in [Trackers -> Record] /\ trk[t] \in Record
      /\ index \in [Candidates -> Trackers \cup {Nul}]
      /\ streak \in [Trackers -> 0 .. ThresPre + 1]
  BY <1>2, <1>5 DEF TypeOK
<1>7. /\ trk'[t] \in Record /\ trk'[t].type = "pre" /\ trk'[t].hit_time = 0
      /\ trk'[t].idx_1 = j /\ trk'[t].idx_2 = trk[t].idx_2
      /\ trk' \in [Trackers -> Record]
      /\ \A u \in Trackers : u # t => trk'[u] = trk[u]
  <2> DEFINE r == [trk[t] EXCEPT !.type = "pre", !.hit_time = 0, !.idx_1 = j]
  <2>1. r \in Record /\ r.type = "pre" /\ r.hit_time = 0 /\ r.idx_1 = j /\ r.idx_2 = trk[t].idx_2
    BY <1>0, <1>4, <1>6 DEF Record
  <2>2. trk' = [trk EXCEPT ![t] = r]
    BY <1>3, <1>5, <1>6
  <2> HIDE DEF r
  <2> QED
    BY <1>5, <1>6, <2>1, <2>2
<1>8. /\ index' \in [Candidates -> Trackers \cup {Nul}] /\ index'[j] = t
      /\ \A k \in Candidates : k # j => index'[k] = index[k]
      /\ streak' \in [Trackers -> 0 .. ThresPre + 1] /\ streak'[t] = 1
      /\ \A u \in Trackers : u # t => streak'[u] = streak[u]
  BY <1>0, <1>3, <1>4, <1>5, <1>6
<1>9. TypeOK'
  BY <1>1, <1>2, <1>7, <1>8 DEF TypeOK
<1>10. PairsAgree'
  <2> SUFFICES ASSUME NEW u \in Trackers, NEW k \in Candidates
               PROVE  trk'[u].idx_1 = k <=> index'[k] = u
    BY DEF PairsAgree
  <2>1. trk[u].idx_1 = k <=> index[k] = u
    BY <1>2 DEF PairsAgree
  <2>2. CASE u = t
    BY <1>0, <1>5, <1>7, <1>8, <2>1, <2>2
  <2>3. CASE u # t
    BY <1>0, <1>4, <1>7, <1>8, <2>1, <2>3
  <2> QED
    BY <2>2, <2>3
<1>11. InReach'
  BY <1>1, <1>2, <1>4, <1>5, <1>7 DEF InReach
<1>12. NotYet' /\ Priced' /\ FilterHasInput'
  BY <1>1, <1>2 DEF NotYet, Priced, FilterHasInput
<1>13. NearestKept'
  BY <1>1, <1>2, TrackerAssumption DEF NotYet, NearestKept
<1>14. FreeIdle' /\ Lives'
  <2>1. Life(t)' /\ InUse(t)'
    BY <1>0, <1>4, <1>7, <1>8 DEF Life, InUse, Hit
  <2>2. \A u \in Trackers : u # t => Life(u)' /\ (~InUse(u)' => trk'[u].idx_1 = Nul)
    BY <1>1, <1>2, <1>7, <1>8 DEF Lives, Life, FreeIdle, InUse, Hit
  <2> QED
    BY <2>1, <2>2 DEF FreeIdle, Lives
<1> QED
  BY <1>9, <1>10, <1>11, <1>12, <1>13, <1>14 DEF IInv

\* Valid trackers count their hits and misses, and go.
LEMMA SettleKeeps ==
    ASSUME IInv, Settle
    PROVE  IInv'
<1>0. /\ Nul \notin Trackers /\ Nul \notin Candidates
      /\ ThresPre \in 1 .. 127 /\ ThresVal \in 1 .. 127 /\ 0 \in 0 .. MostHits
  BY TrackerAssumption DEF Nul, Trackers, Candidates, MostHits
<1>1. pc = "start" /\ pc' = "rest" /\ UNCHANGED <<index, cdi_number, i, row, streak>>
  BY DEF Settle
<1>2. TypeOK /\ PairsAgree /\ InReach /\ NotYet /\ Lives
  BY DEF IInv
<1>3. PICK gone \in SUBSET Trackers :
        trk' = [t \in Trackers |-> IF trk[t].type = "val" THEN Settled(trk[t], t \in gone) ELSE trk[t]]
  BY DEF Settle
<1>4. ASSUME NEW t \in Trackers
      PROVE  /\ trk'[t] \in Record
             /\ trk'[t].idx_1 = trk[t].idx_1 /\ trk'[t].idx_2 = trk[t].idx_2
             /\ trk'[t].type = "pre" => Hit(trk'[t])
             /\ trk'[t].type = "val" => (Hit(trk'[t]) <=> trk'[t].miss_time = 0)
             /\ Life(t)'
  <2> DEFINE r == trk[t]
  <2>1. Life(t)
    BY <1>2 DEF Lives
  <2>2. /\ r \in Record /\ r.hit_time \in 0 .. MostHits /\ r.miss_time \in 0 .. MostHits
        /\ r.type \in {"nul", "pre", "val"}
    BY <1>2 DEF TypeOK, Record
  <2>3. CASE r.type # "val"
    <3>1. trk'[t] = r
      BY <1>3, <2>3
    <3> QED
      BY <1>1, <2>1, <2>2, <2>3, <3>1 DEF Life
  <2>4. CASE r.type = "val" /\ Hit(r)
    <3> DEFINE h == IF r.hit_time < ThresVal THEN r.hit_time + 1 ELSE r.hit_time
    <3>1. trk'[t] = [r EXCEPT !.miss_time = 0, !.hit_time = h]
      BY <1>3, <2>4 DEF Settled
    <3>2. r.hit_time <= ThresVal \/ r.hit_time < ThresPre
      BY <2>1, <2>4 DEF Life
    <3>3. h \in 0 .. MostHits /\ 0 < h /\ (h <= ThresVal \/ h < ThresPre)
      BY <1>0, <2>2, <3>2 DEF MostHits
    <3> HIDE DEF h
    <3>4. /\ trk'[t] \in Record /\ trk'[t].type = "val" /\ trk'[t].miss_time = 0
          /\ trk'[t].hit_time = h /\ trk'[t].idx_1 = r.idx_1 /\ trk'[t].idx_2 = r.idx_2
      BY <1>0, <2>2, <2>4, <3>1, <3>3 DEF Record
    <3> QED
      BY <2>4, <3>3, <3>4 DEF Life, Hit
  <2>5. CASE r.type = "val" /\ ~Hit(r)
    <3> DEFINE m == r.miss_time + 1
               ty == IF t \in gone \/ m >= r.hit_time THEN "nul" ELSE "val"
    <3>1. trk'[t] = [r EXCEPT !.miss_time = m, !.type = ty]
      BY <1>3, <2>5 DEF Settled
    <3>2. /\ r.hit_time <= ThresVal \/ r.hit_time < ThresPre
          /\ r.miss_time < r.hit_time
      BY <2>1, <2>5 DEF Life
    <3>3. /\ MostHits \in Int
          /\ m \in 0 .. MostHits /\ 0 < m /\ (ty = "val" => m < r.hit_time)
          /\ ty \in {"nul", "val"}
      BY <1>0, <2>2, <3>2 DEF MostHits
    <3> HIDE DEF m, ty
    <3>4. /\ trk'[t] \in Record /\ trk'[t].type = ty /\ trk'[t].miss_time = m
          /\ trk'[t].hit_time = r.hit_time /\ trk'[t].idx_1 = r.idx_1 /\ trk'[t].idx_2 = r.idx_2
      BY <2>2, <3>1, <3>3 DEF Record
    <3> QED
      BY <2>5, <3>2, <3>3, <3>4 DEF Life, Hit
  <2> QED
    BY <2>3, <2>4, <2>5
<1>5. TypeOK'
  <2>1. trk' \in [Trackers -> Record]
    BY <1>3, <1>4
  <2> QED
    BY <1>1, <1>2, <2>1 DEF TypeOK
<1>6. PairsAgree' /\ InReach'
  BY <1>1, <1>2, <1>4 DEF PairsAgree, InReach
<1>7. NotYet' /\ Priced' /\ FreeIdle'
  BY <1>1, <1>2 DEF NotYet, Priced, FreeIdle
<1>8. NearestKept'
  BY <1>1, <1>2, TrackerAssumption DEF NotYet, NearestKept
<1>9. FilterHasInput'
  <2> SUFFICES ASSUME NEW t \in Trackers, Hit(trk'[t])
               PROVE  trk'[t].idx_1 < cdi_number
    BY <1>1, <1>4 DEF FilterHasInput
  <2>1. trk[t].idx_1 \in Candidates
    BY <1>2, <1>4 DEF TypeOK, Record, Hit
  <2> QED
    BY <1>2, <1>4, <2>1 DEF InReach
<1>10. Lives'
  BY <1>4 DEF Lives
<1> QED
  BY <1>5, <1>6, <1>7, <1>8, <1>9, <1>10 DEF IInv

\* A new scan begins with no tracker in use.
LEMMA PreStartKeeps ==
    ASSUME IInv, PreStart
    PROVE  IInv'
<1>1. pc = "rest" /\ pc' = "rest" /\ UNCHANGED <<index, cdi_number, i, row, streak>>
  BY DEF PreStart
<1>2. TypeOK /\ PairsAgree /\ InReach /\ NotYet /\ NearestKept
  BY DEF IInv
<1>3. \A t \in Trackers : trk[t] \in Record
  BY <1>2 DEF TypeOK
<1>4. \A t \in Trackers :
        /\ trk'[t] \in Record /\ trk'[t].type = "nul"
        /\ trk'[t].idx_1 = trk[t].idx_1 /\ trk'[t].idx_2 = trk[t].idx_2
  BY <1>3 DEF PreStart, Record
<1>5. trk' \in [Trackers -> Record]
  BY <1>4 DEF PreStart
<1>6. TypeOK'
  BY <1>1, <1>2, <1>5 DEF TypeOK
<1>7. PairsAgree' /\ InReach'
  BY <1>1, <1>2, <1>4 DEF PairsAgree, InReach
<1>8. NotYet' /\ Priced' /\ FreeIdle'
  BY <1>1, <1>2 DEF NotYet, Priced, FreeIdle
<1>9. NearestKept'
  BY <1>1, <1>2 DEF NearestKept, Reach
<1>10. Lives' /\ FilterHasInput'
  BY <1>4 DEF Lives, Life, FilterHasInput, InUse
<1> QED
  BY <1>6, <1>7, <1>8, <1>9, <1>10 DEF IInv

-----------------------------------------------------------------------------
(* The theorems.                                                           *)

\* The invariant holds of every behaviour of the tracker, however many trackers
\* and candidates there are.
THEOREM TrackerInvHolds == Spec => []IInv
<1>1. Init => IInv
  BY InitI
<1>2. IInv /\ [Next]_vars => IInv'
  <2> SUFFICES ASSUME IInv, [Next]_vars PROVE IInv'
    OBVIOUS
  <2>1. CASE UNCHANGED vars
    BY <2>1 DEF vars, IInv, TypeOK, PairsAgree, InReach, NotYet, Priced, NearestKept, Reach,
                FreeIdle, Lives, Life, FilterHasInput, InUse
  <2> QED
    BY <2>1, BeginFrameKeeps, PairKeeps, PromoteKeeps, StartKeeps, SettleKeeps, PreStartKeeps
       DEF Next
<1> QED
  BY <1>1, <1>2, PTL DEF Spec

\* ekf_track.c keeps every index, hit and miss of a tracker in range.
THEOREM TrackerTypes == Spec => []TypeOK
<1>1. IInv => TypeOK
  BY DEF IInv
<1> QED
  BY <1>1, TrackerInvHolds, PTL

\* ekf_run_pair leaves no two trackers on one candidate, whatever the costs.
THEOREM PairsAlwaysAgree == Spec => []PairsAgree
<1>1. IInv => PairsAgree
  BY DEF IInv
<1> QED
  BY <1>1, TrackerInvHolds, PTL

\* ekf_run_pair never leaves the candidate nearest to a tracker to a worse one,
\* nor to nobody.
THEOREM NearestIsKept == Spec => []NearestKept
<1>1. IInv => NearestKept
  BY DEF IInv
<1> QED
  BY <1>1, TrackerInvHolds, PTL

\* ekf_run_filter never reads a candidate that is not of this frame.
THEOREM FilterAlwaysHasInput == Spec => []FilterHasInput
<1>1. IInv => FilterHasInput
  BY DEF IInv
<1> QED
  BY <1>1, TrackerInvHolds, PTL

\* ekf_run_update lets a tracker live on no more misses than it had hits.
THEOREM NoneOutlivesItsHits == Spec => []LivesOnItsHits
<1>1. IInv => LivesOnItsHits
  BY DEF IInv, Lives, Life, LivesOnItsHits
<1> QED
  BY <1>1, TrackerInvHolds, PTL

\* ekf_run_update promotes a tracker only after enough frames with a candidate.
THEOREM PromotedWhenProven == Spec => OnlyProven
<1> DEFINE Promotes == \A t \in Trackers :
             trk'[t].type = "val" /\ trk[t].type # "val" => streak'[t] = ThresPre + 1
<1>1. IInv /\ [Next]_vars => [Promotes]_vars
  <2> SUFFICES ASSUME IInv, Next, NEW t \in Trackers,
                      trk'[t].type = "val", trk[t].type # "val"
               PROVE  streak'[t] = ThresPre + 1
    BY DEF vars
  <2>1. TypeOK /\ Life(t)
    BY DEF IInv, Lives
  <2>2. trk \in [Trackers -> Record] /\ trk[t] \in Record
    BY <2>1 DEF TypeOK
  <2>3. CASE BeginFrame
    BY <2>2, <2>3 DEF BeginFrame, Record
  <2>4. CASE Pair
    BY <2>4, PairKeeps
  <2>5. CASE Promote
    <3>1. trk[t].type = "pre" /\ trk'[t] = OnTrial(trk[t])
      BY <2>5 DEF Promote
    <3>2. Hit(trk[t]) /\ trk[t].hit_time + 1 = ThresPre
      BY <2>2, <3>1 DEF OnTrial, Record
    <3>3. streak[t] = ThresPre
      BY <2>1, <3>1, <3>2 DEF Life
    <3>4. ThresPre \in Int
      BY TrackerAssumption
    <3> QED
      BY <2>5, <3>2, <3>3, <3>4 DEF Promote, Hit
  <2>6. CASE Start
    BY <2>2, <2>6 DEF Start, Record
  <2>7. CASE Settle
    BY <2>2, <2>7 DEF Settle, Record
  <2>8. CASE PreStart
    BY <2>2, <2>8 DEF PreStart, Record
  <2> QED
    BY <2>3, <2>4, <2>5, <2>6, <2>7, <2>8 DEF Next
<1> QED
  BY <1>1, TrackerInvHolds, PTL DEF Spec, OnlyProven

=============================================================================
