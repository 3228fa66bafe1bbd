---------------------------- MODULE CollectionProofs ---------------------------
(***************************************************************************)
(* Theorems about Collection, for any frames, pairs, watermark and batch   *)
(* size: rows committed in time are seen by the evaluation of their device *)
(* time, and what comes in order is never passed over.                     *)
(***************************************************************************)
EXTENDS Collection, FiniteSetTheorems, TLAPS

-------------------------------------------------------------------------------
(* The inductive invariant. *)

\* A frame is committed once, as a whole.
CommitsOnce ==
    \A i, j \in DOMAIN commits : commits[i].frame = commits[j].frame => i = j

CommitsWhole == \A f \in Committed : Inserted(f) = Len(Frames[f])

\* Any items have a latest device time.
SomeLatest ==
    \A ids \in SUBSET DOMAIN outbox : ids # {} =>
        \E x \in ids : \A y \in ids : Time(y) <= Time(x)

\* y was inserted and committed before x.
Before(y, x) ==
    y < x /\ Committing(outbox[y].frame) <= Committing(outbox[x].frame)

\* A frame was evaluated for an item of the pair that is handled, after its time
\* of collection, and with all that had been committed by then.
Collected(pair, frame) ==
    \A id \in ItemsOf(pair, frame.at), first \in frame.batch :
        commits[Committing(outbox[id].frame)].at < outbox[first].received + Watermark
            => frame.seen[outbox[id].row.point] = frame.at

Sound(pair, frame, handled) ==
    /\ \E id \in frame.batch \cap handled :
          outbox[id].row.point \in Pairs[pair].points /\ Time(id) = frame.at
    /\ \A first \in frame.batch : outbox[first].received + Watermark <= now
    /\ Collected(pair, frame)

Wanted(id, pair) ==
    /\ outbox[id].row.point \in Pairs[pair].points
    /\ Time(id) >= Pairs[pair].start
    /\ InOrder(id, pair)

\* The evaluations that were made while these items were handled: each of them is
\* sound, and none is missing.
Complete(made, handled) ==
    \A pair \in DOMAIN Pairs :
        /\ \A i \in DOMAIN made[pair] : Sound(pair, made[pair][i], handled)
        /\ \A id \in handled : Wanted(id, pair) =>
              \E i \in DOMAIN made[pair] : made[pair][i].at = Time(id)

\* What was before a done item, with an earlier device time, is done.
DoneInOrder ==
    \A x \in done, y \in Visible : Before(y, x) /\ Time(y) < Time(x) => y \in done

\* A drain has all that was before any of its items, and goes up in device time.
DrainInOrder ==
    /\ drain.phase = "idle" => drain = NoDrain
    /\ drain.phase = "read" => drain.marked = {} /\ drain.times = {}
    /\ \A x \in drain.pending, y \in Visible \ done : Before(y, x) => y \in drain.pending
    /\ \A x \in drain.marked, y \in drain.pending : Time(y) <= Time(x) => y \in drain.marked
    /\ drain.times # {} => drain.times = {Time(id) : id \in drain.pending \ drain.marked}

IInv ==
    /\ TypeOK
    /\ CommitsOnce /\ CommitsWhole /\ SomeLatest
    /\ DoneInOrder /\ DrainInOrder
    /\ \A i \in DOMAIN commits : commits[i].at <= now
    /\ Complete(evaluations, done)
    /\ drain.phase # "idle" => Complete(drain.evaluations, done \cup drain.marked)

-------------------------------------------------------------------------------
(* Items and commits. *)

LEMMA Element ==
    ASSUME NEW S, NEW s \in Seq(S), NEW i \in DOMAIN s
    PROVE  s[i] \in S /\ i \in Nat
  OBVIOUS

LEMMA ItemType ==
    ASSUME TypeOK, NEW id \in DOMAIN outbox
    PROVE  /\ id \in Nat /\ Time(id) \in Nat
           /\ outbox[id].frame \in DOMAIN Frames /\ outbox[id].received \in Nat
           /\ outbox[id].row.point \in Points
  <1>1. outbox \in Seq([frame : DOMAIN Frames, received : 0 .. MaxNow,
                         row : [point : Points, time : Nat]])
    BY DEF TypeOK
  <1>2. outbox[id] \in [frame : DOMAIN Frames, received : 0 .. MaxNow,
                        row : [point : Points, time : Nat]]
    BY <1>1, Element
  <1> QED BY <1>1, <1>2, WatermarkAssumption DEF TypeOK, Time

LEMMA CommittingIs ==
    ASSUME CommitsOnce, NEW i \in DOMAIN commits
    PROVE  Committing(commits[i].frame) = i
  BY DEF CommitsOnce, Committing

\* The commit of a visible item.
LEMMA CommitOf ==
    ASSUME TypeOK, CommitsOnce, NEW id \in Visible
    PROVE  /\ Committing(outbox[id].frame) \in DOMAIN commits
           /\ commits[Committing(outbox[id].frame)].frame = outbox[id].frame
           /\ commits[Committing(outbox[id].frame)].at \in Nat
           /\ Committing(outbox[id].frame) \in Nat
  <1>1. PICK i \in DOMAIN commits : commits[i].frame = outbox[id].frame
    BY DEF Visible, Committed
  <1>2. Committing(outbox[id].frame) = i
    BY <1>1, CommittingIs
  <1>3. commits[i] \in [frame : DOMAIN Frames, at : 0 .. MaxNow] /\ i \in Nat
    BY Element DEF TypeOK
  <1> QED BY <1>1, <1>2, <1>3, WatermarkAssumption

\* The rows of a frame that is being inserted are not visible.
LEMMA InsertEffect ==
    ASSUME TypeOK, CommitsWhole, NEW f \in DOMAIN Frames, Insert(f)
    PROVE  /\ f \notin Committed
           /\ DOMAIN outbox' = DOMAIN outbox \cup {Len(outbox) + 1}
           /\ \A id \in DOMAIN outbox : outbox'[id] = outbox[id]
           /\ outbox'[Len(outbox) + 1].frame = f
           /\ outbox' \in Seq([frame : DOMAIN Frames, received : 0 .. MaxNow,
                               row : [point : Points, time : Nat]])
           /\ Visible' = Visible /\ Committed' = Committed
  <1> DEFINE new == [frame |-> f, received |-> now, row |-> Frames[f][Inserted(f) + 1]]
  <1>1. IsFiniteSet({id \in DOMAIN outbox : outbox[id].frame = f})
    <2>1. DOMAIN outbox = 1 .. Len(outbox) /\ Len(outbox) \in Nat
      BY DEF TypeOK
    <2>2. IsFiniteSet(DOMAIN outbox)
      BY <2>1, FS_Interval
    <2> QED BY <2>2, FS_Subset
  <1>2. Inserted(f) \in Nat /\ Inserted(f) < Len(Frames[f])
    BY <1>1, FS_CardinalityType DEF Inserted, Insert
  <1>3. f \notin Committed
    BY <1>2, FramesAssumption DEF CommitsWhole
  <1>4. Frames[f][Inserted(f) + 1] \in [point : Points, time : Nat]
    <2>1. Inserted(f) + 1 \in 1 .. Len(Frames[f])
      BY <1>2, FramesAssumption
    <2>2. Frames[f] \in Seq([point : Points, time : Nat])
      BY FramesAssumption
    <2>3. Inserted(f) + 1 \in DOMAIN Frames[f]
      BY <2>1, <2>2
    <2> QED BY <2>2, <2>3, Element
  <1>5. new \in [frame : DOMAIN Frames, received : 0 .. MaxNow,
                 row : [point : Points, time : Nat]]
    BY <1>4 DEF TypeOK
  <1>6. outbox' = Append(outbox, new) /\ commits' = commits
    BY DEF Insert
  <1>7. /\ DOMAIN outbox' = DOMAIN outbox \cup {Len(outbox) + 1}
        /\ \A id \in DOMAIN outbox : outbox'[id] = outbox[id]
        /\ outbox'[Len(outbox) + 1] = new
        /\ outbox' \in Seq([frame : DOMAIN Frames, received : 0 .. MaxNow,
                            row : [point : Points, time : Nat]])
    <2> HIDE DEF new
    <2> QED BY <1>5, <1>6 DEF TypeOK
  <1>8. Committed' = Committed
    BY <1>6 DEF Committed
  <1>9. Visible' = Visible
    BY <1>3, <1>7, <1>8 DEF Visible
  <1> QED BY <1>3, <1>7, <1>8, <1>9

\* A commit comes after those there are.
LEMMA CommitEffect ==
    ASSUME TypeOK, CommitsOnce, NEW f \in DOMAIN Frames, Commit(f)
    PROVE  /\ CommitsOnce'
           /\ commits' \in Seq([frame : DOMAIN Frames, at : 0 .. MaxNow])
           /\ Committed' = Committed \cup {f}
           /\ DOMAIN commits' = DOMAIN commits \cup {Len(commits) + 1}
           /\ \A i \in DOMAIN commits : commits'[i] = commits[i]
           /\ commits'[Len(commits) + 1] = [frame |-> f, at |-> now]
           /\ Visible \subseteq Visible'
           /\ \A id \in Visible : Committing(outbox[id].frame)' = Committing(outbox[id].frame)
           /\ \A id \in Visible' \ Visible :
                 Committing(outbox[id].frame)' = Len(commits) + 1
  <1> DEFINE new == [frame |-> f, at |-> now]
  <1>1. commits' = Append(commits, new) /\ outbox' = outbox /\ f \notin Committed
    BY DEF Commit
  <1>2. new \in [frame : DOMAIN Frames, at : 0 .. MaxNow] /\ new.frame = f
    BY DEF TypeOK
  <1>3. /\ DOMAIN commits' = DOMAIN commits \cup {Len(commits) + 1}
        /\ DOMAIN commits = 1 .. Len(commits) /\ Len(commits) \in Nat
        /\ \A i \in DOMAIN commits : commits'[i] = commits[i]
        /\ commits'[Len(commits) + 1] = new
        /\ commits' \in Seq([frame : DOMAIN Frames, at : 0 .. MaxNow])
    <2> HIDE DEF new
    <2> QED BY <1>1, <1>2 DEF TypeOK
  <1>4. \A i \in DOMAIN commits : commits[i].frame # f
    BY <1>1 DEF Committed
  <1>5. CommitsOnce'
    <2> SUFFICES ASSUME NEW i \in DOMAIN commits', NEW j \in DOMAIN commits',
                        commits'[i].frame = commits'[j].frame
                 PROVE  i = j
      BY DEF CommitsOnce
    <2> HIDE DEF new
    <2>1. CASE i \in DOMAIN commits /\ j \in DOMAIN commits
      BY <1>3, <2>1 DEF CommitsOnce
    <2>2. CASE i \notin DOMAIN commits \/ j \notin DOMAIN commits
      BY <1>2, <1>3, <1>4, <2>2
    <2> QED BY <2>1, <2>2
  <1>6. Committed' = Committed \cup {f}
    <2> HIDE DEF new
    <2> QED BY <1>2, <1>3 DEF Committed
  <1>7. Visible \subseteq Visible'
    BY <1>1, <1>6 DEF Visible
  <1>8. ASSUME NEW id \in Visible
        PROVE  Committing(outbox[id].frame)' = Committing(outbox[id].frame)
    <2>1. PICK i \in DOMAIN commits : commits[i].frame = outbox[id].frame
      BY <1>8 DEF Visible, Committed
    <2>2. Committing(outbox[id].frame) = i
      BY <2>1, CommittingIs
    <2>3. i \in DOMAIN commits' /\ commits'[i].frame = outbox[id].frame /\ outbox' = outbox
      BY <1>1, <1>3, <2>1
    <2>4. Committing(outbox[id].frame)' = i
      BY <1>5, <2>3 DEF Committing, CommitsOnce
    <2> QED BY <2>2, <2>4
  <1>9. ASSUME NEW id \in Visible' \ Visible
         PROVE  Committing(outbox[id].frame)' = Len(commits) + 1
    <2>1. outbox[id].frame = f /\ outbox' = outbox
      BY <1>1, <1>6, <1>9 DEF Visible
    <2>2. Len(commits) + 1 \in DOMAIN commits' /\ commits'[Len(commits) + 1].frame = f
      BY <1>2, <1>3
    <2> QED BY <1>5, <2>1, <2>2 DEF Committing, CommitsOnce
  <1> QED BY <1>3, <1>5, <1>6, <1>7, <1>8, <1>9

-------------------------------------------------------------------------------
(* What was seen stays true when rows are inserted and committed. *)

History ==
    \/ outbox' = outbox /\ commits' = commits
    \/ \E f \in DOMAIN Frames : Insert(f) \/ Commit(f)

HistoryInv == TypeOK /\ CommitsOnce /\ CommitsWhole

\* Items, their commits, and what is new among the visible ones.
LEMMA HistoryEffect ==
    ASSUME HistoryInv, History
    PROVE  /\ DOMAIN outbox \subseteq DOMAIN outbox'
           /\ \A id \in DOMAIN outbox : outbox'[id] = outbox[id]
           /\ Visible \subseteq Visible' /\ Visible' \subseteq DOMAIN outbox
           /\ \A id \in Visible :
                 /\ Committing(outbox[id].frame)' = Committing(outbox[id].frame)
                 /\ commits'[Committing(outbox[id].frame)'] =
                       commits[Committing(outbox[id].frame)]
           /\ \A id \in Visible' \ Visible :
                 /\ Committing(outbox[id].frame)' = Len(commits) + 1
                 /\ commits'[Committing(outbox[id].frame)'].at = now
  <1> USE DEF HistoryInv
  <1>1. CASE outbox' = outbox /\ commits' = commits
    BY <1>1 DEF Visible, Committed, Committing
  <1>2. ASSUME NEW f \in DOMAIN Frames, Insert(f)
        PROVE  /\ DOMAIN outbox \subseteq DOMAIN outbox'
               /\ \A id \in DOMAIN outbox : outbox'[id] = outbox[id]
               /\ Visible' = Visible /\ Visible \subseteq DOMAIN outbox
               /\ commits' = commits
               /\ \A id \in Visible :
                     Committing(outbox[id].frame)' = Committing(outbox[id].frame)
    <2>1. commits' = commits
      BY <1>2 DEF Insert
    <2>2. \A id \in Visible : id \in DOMAIN outbox
      BY DEF Visible
    <2>3. \A id \in DOMAIN outbox : outbox'[id] = outbox[id]
      BY <1>2, InsertEffect
    <2>4. \A id \in Visible : Committing(outbox[id].frame)' = Committing(outbox[id].frame)
      BY <2>1, <2>2, <2>3 DEF Committing
    <2> QED BY <1>2, <2>1, <2>2, <2>4, InsertEffect
  <1>3. ASSUME NEW f \in DOMAIN Frames, Commit(f)
        PROVE  /\ outbox' = outbox
               /\ Visible \subseteq Visible' /\ Visible' \subseteq DOMAIN outbox
               /\ \A id \in Visible :
                     /\ Committing(outbox[id].frame)' = Committing(outbox[id].frame)
                     /\ commits'[Committing(outbox[id].frame)'] =
                           commits[Committing(outbox[id].frame)]
               /\ \A id \in Visible' \ Visible :
                     /\ Committing(outbox[id].frame)' = Len(commits) + 1
                     /\ commits'[Committing(outbox[id].frame)'].at = now
    <2>1. outbox' = outbox
      BY <1>3 DEF Commit
    <2>2. Visible' \subseteq DOMAIN outbox
      BY <2>1 DEF Visible
    <2>3. \A id \in Visible : Committing(outbox[id].frame) \in DOMAIN commits
      BY CommitOf
    <2>4. \A i \in DOMAIN commits : commits'[i] = commits[i]
      BY <1>3, CommitEffect
    <2>5. \A id \in Visible : Committing(outbox[id].frame)' = Committing(outbox[id].frame)
      BY <1>3, CommitEffect
    <2>6. commits'[Len(commits) + 1].at = now
      <3>1. commits'[Len(commits) + 1] = [frame |-> f, at |-> now]
        BY <1>3, CommitEffect
      <3> QED BY <3>1
    <2>7. \A id \in Visible' \ Visible : Committing(outbox[id].frame)' = Len(commits) + 1
      BY <1>3, CommitEffect
    <2>8. Visible \subseteq Visible'
      BY <1>3, CommitEffect
    <2> QED BY <2>1, <2>2, <2>3, <2>4, <2>5, <2>6, <2>7, <2>8
  <1> QED BY <1>1, <1>2, <1>3 DEF History

LEMMA BeforeKept ==
    ASSUME HistoryInv, History, NEW x \in Visible, NEW y \in Visible',
           Before(y, x)'
    PROVE  y \in Visible /\ Before(y, x)
  <1>1. Committing(outbox[x].frame) \in DOMAIN commits
    BY CommitOf DEF HistoryInv
  <1>2. Committing(outbox[x].frame) <= Len(commits) /\ Len(commits) \in Nat
        /\ Committing(outbox[x].frame) \in Nat
    BY <1>1 DEF HistoryInv, TypeOK
  <1>3. outbox'[x] = outbox[x] /\ outbox'[y] = outbox[y]
    BY HistoryEffect DEF Visible
  <1>4. Committing(outbox[x].frame)' = Committing(outbox[x].frame)
    BY HistoryEffect
  <1>5. y < x /\ Committing(outbox[y].frame)' <= Committing(outbox[x].frame)
    BY <1>4 DEF Before
  <1>6. y \in Visible
    BY <1>2, <1>5, HistoryEffect
  <1>7. Committing(outbox[y].frame)' = Committing(outbox[y].frame)
    BY <1>6, HistoryEffect
  <1> QED BY <1>5, <1>6, <1>7 DEF Before

LEMMA SoundKept ==
    ASSUME HistoryInv, History, now' \in Nat, now <= now',
           NEW pair, NEW frame, NEW handled, NEW more,
           Sound(pair, frame, handled), handled \subseteq more,
           frame.batch \subseteq DOMAIN outbox
    PROVE  Sound(pair, frame, more)'
  <1>1. \A id \in frame.batch : outbox'[id] = outbox[id] /\ outbox[id].received \in Nat
    BY HistoryEffect, ItemType DEF HistoryInv
  <1>2. \E id \in frame.batch \cap more :
          outbox'[id].row.point \in Pairs[pair].points /\ outbox'[id].row.time = frame.at
    BY <1>1 DEF Sound, Time
  <1>3. now \in Nat /\ Watermark \in Nat
    BY WatermarkAssumption DEF HistoryInv, TypeOK
  <1>4. \A first \in frame.batch : outbox'[first].received + Watermark <= now'
    BY <1>1, <1>3 DEF Sound
  <1>5. ASSUME NEW id \in ItemsOf(pair, frame.at)', NEW first \in frame.batch,
               commits'[Committing(outbox[id].frame)'].at < outbox'[first].received + Watermark
        PROVE  frame.seen[outbox'[id].row.point] = frame.at
    <2>1. id \in Visible' /\ id \in DOMAIN outbox /\ outbox'[id] = outbox[id]
      BY <1>5, HistoryEffect DEF ItemsOf
    <2>2. CASE id \in Visible
      <3>1. commits[Committing(outbox[id].frame)].at < outbox[first].received + Watermark
        BY <1>1, <1>5, <2>2, HistoryEffect
      <3>2. id \in ItemsOf(pair, frame.at)
        BY <1>5, <2>1, <2>2 DEF ItemsOf, Time
      <3> QED BY <2>1, <3>1, <3>2 DEF Sound, Collected
    <2>3. CASE id \notin Visible
      <3>1. now < outbox[first].received + Watermark
        BY <1>1, <1>5, <2>1, <2>3, HistoryEffect
      <3> QED BY <1>1, <1>3, <3>1 DEF Sound
    <2> QED BY <2>2, <2>3
  <1>6. \A id \in ItemsOf(pair, frame.at)' : outbox'[id] = outbox[id]
    BY HistoryEffect DEF ItemsOf
  <1>7. Collected(pair, frame)'
    BY <1>5, <1>6 DEF Collected
  <1> QED BY <1>2, <1>4, <1>7 DEF Sound, Time

LEMMA WantedKept ==
    ASSUME HistoryInv, History, NEW pair, NEW id \in Visible, Wanted(id, pair)'
    PROVE  Wanted(id, pair)
  <1>1. outbox'[id] = outbox[id] /\ id \in DOMAIN outbox
    BY HistoryEffect DEF Visible
  <1>2. Committing(outbox[id].frame)' = Committing(outbox[id].frame)
    BY HistoryEffect
  <1>3. ASSUME NEW later \in Visible,
               outbox[later].row.point \in Pairs[pair].points, Time(later) > Time(id)
        PROVE  id < later /\ Committing(outbox[id].frame) <= Committing(outbox[later].frame)
    <2>1. later \in Visible' /\ outbox'[later] = outbox[later]
      BY HistoryEffect DEF Visible
    <2>2. Committing(outbox[later].frame)' = Committing(outbox[later].frame)
      BY HistoryEffect
    <2>3. outbox'[later].row.point \in Pairs[pair].points /\ Time(later)' > Time(id)'
      BY <1>1, <1>3, <2>1 DEF Time
    <2>4. id < later /\ Committing(outbox[id].frame)' <= Committing(outbox[later].frame)'
      BY <2>1, <2>3 DEF Wanted, InOrder
    <2> QED BY <1>2, <2>2, <2>4
  <1> QED BY <1>1, <1>3 DEF Wanted, InOrder, Time

LEMMA CompleteKept ==
    ASSUME HistoryInv, History, now' \in Nat, now <= now',
           NEW made, NEW handled \in SUBSET Visible, Complete(made, handled),
           \A pair \in DOMAIN Pairs : \A i \in DOMAIN made[pair] :
              made[pair][i].batch \subseteq DOMAIN outbox
    PROVE  Complete(made, handled)'
  <1>1. ASSUME NEW pair \in DOMAIN Pairs, NEW i \in DOMAIN made[pair]
        PROVE  Sound(pair, made[pair][i], handled)'
    BY <1>1, SoundKept DEF Complete
  <1>2. ASSUME NEW pair \in DOMAIN Pairs, NEW id \in handled, Wanted(id, pair)'
        PROVE  \E i \in DOMAIN made[pair] : made[pair][i].at = Time(id)'
    <2>1. Wanted(id, pair)
      BY <1>2, WantedKept
    <2>2. Time(id)' = Time(id)
      BY HistoryEffect DEF Visible, Time
    <2> QED BY <2>1, <2>2 DEF Complete
  <1> QED BY <1>1, <1>2 DEF Complete

-------------------------------------------------------------------------------
(* Steps of ingestion and of the clock. *)

LEMMA EvaluatedGrows ==
    ASSUME DOMAIN outbox \subseteq DOMAIN outbox'
    PROVE  [DOMAIN Pairs -> Evaluated] \subseteq [DOMAIN Pairs -> Evaluated]'
  <1>1. ASSUME NEW S, NEW T, S \subseteq T PROVE Seq(S) \subseteq Seq(T)
    BY <1>1
  <1>2. [at : Nat, seen : [Points -> Nat], batch : SUBSET DOMAIN outbox]
          \subseteq [at : Nat, seen : [Points -> Nat], batch : SUBSET DOMAIN outbox']
    OBVIOUS
  <1>3. Evaluated \subseteq Evaluated'
    BY <1>1, <1>2 DEF Evaluated
  <1> QED BY <1>3

\* What an evaluation was run for are items.
LEMMA BatchType ==
    ASSUME NEW made \in [DOMAIN Pairs -> Evaluated],
           NEW pair \in DOMAIN Pairs, NEW i \in DOMAIN made[pair]
    PROVE  /\ made[pair][i] \in [at : Nat, seen : [Points -> Nat],
                                 batch : SUBSET DOMAIN outbox]
           /\ made[pair][i].batch \subseteq DOMAIN outbox
  <1>1. made[pair] \in Seq([at : Nat, seen : [Points -> Nat], batch : SUBSET DOMAIN outbox])
    BY DEF Evaluated
  <1>2. made[pair][i] \in [at : Nat, seen : [Points -> Nat], batch : SUBSET DOMAIN outbox]
    BY <1>1, Element
  <1> QED BY <1>2

\* The latest device time of some items that are not all new.
LEMMA SomeLatestKept ==
    ASSUME HistoryInv, SomeLatest, NEW f \in DOMAIN Frames, Insert(f)
    PROVE  SomeLatest'
  <1> DEFINE new == Len(outbox) + 1
  <1>1. /\ DOMAIN outbox' = DOMAIN outbox \cup {new}
        /\ \A id \in DOMAIN outbox : outbox'[id] = outbox[id]
        /\ outbox' \in Seq([frame : DOMAIN Frames, received : 0 .. MaxNow,
                            row : [point : Points, time : Nat]])
    BY InsertEffect DEF HistoryInv
  <1>2. \A id \in DOMAIN outbox' : outbox'[id].row.time \in Nat
    <2>1. \A id \in DOMAIN outbox' : outbox'[id] \in
             [frame : DOMAIN Frames, received : 0 .. MaxNow,
              row : [point : Points, time : Nat]]
      BY <1>1, Element
    <2> QED BY <2>1
  <1> HIDE DEF new
  <1>3. SUFFICES ASSUME NEW ids \in SUBSET DOMAIN outbox', ids # {}
                 PROVE  \E x \in ids : \A y \in ids :
                           outbox'[y].row.time <= outbox'[x].row.time
    BY DEF SomeLatest, Time
  <1>4. CASE ids \ {new} = {}
    <2>1. ids = {new} /\ outbox'[new].row.time \in Nat
      BY <1>1, <1>2, <1>3, <1>4
    <2> QED BY <2>1
  <1>5. CASE ids \ {new} # {}
    <2>1. ids \ {new} \in SUBSET DOMAIN outbox
      BY <1>1
    <2>2. PICK x \in ids \ {new} : \A y \in ids \ {new} : Time(y) <= Time(x)
      BY <1>5, <2>1 DEF SomeLatest
    <2>3. \A y \in ids \ {new} : outbox'[y].row.time <= outbox'[x].row.time
      BY <1>1, <2>1, <2>2 DEF Time
    <2>4. CASE new \in ids /\ outbox'[x].row.time <= outbox'[new].row.time
      <3>1. \A y \in ids : outbox'[y].row.time <= outbox'[new].row.time
        <4> TAKE y \in ids
        <4>1. outbox'[y].row.time \in Nat /\ outbox'[x].row.time \in Nat
              /\ outbox'[new].row.time \in Nat
          BY <1>2, <2>4
        <4>2. y = new \/ outbox'[y].row.time <= outbox'[x].row.time
          BY <2>3
        <4> QED BY <2>4, <4>1, <4>2
      <3> QED BY <2>4, <3>1
    <2>5. CASE ~(new \in ids /\ outbox'[x].row.time <= outbox'[new].row.time)
      <3>1. \A y \in ids : outbox'[y].row.time <= outbox'[x].row.time
        <4> TAKE y \in ids
        <4>1. outbox'[y].row.time \in Nat /\ outbox'[x].row.time \in Nat
          BY <1>2
        <4>2. CASE y = new
          BY <2>5, <4>1, <4>2
        <4>3. CASE y # new
          BY <2>3, <4>3
        <4> QED BY <4>2, <4>3
      <3> QED BY <3>1
    <2> QED BY <2>4, <2>5
  <1> QED BY <1>4, <1>5

\* A step that leaves evaluation alone keeps what was said of it.
LEMMA EvaluationKept ==
    ASSUME IInv, History, now' \in 0 .. MaxNow, now <= now',
           outbox' \in Seq([frame : DOMAIN Frames, received : 0 .. MaxNow,
                            row : [point : Points, time : Nat]]),
           commits' \in Seq([frame : DOMAIN Frames, at : 0 .. MaxNow]),
           UNCHANGED <<done, evaluations, drain, failures>>
    PROVE  /\ TypeOK' /\ DoneInOrder' /\ DrainInOrder'
           /\ Complete(evaluations, done)'
           /\ drain'.phase # "idle" => Complete(drain.evaluations, done \cup drain.marked)'
  <1>1. HistoryInv /\ now' \in Nat
    BY WatermarkAssumption DEF IInv, HistoryInv
  <1>2. /\ DOMAIN outbox \subseteq DOMAIN outbox'
        /\ \A id \in DOMAIN outbox : outbox'[id] = outbox[id]
        /\ Visible \subseteq Visible'
    BY <1>1, HistoryEffect
  <1>3. \A id \in drain.pending : id \in DOMAIN outbox /\ Time(id)' = Time(id)
    BY <1>2 DEF IInv, TypeOK, Visible, Time
  <1>4. drain.marked \subseteq drain.pending /\ done \subseteq Visible
    BY DEF IInv, TypeOK
  <1>5. {Time(id) : id \in drain.pending \ drain.marked}'
          = {Time(id) : id \in drain.pending \ drain.marked}
    BY <1>3
  <1>6. TypeOK'
    <2>1. drain \in [phase : {"idle", "read", "frames"}, pending : SUBSET (Visible' \ done),
                     times : SUBSET Nat, clock : 0 .. now', marked : SUBSET DOMAIN outbox',
                     evaluations : [DOMAIN Pairs -> Evaluated]']
      <3>1. drain.clock \in 0 .. now'
        BY WatermarkAssumption DEF IInv, TypeOK
      <3>2. drain.evaluations \in [DOMAIN Pairs -> Evaluated]'
        BY <1>2, EvaluatedGrows DEF IInv, TypeOK
      <3>3. drain.pending \subseteq Visible' \ done /\ drain.marked \subseteq DOMAIN outbox'
        BY <1>2 DEF IInv, TypeOK
      <3> QED BY <3>1, <3>2, <3>3 DEF IInv, TypeOK
    <2>2. evaluations \in [DOMAIN Pairs -> Evaluated]'
      BY <1>2, EvaluatedGrows DEF IInv, TypeOK
    <2>3. drain.times \subseteq {Time(id) : id \in drain.pending \ drain.marked}'
      BY <1>5 DEF IInv, TypeOK
    <2>4. done \subseteq Visible' /\ failures' \in 0 .. MaxFailures
      BY <1>2, <1>4 DEF IInv, TypeOK
    <2> QED BY <1>4, <2>1, <2>2, <2>3, <2>4 DEF TypeOK
  <1>7. DoneInOrder'
    <2> SUFFICES ASSUME NEW x \in done, NEW y \in Visible', Before(y, x)', Time(y)' < Time(x)'
                 PROVE  y \in done
      BY DEF DoneInOrder
    <2>1. y \in Visible /\ Before(y, x) /\ x \in Visible
      BY <1>1, <1>4, BeforeKept
    <2>2. Time(y) < Time(x)
      BY <1>2, <2>1 DEF Visible, Time
    <2> QED BY <2>1, <2>2 DEF IInv, DoneInOrder
  <1>8. DrainInOrder'
    <2>1. ASSUME NEW x \in drain.pending, NEW y \in Visible' \ done, Before(y, x)'
          PROVE  y \in drain.pending
      <3>1. x \in Visible
        BY DEF IInv, TypeOK
      <3>2. y \in Visible /\ Before(y, x)
        BY <1>1, <2>1, <3>1, BeforeKept
      <3> QED BY <2>1, <3>2 DEF IInv, DrainInOrder
    <2>2. ASSUME NEW x \in drain.marked, NEW y \in drain.pending, Time(y)' <= Time(x)'
          PROVE  y \in drain.marked
      BY <1>3, <1>4, <2>2 DEF IInv, DrainInOrder
    <2> QED BY <1>5, <2>1, <2>2 DEF IInv, DrainInOrder, NoDrain
  <1>9. Complete(evaluations, done)'
    <2>1. \A pair \in DOMAIN Pairs : \A i \in DOMAIN evaluations[pair] :
             evaluations[pair][i].batch \subseteq DOMAIN outbox
      BY BatchType DEF IInv, TypeOK
    <2> QED BY <1>1, <1>4, <2>1, CompleteKept DEF IInv
  <1>10. ASSUME drain.phase # "idle"
         PROVE  Complete(drain.evaluations, done \cup drain.marked)'
    <2>1. \A pair \in DOMAIN Pairs : \A i \in DOMAIN drain.evaluations[pair] :
             drain.evaluations[pair][i].batch \subseteq DOMAIN outbox
      <3>1. drain.evaluations \in [DOMAIN Pairs -> Evaluated]
        BY DEF IInv, TypeOK
      <3> QED BY <3>1, BatchType
    <2>2. done \cup drain.marked \subseteq Visible
      BY <1>4 DEF IInv, TypeOK
    <2> QED BY <1>1, <1>10, <2>1, <2>2, CompleteKept DEF IInv
  <1> QED BY <1>6, <1>7, <1>8, <1>9, <1>10

LEMMA TickKeeps == ASSUME IInv, Tick PROVE IInv'
  <1>1. now' \in 0 .. MaxNow /\ now <= now' /\ now' \in Nat
    BY WatermarkAssumption DEF IInv, TypeOK, Tick
  <1>2. History /\ UNCHANGED <<outbox, commits, done, evaluations, drain, failures>>
    BY DEF Tick, History
  <1>3. CommitsOnce' /\ CommitsWhole' /\ SomeLatest'
    BY <1>2 DEF IInv, CommitsOnce, CommitsWhole, SomeLatest, Committed, Inserted, Time
  <1>4. \A i \in DOMAIN commits' : commits'[i].at <= now'
    <2>1. \A i \in DOMAIN commits : commits[i] \in [frame : DOMAIN Frames, at : 0 .. MaxNow]
      BY Element DEF IInv, TypeOK
    <2> QED BY <1>1, <1>2, <2>1, WatermarkAssumption DEF IInv, TypeOK
  <1>5. TypeOK
    BY DEF IInv
  <1> QED BY <1>1, <1>2, <1>3, <1>4, <1>5, EvaluationKept DEF IInv, TypeOK

LEMMA InsertKeeps == ASSUME IInv, NEW f \in DOMAIN Frames, Insert(f) PROVE IInv'
  <1>1. History /\ HistoryInv /\ now' = now
        /\ UNCHANGED <<commits, done, evaluations, drain, failures>>
    BY DEF IInv, HistoryInv, History, Insert
  <1>2. TypeOK /\ now \in 0 .. MaxNow /\ now \in Nat /\ now <= now
    BY WatermarkAssumption DEF IInv, TypeOK
  <1>3. CommitsOnce'
    BY <1>1 DEF IInv, CommitsOnce
  <1>4. CommitsWhole'
    <2> SUFFICES ASSUME NEW g \in Committed' PROVE Inserted(g)' = Len(Frames[g])
      BY DEF CommitsWhole
    <2>1. g \in Committed /\ g # f
      BY <1>1, InsertEffect DEF HistoryInv
    <2>2. {id \in DOMAIN outbox : outbox[id].frame = g}'
            = {id \in DOMAIN outbox : outbox[id].frame = g}
      BY <1>1, <2>1, InsertEffect DEF HistoryInv
    <2> QED BY <2>1, <2>2 DEF IInv, CommitsWhole, Inserted
  <1>5. SomeLatest'
    BY <1>1, SomeLatestKept DEF IInv
  <1>6. outbox' \in Seq([frame : DOMAIN Frames, received : 0 .. MaxNow,
                         row : [point : Points, time : Nat]])
    BY <1>1, InsertEffect DEF HistoryInv
  <1>7. commits' \in Seq([frame : DOMAIN Frames, at : 0 .. MaxNow])
    BY <1>1, <1>2 DEF TypeOK
  <1> QED BY <1>1, <1>2, <1>3, <1>4, <1>5, <1>6, <1>7, EvaluationKept DEF IInv

LEMMA CommitKeeps == ASSUME IInv, NEW f \in DOMAIN Frames, Commit(f) PROVE IInv'
  <1>1. History /\ HistoryInv /\ now' = now /\ Inserted(f) = Len(Frames[f])
        /\ UNCHANGED <<outbox, done, evaluations, drain, failures>>
    BY DEF IInv, HistoryInv, History, Commit
  <1>2. TypeOK /\ now \in 0 .. MaxNow /\ now \in Nat /\ now <= now
    BY WatermarkAssumption DEF IInv, TypeOK
  <1>3. CommitsOnce'
    BY CommitEffect DEF IInv
  <1>4. CommitsWhole'
    <2>1. Committed' = Committed \cup {f}
      BY CommitEffect DEF IInv
    <2>2. \A g : Inserted(g)' = Inserted(g)
      BY <1>1 DEF Inserted
    <2> QED BY <1>1, <2>1, <2>2 DEF IInv, CommitsWhole
  <1>5. SomeLatest'
    BY <1>1 DEF IInv, SomeLatest, Time
  <1>6. commits' \in Seq([frame : DOMAIN Frames, at : 0 .. MaxNow])
    BY CommitEffect DEF IInv
  <1>7. outbox' \in Seq([frame : DOMAIN Frames, received : 0 .. MaxNow,
                         row : [point : Points, time : Nat]])
    BY <1>1, <1>2 DEF TypeOK
  <1>8. \A i \in DOMAIN commits' : commits'[i].at <= now
    <2>1. /\ DOMAIN commits' = DOMAIN commits \cup {Len(commits) + 1}
          /\ \A i \in DOMAIN commits : commits'[i] = commits[i]
          /\ commits'[Len(commits) + 1] = [frame |-> f, at |-> now]
      BY CommitEffect DEF IInv
    <2> QED BY <1>2, <2>1 DEF IInv
  <1> QED BY <1>1, <1>2, <1>3, <1>4, <1>5, <1>6, <1>7, <1>8, EvaluationKept DEF IInv

-------------------------------------------------------------------------------
(* Steps of drain. *)

LEMMA HistorySame ==
    ASSUME IInv, UNCHANGED <<now, outbox, commits>>
    PROVE  /\ CommitsOnce' /\ CommitsWhole' /\ SomeLatest'
           /\ \A i \in DOMAIN commits' : commits'[i].at <= now'
           /\ Visible' = Visible /\ Evaluated' = Evaluated
           /\ \A id : Time(id)' = Time(id)
           /\ \A x, y : Before(y, x)' <=> Before(y, x)
           /\ \A made \in [DOMAIN Pairs -> Evaluated], handled \in SUBSET Visible :
                 Complete(made, handled) => Complete(made, handled)'
  <1>1. Visible' = Visible /\ Evaluated' = Evaluated /\ \A id : Time(id)' = Time(id)
    BY DEF Visible, Committed, Evaluated, Time
  <1>2. \A x, y : Before(y, x)' <=> Before(y, x)
    BY DEF Before, Committing
  <1>3. CommitsOnce' /\ CommitsWhole' /\ SomeLatest'
    BY DEF IInv, CommitsOnce, CommitsWhole, SomeLatest, Committed, Inserted, Time
  <1>4. ASSUME NEW made \in [DOMAIN Pairs -> Evaluated], NEW handled \in SUBSET Visible,
               Complete(made, handled)
        PROVE  Complete(made, handled)'
    <2>1. HistoryInv /\ History /\ now' \in Nat /\ now <= now'
      BY WatermarkAssumption DEF IInv, HistoryInv, History, TypeOK
    <2>2. \A pair \in DOMAIN Pairs : \A i \in DOMAIN made[pair] :
             made[pair][i].batch \subseteq DOMAIN outbox
      BY BatchType
    <2> QED BY <1>4, <2>1, <2>2, CompleteKept
  <1> QED BY <1>1, <1>2, <1>3, <1>4 DEF IInv

\* Of the items that are waiting, a drain takes the first.
LEMMA FirstTaken ==
    ASSUME TypeOK, NEW x \in Waiting, NEW y \in Waiting, y < x,
           Cardinality({j \in Waiting : j < x}) < BatchSize
    PROVE  Cardinality({j \in Waiting : j < y}) < BatchSize
  <1>1. Waiting \subseteq 1 .. Len(outbox) /\ Len(outbox) \in Nat
    BY DEF Waiting, Visible, TypeOK
  <1>2. IsFiniteSet(1 .. Len(outbox))
    BY <1>1, FS_Interval
  <1>3. IsFiniteSet({j \in Waiting : j < x}) /\ IsFiniteSet({j \in Waiting : j < y})
    <2>1. {j \in Waiting : j < x} \in SUBSET (1 .. Len(outbox))
      BY <1>1
    <2>2. {j \in Waiting : j < y} \in SUBSET (1 .. Len(outbox))
      BY <1>1
    <2> QED BY <1>2, <2>1, <2>2, FS_Subset
  <1>4. {j \in Waiting : j < y} \in SUBSET {j \in Waiting : j < x}
    <2>1. \A j \in Waiting : j \in Nat
      BY <1>1
    <2> QED BY <2>1
  <1>5. Cardinality({j \in Waiting : j < y}) <= Cardinality({j \in Waiting : j < x})
    BY <1>3, <1>4, FS_Subset
  <1>6. Cardinality({j \in Waiting : j < x}) \in Nat /\ Cardinality({j \in Waiting : j < y}) \in Nat
    BY <1>3, FS_CardinalityType
  <1> QED BY <1>5, <1>6, BatchSizeAssumption

LEMMA StartKeeps == ASSUME IInv, Start PROVE IInv'
  <1> DEFINE taken == {id \in Waiting : Cardinality({j \in Waiting : j < id}) < BatchSize}
  <1>1. UNCHANGED <<now, outbox, commits, done, evaluations, failures>>
    BY DEF Start
  <1>2. /\ drain'.phase = "read" /\ drain'.pending = taken /\ drain'.times = {}
        /\ drain'.clock = 0 /\ drain'.marked = {} /\ drain'.evaluations = evaluations
        /\ drain' = [phase |-> "read", pending |-> taken, times |-> {}, clock |-> 0,
                     marked |-> {}, evaluations |-> evaluations]
    BY DEF Start, NoDrain
  <1>3. taken \subseteq Visible \ done
    BY DEF Waiting
  <1>4. TypeOK'
    <2>1. drain' \in [phase : {"idle", "read", "frames"}, pending : SUBSET (Visible' \ done'),
                      times : SUBSET Nat, clock : 0 .. now', marked : SUBSET DOMAIN outbox',
                      evaluations : [DOMAIN Pairs -> Evaluated]']
      <3> HIDE DEF taken
      <3> QED BY <1>1, <1>2, <1>3, HistorySame, WatermarkAssumption DEF IInv, TypeOK
    <2> QED BY <1>1, <1>2, <2>1, HistorySame DEF IInv, TypeOK
  <1>5. DrainInOrder'
    <2>1. ASSUME NEW x \in taken, NEW y \in Visible \ done, Before(y, x)
          PROVE  y \in taken
      <3>1. y \in Waiting /\ y < x /\ TypeOK
        BY <2>1 DEF Waiting, Before, IInv
      <3> QED BY <2>1, <3>1, FirstTaken
    <2> HIDE DEF taken
    <2> QED BY <1>1, <1>2, <2>1, HistorySame DEF DrainInOrder
  <1>6. DoneInOrder'
    BY <1>1, HistorySame DEF IInv, DoneInOrder
  <1>7. Complete(evaluations, done)' /\ Complete(drain.evaluations, done \cup drain.marked)'
    <2>1. evaluations \in [DOMAIN Pairs -> Evaluated] /\ done \in SUBSET Visible
          /\ Complete(evaluations, done)
      BY DEF IInv, TypeOK
    <2>2. done' \cup drain'.marked = done
      BY <1>1, <1>2
    <2> QED BY <1>1, <1>2, <2>1, <2>2, HistorySame
  <1> QED BY <1>1, <1>4, <1>5, <1>6, <1>7, HistorySame DEF IInv

LEMMA SortKeeps == ASSUME IInv, Sort PROVE IInv'
  <1> DEFINE times == {Time(id) : id \in drain.pending}
  <1>1. UNCHANGED <<now, outbox, commits, done, evaluations, failures>>
    BY DEF Sort
  <1>2. /\ drain'.phase = "frames" /\ drain'.pending = drain.pending
        /\ drain'.times = times /\ drain'.clock = now /\ drain'.marked = drain.marked
        /\ drain'.evaluations = drain.evaluations
        /\ drain' = [phase |-> "frames", pending |-> drain.pending, times |-> times,
                     clock |-> now, marked |-> drain.marked,
                     evaluations |-> drain.evaluations]
    BY DEF Sort, IInv, TypeOK
  <1>3. drain.marked = {} /\ drain.phase = "read"
    BY DEF Sort, IInv, DrainInOrder
  <1>4. times = {Time(id) : id \in drain.pending \ drain.marked} /\ times \subseteq Nat
    <2>1. \A id \in drain.pending : Time(id) \in Nat
      BY ItemType DEF IInv, TypeOK, Visible
    <2> QED BY <1>3, <2>1
  <1> HIDE DEF times
  <1>5. TypeOK'
    <2>1. drain' \in [phase : {"idle", "read", "frames"}, pending : SUBSET (Visible' \ done'),
                      times : SUBSET Nat, clock : 0 .. now', marked : SUBSET DOMAIN outbox',
                      evaluations : [DOMAIN Pairs -> Evaluated]']
      BY <1>1, <1>2, <1>4, HistorySame, WatermarkAssumption DEF IInv, TypeOK
    <2>2. {Time(id) : id \in drain.pending \ drain.marked}' = times
      BY <1>1, <1>2, <1>4, HistorySame
    <2> QED BY <1>1, <1>2, <2>1, <2>2, HistorySame DEF IInv, TypeOK
  <1>6. DrainInOrder'
    <2>1. {Time(id) : id \in drain.pending \ drain.marked}' = times
      BY <1>1, <1>2, <1>4, HistorySame
    <2> QED BY <1>1, <1>2, <2>1, HistorySame DEF IInv, DrainInOrder
  <1>7. DoneInOrder'
    BY <1>1, HistorySame DEF IInv, DoneInOrder
  <1>8. Complete(evaluations, done)'
    BY <1>1, HistorySame DEF IInv, TypeOK
  <1>9. Complete(drain.evaluations, done \cup drain.marked)'
    <2>1. /\ drain.evaluations \in [DOMAIN Pairs -> Evaluated]
          /\ done \cup drain.marked \in SUBSET Visible
          /\ Complete(drain.evaluations, done \cup drain.marked)
      BY <1>3 DEF IInv, TypeOK
    <2> QED BY <1>1, <1>2, <2>1, HistorySame
  <1> QED BY <1>1, <1>5, <1>6, <1>7, <1>8, <1>9, HistorySame DEF IInv

\* Nobody drains.
LEMMA IdleKeeps ==
    ASSUME IInv, UNCHANGED <<now, outbox, commits>>, drain' = NoDrain,
           done' \subseteq Visible, evaluations' \in [DOMAIN Pairs -> Evaluated],
           failures' \in 0 .. MaxFailures, DoneInOrder', Complete(evaluations, done)'
    PROVE  IInv'
  <1>1. now \in Nat
    BY WatermarkAssumption DEF IInv, TypeOK
  <1>2. <<>> \in Evaluated
    BY DEF Evaluated
  <1>3. NoDrain \in [phase : {"idle", "read", "frames"}, pending : SUBSET (Visible \ done'),
                     times : SUBSET Nat, clock : 0 .. now, marked : SUBSET DOMAIN outbox,
                     evaluations : [DOMAIN Pairs -> Evaluated]]
    BY <1>1, <1>2 DEF NoDrain
  <1>4. NoDrain.times = {} /\ NoDrain.marked = {} /\ NoDrain.pending = {} /\ NoDrain.phase = "idle"
    BY DEF NoDrain
  <1>5. TypeOK'
    BY <1>3, <1>4, HistorySame DEF IInv, TypeOK
  <1>6. DrainInOrder'
    BY <1>4, HistorySame DEF DrainInOrder, NoDrain
  <1> QED BY <1>4, <1>5, <1>6, HistorySame DEF IInv

LEMMA FailKeeps == ASSUME IInv, Fail PROVE IInv'
  <1>1. UNCHANGED <<now, outbox, commits, done, evaluations>> /\ drain' = NoDrain
        /\ failures' \in 0 .. MaxFailures
    BY FailuresAssumption DEF Fail, IInv, TypeOK
  <1>2. DoneInOrder'
    BY <1>1, HistorySame DEF IInv, DoneInOrder
  <1>3. Complete(evaluations, done)'
    BY <1>1, HistorySame DEF IInv, TypeOK
  <1> QED BY <1>1, <1>2, <1>3, IdleKeeps DEF IInv, TypeOK

LEMMA FinishKeeps == ASSUME IInv, Finish PROVE IInv'
  <1>1. /\ UNCHANGED <<now, outbox, commits, failures>> /\ drain' = NoDrain
        /\ done' = done \cup drain.marked /\ evaluations' = drain.evaluations
        /\ drain.phase = "frames"
    BY DEF Finish
  <1>2. /\ drain.evaluations \in [DOMAIN Pairs -> Evaluated]
        /\ done \cup drain.marked \in SUBSET Visible
        /\ drain.marked \subseteq drain.pending /\ drain.pending \subseteq Visible \ done
    BY DEF IInv, TypeOK
  <1>3. DoneInOrder'
    <2> SUFFICES ASSUME NEW x \in done \cup drain.marked, NEW y \in Visible,
                        Before(y, x), Time(y) < Time(x)
                 PROVE  y \in done \cup drain.marked
      BY <1>1, HistorySame DEF DoneInOrder
    <2>1. CASE x \in done
      BY <2>1 DEF IInv, DoneInOrder
    <2>2. CASE x \in drain.marked
      <3>1. y \in done \/ y \in drain.pending
        BY <1>2, <2>2 DEF IInv, DrainInOrder
      <3>2. Time(y) \in Nat /\ Time(x) \in Nat
        BY <1>2, ItemType DEF IInv, Visible
      <3>3. Time(y) <= Time(x)
        BY <3>2
      <3> QED BY <2>2, <3>1, <3>3 DEF IInv, DrainInOrder
    <2> QED BY <2>1, <2>2
  <1>4. Complete(evaluations, done)'
    <2>1. Complete(drain.evaluations, done \cup drain.marked)
      BY <1>1 DEF IInv
    <2> QED BY <1>1, <1>2, <2>1, HistorySame
  <1> QED BY <1>1, <1>2, <1>3, <1>4, IdleKeeps DEF IInv, TypeOK

-------------------------------------------------------------------------------
(* One device time. *)

\* The device times a snapshot chooses from.
SeenTimes(points, point, at) ==
    {0} \cup {Time(id) : id \in {j \in Visible :
        point \in points /\ outbox[j].row.point = point /\ Time(j) <= at}}

LEMMA SnapshotIs ==
    ASSUME NEW points, NEW at
    PROVE  Snapshot(points, at) = [p \in Points |-> Max(SeenTimes(points, p, at))]
  BY DEF Snapshot, SeenTimes

LEMMA MaxIs ==
    ASSUME NEW S \in SUBSET Nat, NEW x \in S, \A y \in S : y <= x
    PROVE  Max(S) = x
  <1>1. \A z \in S : (\A y \in S : z >= y) => z = x
    OBVIOUS
  <1>2. \A y \in S : x >= y
    OBVIOUS
  <1> QED BY <1>1, <1>2 DEF Max

LEMMA SnapshotType ==
    ASSUME TypeOK, SomeLatest, NEW points, NEW at
    PROVE  Snapshot(points, at) \in [Points -> Nat]
  <1> SUFFICES ASSUME NEW p \in Points PROVE Max(SeenTimes(points, p, at)) \in Nat
    BY SnapshotIs
  <1> DEFINE ids == {j \in Visible :
                        p \in points /\ outbox[j].row.point = p /\ Time(j) <= at}
  <1>1. SeenTimes(points, p, at) = {0} \cup {Time(id) : id \in ids}
    BY DEF SeenTimes
  <1>2. ids \in SUBSET DOMAIN outbox
    BY DEF Visible
  <1>3. \A id \in ids : Time(id) \in Nat
    BY <1>2, ItemType
  <1> HIDE DEF ids
  <1>4. SeenTimes(points, p, at) \in SUBSET Nat
    BY <1>1, <1>3
  <1>5. \E x \in SeenTimes(points, p, at) : \A y \in SeenTimes(points, p, at) : y <= x
    <2>1. CASE ids = {}
      <3>1. SeenTimes(points, p, at) = {0}
        BY <1>1, <2>1
      <3> QED BY <3>1
    <2>2. CASE ids # {}
      <3>1. PICK x \in ids : \A y \in ids : Time(y) <= Time(x)
        BY <1>2, <2>2 DEF SomeLatest
      <3>2. Time(x) \in SeenTimes(points, p, at)
        BY <1>1
      <3>3. \A y \in SeenTimes(points, p, at) : y <= Time(x)
        BY <1>1, <1>3, <3>1
      <3> QED BY <3>2, <3>3
    <2> QED BY <2>1, <2>2
  <1> QED BY <1>4, <1>5, MaxIs

\* A row of the device time is the latest of its point.
LEMMA SnapshotSees ==
    ASSUME TypeOK, NEW points, NEW id \in Visible, outbox[id].row.point \in points
    PROVE  Snapshot(points, Time(id))[outbox[id].row.point] = Time(id)
  <1> DEFINE point == outbox[id].row.point
             at == Time(id)
             ids == {j \in Visible :
                       point \in points /\ outbox[j].row.point = point /\ Time(j) <= at}
  <1>1. point \in Points /\ at \in Nat
    BY ItemType DEF Visible
  <1>2. SeenTimes(points, point, at) = {0} \cup {Time(j) : j \in ids}
    BY DEF SeenTimes
  <1>3. \A j \in ids : Time(j) \in Nat /\ Time(j) <= at
    BY ItemType DEF Visible
  <1>4. id \in ids
    BY <1>1
  <1> HIDE DEF ids
  <1>5. at \in SeenTimes(points, point, at) /\ SeenTimes(points, point, at) \in SUBSET Nat
        /\ \A y \in SeenTimes(points, point, at) : y <= at
    BY <1>1, <1>2, <1>3, <1>4
  <1>6. Max(SeenTimes(points, point, at)) = at
    BY <1>5, MaxIs
  <1> QED BY <1>1, <1>6, SnapshotIs

\* The frame that is evaluated is sound.
LEMMA FrameSound ==
    ASSUME IInv, NEW pair \in DOMAIN Pairs, NEW at \in drain.times,
           NEW batch, batch = {id \in drain.pending : Time(id) = at},
           ~Recent(batch), Candidate(pair, batch, at), NEW handled, batch \subseteq handled
    PROVE  Sound(pair, [at |-> at, seen |-> Snapshot(Pairs[pair].points, at),
                        batch |-> batch], handled)
  <1> DEFINE frame == [at |-> at, seen |-> Snapshot(Pairs[pair].points, at), batch |-> batch]
  <1>1. \A id \in batch : id \in DOMAIN outbox /\ Time(id) = at
    BY DEF IInv, TypeOK, Visible
  <1>2. \E id \in batch \cap handled :
          outbox[id].row.point \in Pairs[pair].points /\ Time(id) = at
    BY <1>1 DEF Candidate
  <1>3. \A first \in batch : outbox[first].received + Watermark <= now
    <2> TAKE first \in batch
    <2>1. outbox[first].received \in Nat
      BY <1>1, ItemType DEF IInv
    <2>2. ~(outbox[first].received + Watermark > drain.clock)
      BY DEF Recent
    <2>3. drain.clock \in 0 .. now /\ now \in Nat
      BY WatermarkAssumption DEF IInv, TypeOK
    <2> QED BY <2>1, <2>2, <2>3, WatermarkAssumption
  <1>4. \A id \in ItemsOf(pair, at) :
          Snapshot(Pairs[pair].points, at)[outbox[id].row.point] = at
    <2> TAKE id \in ItemsOf(pair, at)
    <2>1. id \in Visible /\ outbox[id].row.point \in Pairs[pair].points /\ Time(id) = at
      BY DEF ItemsOf
    <2> QED BY <2>1, SnapshotSees DEF IInv
  <1>5. frame.at = at /\ frame.batch = batch /\ frame.seen = Snapshot(Pairs[pair].points, at)
    OBVIOUS
  <1> HIDE DEF frame
  <1>6. Sound(pair, frame, handled)
    BY <1>2, <1>3, <1>4, <1>5 DEF Sound, Collected
  <1> QED BY <1>6 DEF frame

\* What the pair should be evaluated for is, now or before.
LEMMA FrameWanted ==
    ASSUME IInv, NEW pair \in DOMAIN Pairs, NEW at \in drain.times,
           drain.phase # "idle", \A other \in drain.times : at <= other,
           NEW batch, batch = {id \in drain.pending : Time(id) = at},
           NEW id \in batch, Wanted(id, pair)
    PROVE  /\ Candidate(pair, batch, at)
           /\ LET before == drain.evaluations[pair]
              IN  before # <<>> /\ ~(at > before[Len(before)].at)
                    => before[Len(before)].at = at
  <1>1. Candidate(pair, batch, at)
    BY DEF Wanted, Candidate
  <1> DEFINE before == drain.evaluations[pair]
             last == before[Len(before)]
  <1>2. ASSUME before # <<>>, ~(at > last.at) PROVE last.at = at
    <2>1. drain.evaluations \in [DOMAIN Pairs -> Evaluated]
      BY DEF IInv, TypeOK
    <2>2. Len(before) \in DOMAIN before
      BY <1>2, <2>1 DEF Evaluated
    <2>3. last.at \in Nat /\ at \in Nat
      BY <2>1, <2>2, BatchType DEF IInv, TypeOK
    <2>4. Sound(pair, last, done \cup drain.marked)
      BY <2>2 DEF IInv, Complete
    <2>5. PICK x \in last.batch \cap (done \cup drain.marked) :
            outbox[x].row.point \in Pairs[pair].points /\ Time(x) = last.at
      BY <2>4 DEF Sound
    <2>6. x \in Visible /\ id \in Visible /\ id \notin done /\ id \in drain.pending
          /\ Time(id) = at
      BY <2>5 DEF IInv, TypeOK
    <2>7. SUFFICES ASSUME at < last.at PROVE FALSE
      BY <1>2, <2>3
    <2>8. Before(id, x)
      BY <2>5, <2>6, <2>7, <2>3 DEF Wanted, InOrder, Before
    <2>9. x \notin done
      BY <2>5, <2>6, <2>7, <2>8 DEF IInv, DoneInOrder
    <2>10. x \in drain.marked
      BY <2>5, <2>9
    <2>11. PICK y \in drain.pending \ drain.marked : Time(y) = at
      BY DEF IInv, DrainInOrder
    <2>12. Time(y) <= Time(x)
      BY <2>3, <2>5, <2>7, <2>11
    <2> QED BY <2>10, <2>11, <2>12 DEF IInv, DrainInOrder
  <1> QED BY <1>1, <1>2

LEMMA FrameComplete ==
    ASSUME IInv, NEW at \in drain.times,
           drain.phase # "idle", \A other \in drain.times : at <= other,
           NEW batch, batch = {id \in drain.pending : Time(id) = at}, ~Recent(batch)
    PROVE  /\ [pair \in DOMAIN Pairs |-> Evaluate(pair, batch, at)]
                \in [DOMAIN Pairs -> Evaluated]
           /\ Complete([pair \in DOMAIN Pairs |-> Evaluate(pair, batch, at)],
                       done \cup drain.marked \cup batch)
  <1> DEFINE made == [pair \in DOMAIN Pairs |-> Evaluate(pair, batch, at)]
             handled == done \cup drain.marked \cup batch
             before(pair) == drain.evaluations[pair]
             frame(pair) == [at |-> at, seen |-> Snapshot(Pairs[pair].points, at),
                             batch |-> batch]
             new(pair) == /\ Candidate(pair, batch, at)
                          /\ before(pair) # <<>> =>
                                at > before(pair)[Len(before(pair))].at
  <1>1. drain.evaluations \in [DOMAIN Pairs -> Evaluated]
    BY DEF IInv, TypeOK
  <1>2. \A pair \in DOMAIN Pairs :
          made[pair] = IF new(pair) THEN Append(before(pair), frame(pair)) ELSE before(pair)
    BY DEF Evaluate
  <1>3. \A pair \in DOMAIN Pairs : frame(pair) \in
          [at : Nat, seen : [Points -> Nat], batch : SUBSET DOMAIN outbox]
    <2> TAKE pair \in DOMAIN Pairs
    <2>1. batch \subseteq DOMAIN outbox /\ at \in Nat
      BY DEF IInv, TypeOK, Visible
    <2>2. Snapshot(Pairs[pair].points, at) \in [Points -> Nat]
      BY SnapshotType DEF IInv
    <2> QED BY <2>1, <2>2
  <1>4. \A pair \in DOMAIN Pairs : frame(pair).at = at
    OBVIOUS
  <1>5. ASSUME NEW pair \in DOMAIN Pairs
        PROVE  /\ made[pair] \in Evaluated
               /\ \A i \in DOMAIN before(pair) :
                     i \in DOMAIN made[pair] /\ made[pair][i] = before(pair)[i]
               /\ \A i \in DOMAIN made[pair] \ DOMAIN before(pair) :
                     new(pair) /\ made[pair][i] = frame(pair)
               /\ new(pair) => \E i \in DOMAIN made[pair] : made[pair][i] = frame(pair)
    <2> HIDE DEF frame, new, made
    <2>1. before(pair) \in Evaluated /\ frame(pair) \in
            [at : Nat, seen : [Points -> Nat], batch : SUBSET DOMAIN outbox]
      BY <1>1, <1>3
    <2>2. CASE new(pair)
      <3>1. made[pair] = Append(before(pair), frame(pair))
        BY <1>2, <2>2
      <3>2. /\ Append(before(pair), frame(pair)) \in Evaluated
            /\ \A i \in DOMAIN before(pair) :
                  /\ i \in DOMAIN Append(before(pair), frame(pair))
                  /\ Append(before(pair), frame(pair))[i] = before(pair)[i]
            /\ \A i \in DOMAIN Append(before(pair), frame(pair)) \ DOMAIN before(pair) :
                  Append(before(pair), frame(pair))[i] = frame(pair)
            /\ Len(before(pair)) + 1 \in DOMAIN Append(before(pair), frame(pair))
            /\ Append(before(pair), frame(pair))[Len(before(pair)) + 1] = frame(pair)
        BY <2>1 DEF Evaluated
      <3> QED BY <2>2, <3>1, <3>2
    <2>3. CASE ~new(pair)
      <3>1. made[pair] = before(pair)
        BY <1>2, <2>3
      <3> QED BY <2>1, <2>3, <3>1
    <2> QED BY <2>2, <2>3
  <1>6. ASSUME NEW pair \in DOMAIN Pairs, NEW i \in DOMAIN made[pair]
        PROVE  Sound(pair, made[pair][i], handled)
    <2>1. CASE i \in DOMAIN before(pair)
      <3>1. Sound(pair, before(pair)[i], done \cup drain.marked)
        BY <2>1 DEF IInv, Complete
      <3>2. Sound(pair, before(pair)[i], handled)
        BY <3>1 DEF Sound
      <3> QED BY <1>5, <2>1, <3>2
    <2>2. CASE i \notin DOMAIN before(pair)
      <3>1. new(pair) /\ made[pair][i] = frame(pair)
        BY <1>5, <1>6, <2>2
      <3>2. Sound(pair, frame(pair), handled)
        BY <3>1, FrameSound
      <3> QED BY <3>1, <3>2
    <2> QED BY <2>1, <2>2
  <1>7. ASSUME NEW pair \in DOMAIN Pairs, NEW id \in handled, Wanted(id, pair)
        PROVE  \E i \in DOMAIN made[pair] : made[pair][i].at = Time(id)
    <2>1. CASE id \in done \cup drain.marked
      <3>1. PICK i \in DOMAIN before(pair) : before(pair)[i].at = Time(id)
        BY <1>7, <2>1 DEF IInv, Complete
      <3> QED BY <1>5, <3>1
    <2>2. CASE id \in batch
      <3>1. Time(id) = at
        BY <2>2
      <3>2. /\ Candidate(pair, batch, at)
            /\ before(pair) # <<>> /\ ~(at > before(pair)[Len(before(pair))].at)
                  => before(pair)[Len(before(pair))].at = at
        BY <1>7, <2>2, FrameWanted
      <3>3. CASE new(pair)
        BY <1>4, <1>5, <3>1, <3>3
      <3>4. CASE ~new(pair)
        <4>1. before(pair) # <<>> /\ before(pair)[Len(before(pair))].at = at
          BY <3>2, <3>4
        <4>2. Len(before(pair)) \in DOMAIN before(pair)
          BY <1>1, <4>1 DEF Evaluated
        <4> QED BY <1>5, <3>1, <4>1, <4>2
      <3> QED BY <3>3, <3>4
    <2> QED BY <2>1, <2>2
  <1>8. made \in [DOMAIN Pairs -> Evaluated]
    BY <1>5
  <1> HIDE DEF made, handled
  <1>9. Complete(made, handled)
    BY <1>6, <1>7 DEF Complete
  <1> QED BY <1>8, <1>9 DEF made, handled

LEMMA FrameKeeps == ASSUME IInv, Frame PROVE IInv'
  <1>1. PICK at \in drain.times :
          LET batch == {id \in drain.pending : Time(id) = at}
          IN  /\ \A other \in drain.times : at <= other
              /\ drain' =
                   IF Recent(batch) THEN [drain EXCEPT !.times = LeftOf(at)]
                   ELSE [drain EXCEPT
                           !.times = @ \ {at},
                           !.marked = @ \cup Marked(batch, at),
                           !.evaluations =
                               [pair \in DOMAIN Pairs |-> Evaluate(pair, batch, at)]]
              /\ UNCHANGED <<now, outbox, commits, done, evaluations, failures>>
    BY Zenon DEF Frame
  <1> DEFINE batch == {id \in drain.pending : Time(id) = at}
             made == [pair \in DOMAIN Pairs |-> Evaluate(pair, batch, at)]
  <1>2. UNCHANGED <<now, outbox, commits, done, evaluations, failures>>
    BY <1>1
  <1>3. /\ drain \in [phase : {"idle", "read", "frames"}, pending : SUBSET (Visible \ done),
                      times : SUBSET Nat, clock : 0 .. now, marked : SUBSET DOMAIN outbox,
                      evaluations : [DOMAIN Pairs -> Evaluated]]
        /\ drain.marked \subseteq drain.pending
        /\ drain.times = {Time(id) : id \in drain.pending \ drain.marked}
    BY DEF IInv, TypeOK, DrainInOrder
  <1>4. drain.phase = "frames"
    BY <1>3 DEF IInv, DrainInOrder, NoDrain
  <1>5. DoneInOrder' /\ Complete(evaluations, done)'
    BY <1>2, HistorySame DEF IInv, TypeOK, DoneInOrder
  <1>6. CASE Recent(batch)
    <2>1. drain' = [drain EXCEPT !.times = {}]
      BY <1>1, <1>6 DEF LeftOf
    <2>2. /\ drain'.phase = "frames" /\ drain'.pending = drain.pending /\ drain'.times = {}
          /\ drain'.marked = drain.marked /\ drain'.evaluations = drain.evaluations
          /\ drain' \in [phase : {"idle", "read", "frames"}, pending : SUBSET (Visible \ done),
                         times : SUBSET Nat, clock : 0 .. now, marked : SUBSET DOMAIN outbox,
                         evaluations : [DOMAIN Pairs -> Evaluated]]
      BY <1>3, <1>4, <2>1
    <2>3. TypeOK'
      BY <1>2, <1>3, <2>2, HistorySame DEF IInv, TypeOK
    <2>4. DrainInOrder'
      BY <1>2, <1>4, <2>2, HistorySame DEF IInv, DrainInOrder
    <2>5. Complete(drain.evaluations, done \cup drain.marked)'
      <3>1. /\ drain.evaluations \in [DOMAIN Pairs -> Evaluated]
            /\ done \cup drain.marked \in SUBSET Visible
            /\ Complete(drain.evaluations, done \cup drain.marked)
        BY <1>3, <1>4 DEF IInv, TypeOK
      <3> QED BY <1>2, <2>2, <3>1, HistorySame
    <2> QED BY <1>2, <1>5, <2>3, <2>4, <2>5, HistorySame DEF IInv
  <1>7. CASE ~Recent(batch)
    <2>1. drain' = [drain EXCEPT !.times = @ \ {at}, !.marked = @ \cup batch,
                                 !.evaluations = made]
      BY <1>1, <1>7 DEF Marked
    <2>2. made \in [DOMAIN Pairs -> Evaluated]
          /\ Complete(made, done \cup drain.marked \cup batch)
      BY <1>1, <1>4, <1>7, FrameComplete
    <2> HIDE DEF made
    <2>3. batch \subseteq drain.pending /\ drain.pending \subseteq DOMAIN outbox
          /\ \A id \in batch : Time(id) = at
      BY <1>3 DEF Visible
    <2>4. /\ drain'.phase = "frames" /\ drain'.pending = drain.pending
          /\ drain'.times = drain.times \ {at}
          /\ drain'.marked = drain.marked \cup batch /\ drain'.evaluations = made
          /\ drain' \in [phase : {"idle", "read", "frames"}, pending : SUBSET (Visible \ done),
                         times : SUBSET Nat, clock : 0 .. now, marked : SUBSET DOMAIN outbox,
                         evaluations : [DOMAIN Pairs -> Evaluated]]
      BY <1>3, <1>4, <2>1, <2>2, <2>3
    <2>5. drain.times \ {at} = {Time(id) : id \in drain.pending \ (drain.marked \cup batch)}
      BY <1>3
    <2>6. {Time(id) : id \in drain.pending \ drain.marked}' = drain'.times
      BY <1>2, <2>4, <2>5, HistorySame
    <2>7. TypeOK'
      BY <1>2, <1>3, <2>3, <2>4, <2>6, HistorySame DEF IInv, TypeOK
    <2>8. ASSUME NEW x \in drain.marked \cup batch, NEW y \in drain.pending,
                 Time(y) <= Time(x)
          PROVE  y \in drain.marked \cup batch
      <3>1. CASE x \in drain.marked
        BY <2>8, <3>1 DEF IInv, DrainInOrder
      <3>2. CASE x \in batch /\ y \notin drain.marked
        <4>1. Time(y) \in drain.times /\ Time(x) = at
          BY <1>3, <2>3, <3>2
        <4>2. Time(y) \in Nat /\ at \in Nat /\ at <= Time(y)
          BY <1>1, <1>3, <4>1
        <4>3. Time(y) = at
          BY <2>8, <4>1, <4>2
        <4> QED BY <4>3
      <3> QED BY <3>1, <3>2
    <2>9. DrainInOrder'
      <3>1. drain'.phase = "frames" /\ drain'.times = {Time(id) : id \in drain.pending \ drain.marked}'
        BY <2>4, <2>6
      <3>2. \A x \in drain'.pending, y \in Visible' \ done' :
               Before(y, x)' => y \in drain'.pending
        BY <1>2, <2>4, HistorySame DEF IInv, DrainInOrder
      <3>3. \A x \in drain'.marked, y \in drain'.pending :
               Time(y)' <= Time(x)' => y \in drain'.marked
        BY <1>2, <2>4, <2>8, HistorySame
      <3> QED BY <3>1, <3>2, <3>3 DEF DrainInOrder
    <2>10. Complete(drain.evaluations, done \cup drain.marked)'
      <3>1. done \cup drain.marked \cup batch \in SUBSET Visible
        BY <1>3, <2>3 DEF IInv, TypeOK
      <3>2. done' \cup drain'.marked = done \cup drain.marked \cup batch
        BY <1>2, <2>4
      <3> QED BY <1>2, <2>2, <2>4, <3>1, <3>2, HistorySame
    <2> QED BY <1>2, <1>5, <2>7, <2>9, <2>10, HistorySame DEF IInv
  <1> QED BY <1>6, <1>7

-------------------------------------------------------------------------------

LEMMA InvInit == Init => IInv
  <1> SUFFICES ASSUME Init PROVE IInv
    OBVIOUS
  <1>1. /\ now = 0 /\ outbox = <<>> /\ commits = <<>> /\ done = {}
        /\ evaluations = [pair \in DOMAIN Pairs |-> <<>>]
        /\ drain = NoDrain /\ failures = 0
    BY DEF Init
  <1>2. <<>> \in Evaluated /\ DOMAIN outbox = {} /\ DOMAIN commits = {} /\ Visible = {}
    BY <1>1 DEF Evaluated, Visible
  <1>3. NoDrain \in [phase : {"idle", "read", "frames"}, pending : SUBSET (Visible \ done),
                     times : SUBSET Nat, clock : 0 .. now, marked : SUBSET DOMAIN outbox,
                     evaluations : [DOMAIN Pairs -> Evaluated]]
    BY <1>1, <1>2 DEF NoDrain
  <1>4. NoDrain.times = {} /\ NoDrain.marked = {} /\ NoDrain.pending = {} /\ NoDrain.phase = "idle"
    BY DEF NoDrain
  <1>5. TypeOK
    BY <1>1, <1>2, <1>3, <1>4, WatermarkAssumption, FailuresAssumption DEF TypeOK
  <1>6. CommitsOnce /\ CommitsWhole /\ SomeLatest
    BY <1>2 DEF CommitsOnce, CommitsWhole, SomeLatest, Committed
  <1>7. DoneInOrder /\ DrainInOrder
    BY <1>1, <1>4 DEF DoneInOrder, DrainInOrder
  <1>8. Complete(evaluations, done)
    BY <1>1 DEF Complete
  <1> QED BY <1>1, <1>2, <1>4, <1>5, <1>6, <1>7, <1>8 DEF IInv

LEMMA InvStep == IInv /\ [Next]_vars => IInv'
  <1> SUFFICES ASSUME IInv, [Next]_vars PROVE IInv'
    OBVIOUS
  <1>1. CASE DrainStep
    BY <1>1, StartKeeps, SortKeeps, FrameKeeps, FinishKeeps DEF DrainStep
  <1>2. CASE \E f \in DOMAIN Frames : Insert(f) \/ Commit(f)
    BY <1>2, InsertKeeps, CommitKeeps
  <1>3. CASE UNCHANGED vars
    <2>1. History /\ UNCHANGED <<now, outbox, commits, done, evaluations, drain, failures>>
          /\ now \in 0 .. MaxNow /\ now <= now
      BY <1>3, WatermarkAssumption DEF vars, History, IInv, TypeOK
    <2>2. /\ outbox' \in Seq([frame : DOMAIN Frames, received : 0 .. MaxNow,
                              row : [point : Points, time : Nat]])
          /\ commits' \in Seq([frame : DOMAIN Frames, at : 0 .. MaxNow])
      BY <2>1 DEF IInv, TypeOK
    <2> QED BY <2>1, <2>2, EvaluationKept, HistorySame DEF IInv
  <1> QED BY <1>1, <1>2, <1>3, TickKeeps, FailKeeps DEF Next

\* Whatever frames are inserted, in whatever order they commit, and wherever the
\* batch limit and the watermark cut drains: items are done in order, and every
\* evaluation has an item that it was made for.
THEOREM InductiveInvariant == Spec => []IInv
  BY InvInit, InvStep, PTL DEF Spec

\* The outbox, the commits, the evaluations and the transaction of drain are well
\* typed; what a drain holds is committed and not done (evaluator.py:184-192).
THEOREM TypeCorrect == Spec => []TypeOK
  <1>1. IInv => TypeOK
    BY DEF IInv
  <1> QED BY <1>1, InductiveInvariant, PTL

\* A row that is committed before the time of collection of an item is over is
\* seen by the evaluation made for that item, for any watermark and any order of
\* identities and commits (evaluator.py:188-211).
THEOREM CollectedInTime == Spec => []RowsCollected
  <1>1. IInv => RowsCollected
    BY DEF IInv, Complete, Sound, Collected, RowsCollected
  <1> QED BY <1>1, InductiveInvariant, PTL

\* An item that came in order and is done led to an evaluation of every pair in
\* service, for any batch limit (evaluator.py:193-219).
THEOREM NothingPassedOver == Spec => []NothingSkipped
  <1>1. IInv => NothingSkipped
    BY DEF IInv, Complete, Wanted, NothingSkipped
  <1> QED BY <1>1, InductiveInvariant, PTL
==============================================================================
