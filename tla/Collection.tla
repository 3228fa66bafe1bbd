----------------------------- MODULE Collection ------------------------------
(***************************************************************************)
(* How rows become frames: ingestion transactions put telemetry rows with  *)
(* their outbox items into the database, and drain (evaluator.py) takes    *)
(* the items from it, groups them by device time and evaluates the pairs   *)
(* of versions and equipment whose points changed, against the latest rows *)
(* it sees.  What an evaluation does with a frame is module Evaluation;    *)
(* here it is remembered as its device time and the rows it saw.           *)
(*                                                                         *)
(* Identities are drawn when a row is inserted, receipts are stamped with  *)
(* the platform clock, and both become visible when the transaction        *)
(* commits.  A statement of drain sees what was committed before it        *)
(* (PostgreSQL; on SQLite transactions are serial, which is less).  The    *)
(* advisory lock of drain leaves one drain at a time.                      *)
(***************************************************************************)
EXTENDS Naturals, Sequences, FiniteSets, FiniteSetsExt

CONSTANTS
    Frames,       \* frame -> its rows [point, time] in the order of ingestion
    Pairs,        \* pair in service -> [points, start]
    BatchSize,    \* OUTBOX_BATCH_SIZE
    Watermark,    \* seconds for which a device time is collected
    MaxNow,       \* bound: platform clock; rows are received Watermark before
    MaxFailures   \* bound: drains rolled back

ASSUME WatermarkAssumption == Watermark \in Nat /\ MaxNow \in Nat
ASSUME BatchSizeAssumption == BatchSize \in Nat \ {0}
ASSUME FailuresAssumption == MaxFailures \in Nat

Points ==
    (UNION {Pairs[pair].points : pair \in DOMAIN Pairs})
    \cup (UNION {{Frames[f][i].point : i \in DOMAIN Frames[f]} : f \in DOMAIN Frames})

ASSUME FramesAssumption ==
    \A f \in DOMAIN Frames : Frames[f] \in Seq([point : Points, time : Nat])
ASSUME PairsAssumption == \A pair \in DOMAIN Pairs : Pairs[pair].start \in Nat

VARIABLES
    now,
    outbox,      \* id -> [frame, row, received], also of open transactions
    commits,     \* [frame, at], in the order of the commits
    done,        \* ids of items that are done
    evaluations, \* pair -> its evaluations, in order
    drain,       \* the transaction of drain
    failures

vars == <<now, outbox, commits, done, evaluations, drain, failures>>

Committed == {commits[i].frame : i \in DOMAIN commits}
Visible == {id \in DOMAIN outbox : outbox[id].frame \in Committed}
Time(id) == outbox[id].row.time

\* Its items, the device times left, the clock it read, and what it has written.
NoDrain == [phase |-> "idle", pending |-> {}, times |-> {}, clock |-> 0,
            marked |-> {}, evaluations |-> [pair \in DOMAIN Pairs |-> <<>>]]

Evaluated == Seq([at : Nat, seen : [Points -> Nat], batch : SUBSET DOMAIN outbox])

TypeOK ==
    /\ now \in 0 .. MaxNow
    /\ outbox \in Seq([frame : DOMAIN Frames, received : 0 .. MaxNow,
                       row : [point : Points, time : Nat]])
    /\ commits \in Seq([frame : DOMAIN Frames, at : 0 .. MaxNow])
    /\ done \subseteq Visible
    /\ evaluations \in [DOMAIN Pairs -> Evaluated]
    /\ drain \in [phase : {"idle", "read", "frames"}, pending : SUBSET (Visible \ done),
                  times : SUBSET Nat, clock : 0 .. now, marked : SUBSET DOMAIN outbox,
                  evaluations : [DOMAIN Pairs -> Evaluated]]
    /\ drain.times \subseteq {Time(id) : id \in drain.pending \ drain.marked}
    /\ drain.marked \subseteq drain.pending
    /\ failures \in 0 .. MaxFailures

Init ==
    /\ now = 0 /\ outbox = <<>> /\ commits = <<>> /\ done = {}
    /\ evaluations = [pair \in DOMAIN Pairs |-> <<>>]
    /\ drain = NoDrain
    /\ failures = 0

Tick ==
    /\ now < MaxNow
    /\ now' = now + 1
    /\ UNCHANGED <<outbox, commits, done, evaluations, drain, failures>>

-------------------------------------------------------------------------------
(* Ingestion. *)

Inserted(f) == Cardinality({id \in DOMAIN outbox : outbox[id].frame = f})

\* The next row of a frame, stamped with the platform time.
Insert(f) ==
    /\ Inserted(f) < Len(Frames[f])
    /\ now + Watermark <= MaxNow
    /\ outbox' = Append(outbox, [frame |-> f, received |-> now,
                                 row |-> Frames[f][Inserted(f) + 1]])
    /\ UNCHANGED <<now, commits, done, evaluations, drain, failures>>

Commit(f) ==
    /\ f \notin Committed
    /\ Inserted(f) = Len(Frames[f])
    /\ commits' = Append(commits, [frame |-> f, at |-> now])
    /\ UNCHANGED <<now, outbox, done, evaluations, drain, failures>>

-------------------------------------------------------------------------------
(* drain. *)

\* Variant: items that are done are taken again.
WaitingAll == Visible

Waiting == Visible \ done

\* The first pending items, up to the batch limit.
Start ==
    /\ drain.phase = "idle"
    /\ Waiting # {}
    /\ drain' = [NoDrain EXCEPT
                   !.phase = "read", !.evaluations = evaluations,
                   !.pending = {id \in Waiting :
                       Cardinality({j \in Waiting : j < id}) < BatchSize}]
    /\ UNCHANGED <<now, outbox, commits, done, evaluations, failures>>

\* The clock is read once, after the items.
Sort ==
    /\ drain.phase = "read"
    /\ drain' = [drain EXCEPT !.phase = "frames", !.clock = now,
                              !.times = {Time(id) : id \in drain.pending}]
    /\ UNCHANGED <<now, outbox, commits, done, evaluations, failures>>

\* Variant: no device time waits.
RecentNever(batch) == FALSE

\* Does a device time still collect rows?
Recent(batch) ==
    \E id \in batch : outbox[id].received + Watermark > drain.clock

\* latest_observations: the latest device time of each point up to a moment.
Snapshot(points, at) ==
    [p \in Points |->
        Max({0} \cup {Time(id) : id \in {j \in Visible :
            p \in points /\ outbox[j].row.point = p /\ Time(j) <= at}})]

\* A pair is evaluated at a device time when it is in service by then and one
\* of its points changed.
Candidate(pair, batch, at) ==
    /\ at >= Pairs[pair].start
    /\ \E id \in batch : outbox[id].row.point \in Pairs[pair].points

\* evaluate_frame ignores a device time at or before the last one.
Evaluate(pair, batch, at) ==
    LET before == drain.evaluations[pair]
        frame == [at |-> at, seen |-> Snapshot(Pairs[pair].points, at), batch |-> batch]
    IN  IF /\ Candidate(pair, batch, at)
           /\ before # <<>> => at > before[Len(before)].at
        THEN Append(before, frame) ELSE before

\* Variant: a device time that still collects is passed over.
LeftOfNext(at) == drain.times \ {at}

\* drain ends at the first device time that still collects.
LeftOf(at) == {}

\* Variant: items nobody evaluates stay.
MarkedEvaluated(batch, at) ==
    {id \in batch : \E pair \in DOMAIN Pairs : Candidate(pair, batch, at)}

Marked(batch, at) == batch

\* One device time, the earliest left.
Frame ==
    \E at \in drain.times :
        LET batch == {id \in drain.pending : Time(id) = at}
        IN  /\ \A other \in drain.times : at <= other
            /\ drain' =
                 IF Recent(batch) THEN [drain EXCEPT !.times = LeftOf(at)]
                 ELSE [drain EXCEPT
                         !.times = @ \ {at},
                         !.marked = @ \cup Marked(batch, at),
                         !.evaluations =
                             [pair \in DOMAIN Pairs |-> Evaluate(pair, batch, at)]]
            /\ UNCHANGED <<now, outbox, commits, done, evaluations, failures>>

\* The commit of drain.
Finish ==
    /\ drain.phase = "frames" /\ drain.times = {}
    /\ done' = done \cup drain.marked
    /\ evaluations' = drain.evaluations
    /\ drain' = NoDrain
    /\ UNCHANGED <<now, outbox, commits, failures>>

\* A statement fails, or the process ends: the transaction is rolled back.
Fail ==
    /\ drain.phase # "idle"
    /\ failures < MaxFailures
    /\ failures' = failures + 1
    /\ drain' = NoDrain
    /\ UNCHANGED <<now, outbox, commits, done, evaluations>>

DrainStep == Start \/ Sort \/ Frame \/ Finish

Next ==
    \/ Tick \/ DrainStep \/ Fail
    \/ \E f \in DOMAIN Frames : Insert(f) \/ Commit(f)

Spec == Init /\ [][Next]_vars

\* The evaluator drains every second.  Of ingestion nothing is assumed: an open
\* transaction keeps nobody else's items from being done.
FairSpec == Spec /\ WF_vars(Tick) /\ WF_vars(DrainStep)

-------------------------------------------------------------------------------
(* Properties. *)

Committing(f) == CHOOSE i \in DOMAIN commits : commits[i].frame = f
ItemsOf(pair, at) ==
    {id \in Visible : Time(id) = at /\ outbox[id].row.point \in Pairs[pair].points}

\* A row committed less than two seconds after the receipt of any item that an
\* evaluation was run for is seen by that evaluation, whatever the order of
\* identities and commits and wherever the batch limit cuts
\* (evaluator.py:188-211; docs/decisions.md:29, "collection watermark").
RowsCollected ==
    \A pair \in DOMAIN Pairs : \A i \in DOMAIN evaluations[pair] :
        LET frame == evaluations[pair][i]
        IN  \A id \in ItemsOf(pair, frame.at), first \in frame.batch :
                commits[Committing(outbox[id].frame)].at
                    < outbox[first].received + Watermark
                => frame.seen[outbox[id].row.point] = frame.at

\* Rows of a later device time were inserted and committed after this one.
InOrder(id, pair) ==
    \A later \in Visible :
        /\ outbox[later].row.point \in Pairs[pair].points
        /\ Time(later) > Time(id)
        => /\ id < later
           /\ Committing(outbox[id].frame) <= Committing(outbox[later].frame)

\* An item that is done and came in order led to an evaluation of every pair in
\* service at its device time, although a device time waits, the batch limit
\* cuts and drains fail (evaluator.py:193-219).
NothingSkipped ==
    \A id \in done, pair \in DOMAIN Pairs :
        /\ outbox[id].row.point \in Pairs[pair].points
        /\ Time(id) >= Pairs[pair].start
        /\ InOrder(id, pair)
        => \E i \in DOMAIN evaluations[pair] : evaluations[pair][i].at = Time(id)

\* Every committed item is done in the end: time and again there is none left,
\* also while a transaction of ingestion stays open (evaluator.py:214-218).
EventuallyDone == []<>(done = Visible)

\* "This makes supplied replay outcomes reproducible and prevents network delay
\* from changing fault timing" (docs/decisions.md:29): an evaluation saw every
\* row of its device time that the history will ever hold.
DelayHarmless ==
    \A pair \in DOMAIN Pairs : \A i \in DOMAIN evaluations[pair] :
        LET frame == evaluations[pair][i]
        IN  \A id \in ItemsOf(pair, frame.at) :
                frame.seen[outbox[id].row.point] = frame.at
===============================================================================
