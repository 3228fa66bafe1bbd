------------------------------- MODULE Source --------------------------------
(***************************************************************************)
(* The sources of telemetry.  The files of a pack are merged by delivery   *)
(* time (starter_pack.source_schedule), grouped into frames (batches) and  *)
(* delivered: "replay" publishes the observations as they are             *)
(* (simulation/source.py), "live" gives those of a frame one new time and  *)
(* new identities, again and again (simulation/live.py), "demo" ingests    *)
(* them without a broker (simulation/demo.py).  The store is ingestion.py, *)
(* one transaction for a frame; its races are in module Ingestion.         *)
(*                                                                         *)
(* A file stands at its place in alphabetical order; points and records    *)
(* are numbered in the order of their names, points from 1.                *)
(***************************************************************************)
EXTENDS Naturals, Sequences, FiniteSets, SequencesExt

CONSTANTS
    Packs,      \* sequences of files, which are sequences of rows
    PointsOf,   \* the points of each equipment of the registry
    BuildingOf, \* its building
    Selections, \* selections of buildings; the empty one selects all
    Hashes,     \* orders the hashes of the records may have
    Limits,     \* numbers of frames to deliver; 0 is no limit
    MaxRuns,    \* bound: starts of the source
    MaxCycles,  \* bound: passes of a live source
    QueueBound, \* bound: frames in the stream
    None

Rows(files) == UNION {Range(files[f]) : f \in DOMAIN files}

\* Rows are observed, and records numbered.
ASSUME PacksAssumption ==
    \A files \in Packs :
        /\ files \in Seq(Range(files))
        /\ \A f \in DOMAIN files : files[f] \in Seq(Range(files[f]))
        /\ \A row \in Rows(files) : row.observed \in Nat \ {0} /\ row.record \in Nat

\* A piece of equipment reports in one file: there is one for each kind.
ASSUME FilesAssumption ==
    \A files \in Packs : \A f, g \in DOMAIN files :
        \A row \in Range(files[f]), other \in Range(files[g]) :
            row.equipment \in DOMAIN PointsOf /\ row.equipment = other.equipment => f = g

\* Points are of one piece of equipment.
ASSUME PointsAssumption ==
    /\ \A eq \in DOMAIN PointsOf :
          IsFiniteSet(PointsOf[eq]) /\ PointsOf[eq] \subseteq Nat \ {0}
    /\ \A eq, other \in DOMAIN PointsOf :
          PointsOf[eq] \cap PointsOf[other] # {} => eq = other

ASSUME HashesAssumption ==
    \A order \in Hashes, files \in Packs :
        \A row \in Rows(files) : order[row.record] \in Nat

ASSUME LimitsAssumption == Limits \subseteq Nat

Points == UNION {PointsOf[eq] : eq \in DOMAIN PointsOf}

Events ==
    [id : Seq(Nat), point : Nat, at : Nat, observed : Nat, error : BOOLEAN,
     raw : {None} \cup UNION {{row.raw[p] : row \in Rows(files), p \in Points} : files \in Packs}]

ASSUME NoneAssumption == None \notin Events

VARIABLES
    pack, mode, selected, hash, steps,  \* the command, constant
    run,        \* the start of the source; its run_id
    cycle,      \* the pass of a live source
    next,       \* the row each file is at
    high,       \* the latest time read from each file
    group,      \* the rows of the frame being collected
    due,        \* its delivery time
    previous,   \* the delivery time of the frame before
    published,  \* frames delivered since the start
    clock,
    stream,     \* frames the worker has not ingested
    history,    \* accepted observations; they are their receipts, too
    current,    \* the current observation of each point
    notes       \* rejected and duplicate events, and late observations

command == <<pack, mode, selected, hash, steps>>
source == <<run, cycle, next, high, group, due, previous, published, clock>>
store == <<history, current, notes>>
vars == <<command, source, stream, store>>

Files == DOMAIN pack

-------------------------------------------------------------------------------
(* The schedule: the files merged by delivery time, then file, then row. *)

Pending == {f \in Files : next[f] <= Len(pack[f])}
Head1(f) == pack[f][next[f]]

Delivery(f) == IF high[f] > Head1(f).observed THEN high[f] ELSE Head1(f).observed

First(f) ==
    /\ f \in Pending
    /\ \A g \in Pending :
          Delivery(f) < Delivery(g) \/ (Delivery(f) = Delivery(g) /\ f <= g)

More == steps = 0 \/ published < steps

\* Variant: the frame is complete when the next row is delivered later.
CompleteLater == group # <<>> /\ \E f \in Files : First(f) /\ Delivery(f) > due

Complete == group # <<>> /\ \A f \in Files : First(f) => Delivery(f) # due

Merge(f) ==
    /\ First(f) /\ More
    /\ group = <<>> \/ Delivery(f) = due
    /\ group' = Append(group, [file |-> f, row |-> Head1(f)])
    /\ due' = Delivery(f)
    /\ high' = [high EXCEPT ![f] = Delivery(f)]
    /\ next' = [next EXCEPT ![f] = @ + 1]
    /\ UNCHANGED <<command, run, cycle, previous, published, clock, stream, store>>

-------------------------------------------------------------------------------
(* The events of a row and of a frame. *)

Event(f, row, p, error) ==
    [id |-> <<f, row.record, p>>, point |-> p, at |-> row.observed,
     observed |-> row.observed, raw |-> IF p = 0 THEN None ELSE row.raw[p],
     error |-> error]

\* The elements of S in order: each has as many before it as its place says.
Arranged(S, precedes(_, _)) ==
    [k \in 1..Cardinality(S) |->
        CHOOSE x \in S : Cardinality({y \in S : precedes(y, x)}) = k - 1]

\* Variant: nothing is said of equipment that is not registered.
PointEventsKnown(f, row) ==
    IF row.equipment \notin DOMAIN PointsOf THEN <<>>
    ELSE LET points == Arranged(PointsOf[row.equipment], <)
         IN  [i \in DOMAIN points |->
                Event(f, row, points[i], row.raw[points[i]] = "invalid")]

\* An error is an event without a point of its own: 0.  A blank is a
\* measurement that is missing, not an error.
PointEvents(f, row) ==
    IF row.equipment \notin DOMAIN PointsOf THEN <<Event(f, row, 0, TRUE)>>
    ELSE LET points == Arranged(PointsOf[row.equipment], <)
         IN  [i \in DOMAIN points |->
                Event(f, row, points[i], row.raw[points[i]] = "invalid")]

Selected(row) ==
    \/ selected = {} \/ row.equipment \notin DOMAIN BuildingOf
    \/ BuildingOf[row.equipment] \in selected

Batch(rows) ==
    FlattenSeq([i \in DOMAIN rows |->
        IF Selected(rows[i].row) THEN PointEvents(rows[i].file, rows[i].row) ELSE <<>>])

\* Variant: the identity does not tell the passes apart.
LiveEventAgain(event, at) ==
    [event EXCEPT !.id = <<run>> \o @, !.at = at]

LiveEvent(event, at) ==
    [event EXCEPT !.id = <<run, cycle>> \o @, !.at = at]

-------------------------------------------------------------------------------
(* Ingestion. *)

\* The order in which the worker takes the events of a frame.  An error names
\* no point; the last parts of an identity are file, record and point.
Rank(event) ==
    <<IF event.error THEN 0 ELSE event.point,
      LET record == event.id[Len(event.id) - 1]
      IN  IF mode = "live" THEN hash[record] ELSE record>>

Before(e, f) ==
    LET a == Rank(e) b == Rank(f)
    IN  a[1] < b[1] \/ (a[1] = b[1] /\ a[2] < b[2])

\* Stable, as sorted() is.
Ordered(frame) ==
    LET sorted == Arranged(DOMAIN frame,
            LAMBDA i, j : Before(frame[i], frame[j])
                          \/ (~Before(frame[j], frame[i]) /\ i < j))
    IN  [i \in DOMAIN frame |-> frame[sorted[i]]]

\* Variant: a conflict is looked for before the receipt.
OutcomeConflictFirst(st, e) ==
    IF e.error \/ (\E h \in st.history : h.point = e.point /\ h.at = e.at)
    THEN "rejected"
    ELSE IF \E h \in st.history : h.id = e.id
         THEN IF e \in st.history THEN "duplicate" ELSE "rejected"
         ELSE "accepted"

Outcome(st, e) ==
    IF e.error THEN "rejected"
    ELSE IF \E h \in st.history : h.id = e.id
         THEN IF e \in st.history THEN "duplicate" ELSE "rejected"
         ELSE IF \E h \in st.history : h.point = e.point /\ h.at = e.at
              THEN "rejected" ELSE "accepted"

\* Variant: the last observation to arrive is the current one.
NewerAlways(st, e) == TRUE

Newer(st, e) == st.current[e.point] = None \/ st.current[e.point].at < e.at

Ingested(st, e) ==
    LET outcome == Outcome(st, e)
    IN  IF outcome # "accepted" THEN [st EXCEPT !.notes = @ \cup {<<outcome, e>>}]
        ELSE [history |-> st.history \cup {e},
              current |-> IF Newer(st, e) THEN [st.current EXCEPT ![e.point] = e]
                          ELSE st.current,
              notes |-> IF Newer(st, e) THEN st.notes ELSE st.notes \cup {<<"late", e>>}]

IngestedFrame(st, events) == FoldLeft(Ingested, st, events)

Ingest(events) ==
    LET st == IngestedFrame(
                  [history |-> history, current |-> current, notes |-> notes], events)
    IN  history' = st.history /\ current' = st.current /\ notes' = st.notes

-------------------------------------------------------------------------------
(* Delivery. *)

Delivered ==
    /\ Complete
    /\ group' = <<>>
    /\ previous' = due
    /\ published' = published + 1
    /\ clock' = clock + 1
    /\ UNCHANGED <<command, run, cycle, next, high, due>>

Replay ==
    /\ mode = "replay" /\ Len(stream) < QueueBound
    /\ Delivered
    /\ stream' = Append(stream, Batch(group))
    /\ UNCHANGED store

Live ==
    /\ mode = "live" /\ Len(stream) < QueueBound
    /\ Delivered
    /\ LET events == Batch(group)
       IN  stream' = Append(stream,
               [i \in DOMAIN events |-> LiveEvent(events[i], clock')])
    /\ UNCHANGED store

Demo ==
    /\ mode = "demo"
    /\ Delivered
    /\ Ingest(Batch(group))
    /\ UNCHANGED stream

\* The worker ingests a frame.
Work ==
    /\ stream # <<>>
    /\ Ingest(Ordered(Head(stream)))
    /\ stream' = Tail(stream)
    /\ UNCHANGED <<command, source>>

FromTheStart ==
    /\ next' = [f \in Files |-> 1]
    /\ high' = [f \in Files |-> 0]
    /\ group' = <<>> /\ due' = 0 /\ previous' = 0

\* A live source begins the pack again.
Cycle ==
    /\ mode = "live" /\ Pending = {} /\ group = <<>> /\ More
    /\ cycle < MaxCycles
    /\ cycle' = cycle + 1
    /\ FromTheStart
    /\ UNCHANGED <<command, run, published, clock, stream, store>>

\* The source ends, at any time, and is started again.  The demonstration
\* refuses a database that holds a version, and makes one before it replays.
Restart ==
    /\ run < MaxRuns
    /\ mode # "demo"
    /\ run' = run + 1
    /\ cycle' = 0 /\ published' = 0
    /\ clock' = clock + 1
    /\ FromTheStart
    /\ UNCHANGED <<command, stream, store>>

Init ==
    /\ pack \in Packs /\ mode \in {"replay", "live", "demo"}
    /\ selected \in Selections /\ steps \in Limits
    /\ hash \in Hashes
    /\ mode # "live" => hash = CHOOSE h \in Hashes : TRUE
    /\ mode = "demo" => selected = {} /\ steps = 0
    /\ run = 1 /\ cycle = 0 /\ published = 0 /\ clock = 100
    /\ next = [f \in Files |-> 1] /\ high = [f \in Files |-> 0]
    /\ group = <<>> /\ due = 0 /\ previous = 0
    /\ stream = <<>>
    /\ history = {} /\ notes = {}
    /\ current = [p \in Points |-> None]

Next ==
    \/ \E f \in Files : Merge(f)
    \/ Replay \/ Live \/ Demo
    \/ Work \/ Cycle \/ Restart

Spec == Init /\ [][Next]_vars

\* What Work, and nothing else, does to the stream.
Taken == stream # <<>> /\ stream' = Tail(stream)

\* The source and the worker go on.
FairSpec ==
    /\ Spec
    /\ WF_vars(\E f \in Files : Merge(f)) /\ WF_vars(Replay) /\ WF_stream(Taken)

-------------------------------------------------------------------------------
(* Properties. *)

\* Frames are delivered in the order of their times, each time once, and no
\* row before it was observed, however late a file brings a row
\* (starter_pack.py:100-111, :167-169).
FramesInOrder ==
    group # <<>> =>
        /\ previous < due
        /\ \A i \in DOMAIN group : group[i].row.observed <= due

\* The identity of an observation in this pass.
Identity(f, row, p) ==
    IF mode = "live" THEN <<run, cycle, f, row.record, p>> ELSE <<f, row.record, p>>

Shown(f, row, p) ==
    \E e \in history \cup {n[2] : n \in notes} :
        e.id = Identity(f, row, p) /\ e.observed = row.observed

\* Whatever was delivered and ingested can be seen: each measurement of each
\* selected row is in the history or in a note, and so is a row of unknown
\* equipment (data/candidate-starter-pack/required-behaviors.md:12;
\* starter_pack.py:114-163).
EverythingVisible ==
    group = <<>> /\ stream = <<>> =>
        \A f \in Files : \A i \in 1..(next[f] - 1) :
            LET row == pack[f][i]
            IN  Selected(row) =>
                    \A p \in (IF row.equipment \in DOMAIN PointsOf
                              THEN PointsOf[row.equipment] ELSE {0}) : Shown(f, row, p)

\* What is delivered is delivered in order, and nothing of it disappears.
DeliveryFaithful == FramesInOrder /\ EverythingVisible

\* A measurement that was accepted is a duplicate when it is delivered again,
\* from a repeated row or by a source that was started again: it is never
\* rejected as a conflict with itself (simulation/live.py:17, :26;
\* starter_pack.py:156).
RepeatIsDuplicate ==
    \A n \in notes, h \in history :
        n[1] = "rejected" /\ n[2].point = h.point /\ n[2].at = h.at =>
            <<n[2].id[Len(n[2].id) - 1], n[2].observed, n[2].raw>> #
                <<h.id[Len(h.id) - 1], h.observed, h.raw>>

\* However frames and files bring them, the current value of a point is the
\* latest observation of its history (ingestion.py:82-128).
CurrentIsLatest ==
    \A h \in history : current[h.point].at >= h.at

\* The records of a file are numbered apart; copies of one stand together.
WellNumbered ==
    \A f \in Files : \A i, j \in DOMAIN pack[f] :
        pack[f][i].record = pack[f][j].record =>
            \A k \in i..j : pack[f][k] = pack[f][j]

\* A live frame always moves the values: each point it measures has a current
\* value of this frame, in every pass and after every start (docs/demo.md:43;
\* simulation/live.py:54-60).
LiveMoves ==
    [][mode = "live" /\ WellNumbered /\ stream # <<>> /\ stream' = Tail(stream) =>
          \A i \in DOMAIN Head(stream) :
              ~Head(stream)[i].error =>
                  current'[Head(stream)[i].point].at = Head(stream)[i].at]_vars

Done == Pending = {} /\ group = <<>> /\ stream = <<>>

\* A replay without a limit comes to its end, with every row ingested
\* (simulation/source.py:28-36).
EventuallyReplayed == mode = "replay" /\ steps = 0 ~> Done

\* "An older observation may be retained as history but must not replace a
\* newer current value" (data/candidate-starter-pack/required-behaviors.md:14).
OlderNeverReplaces ==
    [][stream # <<>> /\ stream' = Tail(stream) =>
          \A i \in DOMAIN Head(stream) :
              ~Head(stream)[i].error =>
                  current'[Head(stream)[i].point].observed >= Head(stream)[i].observed]_vars
===============================================================================
