------------------------------- MODULE Ingestion -------------------------------
(***************************************************************************)
(* Telemetry ingestion: the Redis stream with its consumer group, the      *)
(* ingestion workers (workers/ingestion.py) and the transaction each runs  *)
(* for one message (ingestion.ingest), at the granularity of the           *)
(* statements that can wait for another transaction.                       *)
(*                                                                         *)
(* A message is a payload of observations.  Its id is its place in the     *)
(* stream.  Redis delivers a message to one worker and keeps it in the     *)
(* group's pending entries list until it is acknowledged; a pending entry  *)
(* that has been idle for 30 seconds may be claimed by any worker.         *)
(*                                                                         *)
(* On PostgreSQL transactions run concurrently at READ COMMITTED, an       *)
(* advisory lock serialises those that touch a point, an insert of an      *)
(* event id waits for an uncommitted one, and so does an upsert of the     *)
(* health row.  On SQLite BEGIN IMMEDIATE serialises them all.             *)
(***************************************************************************)
EXTENDS Naturals, Sequences, FiniteSets

CONSTANTS
    Workers,       \* ingestion processes
    Observations,  \* records [event, point, time, valid, raises, missing, live]
    Payloads,      \* records [wellFormed, items], items a sequence of them
    None,
    Dialect,       \* "postgresql" or "sqlite"
    BatchSize,     \* the count of xautoclaim and xreadgroup
    FutureLimit,   \* how far a device may be ahead of the platform
    GapLimit,      \* longest step of a point that is no gap
    MaxMessages,   \* bound: messages published
    MaxNow,        \* bound: platform time
    MaxCrashes,    \* bound: worker crashes
    MaxSteals      \* bound: entries that grow idle in a live worker's hands

ASSUME DialectAssumption == Dialect \in {"postgresql", "sqlite"}
ASSUME BatchAssumption == BatchSize \in Nat \ {0}
ASSUME ObservationAssumption ==
    \A o \in Observations :
        /\ o.event \in Nat /\ o.point \in Nat /\ o.time \in Nat
        /\ {o.valid, o.raises, o.missing, o.live} \subseteq BOOLEAN
ASSUME PayloadAssumption ==
    \A p \in Payloads : p.wellFormed \in BOOLEAN /\ p.items \in Seq(Observations)
ASSUME NoneIsNoObservation == None \notin Observations
ASSUME LimitsAssumption == FutureLimit \in Nat /\ GapLimit \in Nat
ASSUME BoundsAssumption == {MaxMessages, MaxNow, MaxCrashes, MaxSteals} \subseteq Nat

Events == {o.event : o \in Observations}
Points == {o.point : o \in Observations}

VARIABLES
    \* the broker
    stream,     \* payloads published so far
    delivered,  \* id of the last message given to the group
    pel,        \* delivered and not acknowledged
    idle,       \* entries of pel that have been idle for 30 seconds
    \* the database, committed
    receipts,   \* event id -> the observation that claimed it
    telemetry,  \* rows
    current,    \* point -> latest row
    outbox,     \* observation -> outbox items
    audit,      \* set of notes
    \* each worker
    pc, inbox, cursor, msg, todo, item, tx,
    \* the environment
    now, crashes, steals

broker == <<stream, delivered, pel, idle>>
database == <<receipts, telemetry, current, outbox, audit>>
workers == <<pc, inbox, cursor, msg, todo, item, tx>>
environment == <<now, crashes, steals>>
vars == <<broker, database, workers, environment>>

NoTx == [points |-> {}, rows |-> {}, current |-> [p \in Points |-> None],
         notes |-> {}, health |-> FALSE]

\* Where a transaction is open.
InTx == {"item", "lookup", "claim", "health", "commit"}

Ids == 1 .. Len(stream)
Acknowledged == (1 .. delivered) \ pel

Optional(set) == set \cup {None}

Notes ==
    [action : {"rejected", "duplicate", "late", "data_gap", "incomplete"},
     item : Optional(Observations), message : Nat]

Transactions ==
    [points : SUBSET Points, rows : SUBSET Observations,
     current : [Points -> Optional(Observations)], notes : SUBSET Notes,
     health : BOOLEAN]

TypeOK ==
    /\ stream \in Seq(Payloads)
    /\ delivered \in 0 .. Len(stream)
    /\ idle \subseteq pel /\ pel \subseteq 1 .. delivered
    /\ receipts \in [Events -> Optional(Observations)]
    /\ telemetry \subseteq Observations
    /\ current \in [Points -> Optional(Observations)]
    /\ outbox \in [Observations -> Nat]
    /\ audit \subseteq Notes
    /\ pc \in [Workers -> {"poll", "read", "begin", "ack"} \cup InTx]
    /\ inbox \in [Workers -> SUBSET Ids]
    /\ cursor \in [Workers -> 0 .. Len(stream)]
    /\ msg \in [Workers -> 0 .. Len(stream)]
    /\ todo \in [Workers -> SUBSET Nat]
    /\ item \in [Workers -> Optional(Observations)]
    /\ tx \in [Workers -> Transactions]
    /\ \A w \in Workers :
          /\ pc[w] \in InTx \/ tx[w] = NoTx
          /\ pc[w] \in {"poll", "read"} <=> inbox[w] = {}
          /\ pc[w] \in {"lookup", "claim", "health"} => item[w] # None
          /\ pc[w] \in InTx \cup {"ack"} => msg[w] \in inbox[w]
          /\ pc[w] \in InTx \ {"commit"} => todo[w] \subseteq DOMAIN stream[msg[w]].items
    /\ now \in 0 .. MaxNow /\ crashes \in 0 .. MaxCrashes /\ steals \in 0 .. MaxSteals

Init ==
    /\ stream = <<>> /\ delivered = 0 /\ pel = {} /\ idle = {}
    /\ receipts = [e \in Events |-> None]
    /\ telemetry = {}
    /\ current = [p \in Points |-> None]
    /\ outbox = [o \in Observations |-> 0]
    /\ audit = {}
    /\ pc = [w \in Workers |-> "poll"]
    /\ inbox = [w \in Workers |-> {}]
    /\ cursor = [w \in Workers |-> 0]
    /\ msg = [w \in Workers |-> 0]
    /\ todo = [w \in Workers |-> {}]
    /\ item = [w \in Workers |-> None]
    /\ tx = [w \in Workers |-> NoTx]
    /\ now = 0 /\ crashes = 0 /\ steals = 0

-------------------------------------------------------------------------------
(* The broker. *)

\* Any source or client appends a message (xadd).
Publish(payload) ==
    /\ Len(stream) < MaxMessages
    /\ stream' = Append(stream, payload)
    /\ UNCHANGED <<delivered, pel, idle, database, workers, environment>>

Tick ==
    /\ now < MaxNow
    /\ now' = now + 1
    /\ UNCHANGED <<broker, database, workers, crashes, steals>>

\* 30 seconds pass since an entry was last delivered.  Its worker may be dead,
\* or alive and slow.
Held == UNION {inbox[w] : w \in Workers}

GrowIdle(id) ==
    /\ id \in pel \ idle
    /\ id \in Held => steals < MaxSteals
    /\ idle' = idle \cup {id}
    /\ steals' = IF id \in Held THEN steals + 1 ELSE steals
    /\ UNCHANGED <<stream, delivered, pel, database, workers, now, crashes>>

-------------------------------------------------------------------------------
(* run_once: claim idle entries, and if there are none read new messages. *)

\* The first BatchSize elements of a set of ids.
FirstOf(set) == {id \in set : Cardinality({j \in set : j < id}) < BatchSize}

Smallest(set, id) == id \in set /\ \A j \in set : id <= j

\* Variant: idle entries are never claimed.
ReclaimNothing(w) ==
    /\ pc[w] = "poll"
    /\ pc' = [pc EXCEPT ![w] = "read"]
    /\ UNCHANGED <<broker, database, inbox, cursor, msg, todo, item, tx,
                   environment>>

\* xautoclaim from the worker's cursor; the cursor it returns is where the
\* next call goes on, or 0 when the scan reached the end.
Reclaim(w) ==
    LET claimed == FirstOf({id \in idle : id >= cursor[w]})
        ahead == {id \in pel : \A j \in claimed : j < id}
    IN  /\ pc[w] = "poll"
        /\ idle' = idle \ claimed
        /\ inbox' = [inbox EXCEPT ![w] = claimed]
        /\ pc' = [pc EXCEPT ![w] = IF claimed = {} THEN "read" ELSE "begin"]
        /\ \E next \in Ids \cup {0} :
              /\ IF Cardinality(claimed) = BatchSize /\ ahead # {}
                 THEN Smallest(ahead, next) ELSE next = 0
              /\ cursor' = [cursor EXCEPT ![w] = next]
        /\ UNCHANGED <<stream, delivered, pel, database, msg, todo, item, tx,
                       environment>>

\* xreadgroup ">".
ReadNew(w) ==
    LET new == FirstOf(delivered + 1 .. Len(stream))
    IN  /\ pc[w] = "read"
        /\ new # {}
        /\ delivered' = delivered + Cardinality(new)
        /\ pel' = pel \cup new
        /\ inbox' = [inbox EXCEPT ![w] = new]
        /\ pc' = [pc EXCEPT ![w] = "begin"]
        /\ UNCHANGED <<stream, idle, database, cursor, msg, todo, item, tx,
                       environment>>

\* Who has written the health row and not committed.
HealthFree(w) == \A v \in Workers \ {w} : ~tx[v].health

\* Nothing to read: a transaction that only refreshes the heartbeat.
NoOpenTx == \A v \in Workers : pc[v] \notin InTx

IdlePoll(w) ==
    /\ pc[w] = "read"
    /\ delivered = Len(stream)
    /\ HealthFree(w)
    /\ Dialect = "sqlite" => NoOpenTx
    /\ pc' = [pc EXCEPT ![w] = "poll"]
    /\ UNCHANGED <<broker, database, inbox, cursor, msg, todo, item, tx,
                   environment>>

-------------------------------------------------------------------------------
(* process_message and ingest. *)

MessageNote(id) == [action |-> "rejected", item |-> None, message |-> id]
ItemNote(action, o) == [action |-> action, item |-> o, message |-> 0]

\* The next message of the batch; a payload that is not JSON or not a frame is
\* rejected as a whole.
Begin(w) ==
    /\ pc[w] = "begin"
    /\ Dialect = "sqlite" => NoOpenTx
    /\ \E id \in inbox[w] :
          /\ Smallest(inbox[w], id)
          /\ msg' = [msg EXCEPT ![w] = id]
          /\ IF stream[id].wellFormed
             THEN /\ todo' = [todo EXCEPT ![w] = DOMAIN stream[id].items]
                  /\ pc' = [pc EXCEPT ![w] = "item"]
                  /\ UNCHANGED tx
             ELSE /\ tx' = [tx EXCEPT ![w].notes = {MessageNote(id)}]
                  /\ pc' = [pc EXCEPT ![w] = "commit"]
                  /\ UNCHANGED todo
    /\ UNCHANGED <<broker, database, inbox, cursor, item, environment>>

\* The order in which a frame is processed: by point, then by event id.
Before(items, i, j) ==
    \/ items[i].point < items[j].point
    \/ items[i].point = items[j].point /\ items[i].event < items[j].event
    \/ items[i].point = items[j].point /\ items[i].event = items[j].event /\ i < j

\* One observation done: with which notes, rows and current values.
Finish(w, notes) ==
    /\ tx' = [tx EXCEPT ![w].notes = @ \cup notes]
    /\ pc' = [pc EXCEPT ![w] = "item"]
    /\ item' = [item EXCEPT ![w] = None]

\* The platform time is read here, before the lock is waited for.
Acceptable(o) == o.valid /\ o.time <= now + FutureLimit

\* What is not acceptable is rejected with a note, and the message goes on.
NextItem(w) ==
    /\ pc[w] = "item"
    /\ \E i \in todo[w] :
          LET items == stream[msg[w]].items
              o == items[i]
          IN  /\ \A j \in todo[w] \ {i} : Before(items, i, j)
              /\ ~o.raises
              /\ todo' = [todo EXCEPT ![w] = @ \ {i}]
              /\ IF Acceptable(o)
                 THEN /\ item' = [item EXCEPT ![w] = o]
                      /\ pc' = [pc EXCEPT ![w] = "lookup"]
                      /\ UNCHANGED tx
                 ELSE Finish(w, {ItemNote("rejected", o)})
    /\ UNCHANGED <<broker, database, inbox, cursor, msg, environment>>

LastItem(w) ==
    /\ pc[w] = "item"
    /\ todo[w] = {}
    /\ pc' = [pc EXCEPT ![w] = "commit"]
    /\ UNCHANGED <<broker, database, inbox, cursor, msg, todo, item, tx,
                   environment>>

\* Variant: the point's lock is not taken.
PointNeverLocked(w, point) == TRUE

PointFree(w, point) ==
    Dialect = "sqlite" \/ \A v \in Workers \ {w} : point \notin tx[v].points

\* What the transaction sees: committed rows and its own.
Rows(w) == telemetry \cup tx[w].rows

\* Variant: the receipts of the same frame are not seen.
ClaimedByCommitted(w, event) == receipts[event] # None

Claimed(w, event) ==
    receipts[event] # None \/ \E r \in tx[w].rows : r.event = event
SameContent(w, o) == receipts[o.event] = o \/ o \in tx[w].rows
Latest(w, point) ==
    IF tx[w].current[point] # None THEN tx[w].current[point] ELSE current[point]

\* Variant: the digest is not compared.
ReusedUnchecked(w, o) == {ItemNote("duplicate", o)}

Reused(w, o) ==
    {ItemNote(IF SameContent(w, o) THEN "duplicate" ELSE "rejected", o)}

\* Variant: an observation at a device time of the history is dropped silently.
LookupCollisionSilent(w) ==
    LET o == item[w]
        collision == \E r \in Rows(w) : r.point = o.point /\ r.time = o.time
        lock == [tx[w] EXCEPT !.points = @ \cup {o.point}]
        known == Claimed(w, o.event)
    IN  /\ pc[w] = "lookup"
        /\ PointFree(w, o.point)
        /\ tx' = [tx EXCEPT ![w] =
                     [lock EXCEPT !.notes = @ \cup (IF known THEN Reused(w, o) ELSE {})]]
        /\ pc' = [pc EXCEPT ![w] = IF known \/ collision THEN "item" ELSE "claim"]
        /\ item' = [item EXCEPT ![w] = IF known \/ collision THEN None ELSE @]
        /\ UNCHANGED <<broker, database, inbox, cursor, msg, todo, environment>>

\* Take the point's lock, look for the event and for the point's device time.
Lookup(w) ==
    LET o == item[w]
        collision == \E r \in Rows(w) : r.point = o.point /\ r.time = o.time
        lock == [tx[w] EXCEPT !.points = @ \cup {o.point}]
        done(notes) == [lock EXCEPT !.notes = @ \cup notes]
    IN  /\ pc[w] = "lookup"
        /\ PointFree(w, o.point)
        /\ IF Claimed(w, o.event) \/ collision
           THEN /\ tx' = [tx EXCEPT ![w] =
                            done(IF Claimed(w, o.event) THEN Reused(w, o)
                                 ELSE {ItemNote("rejected", o)})]
                /\ pc' = [pc EXCEPT ![w] = "item"]
                /\ item' = [item EXCEPT ![w] = None]
           ELSE /\ tx' = [tx EXCEPT ![w] = lock]
                /\ pc' = [pc EXCEPT ![w] = "claim"]
                /\ UNCHANGED item
        /\ UNCHANGED <<broker, database, inbox, cursor, msg, todo, environment>>

\* Variant: an uncommitted event id is not waited for.
EventNotAwaited(w, event) == TRUE

\* insert_once waits while another transaction holds the event id.
EventFree(w, event) ==
    \A v \in Workers \ {w} : \A r \in tx[v].rows : r.event # event

\* Variant: every row becomes the current value.
NewerAlways(w, o) == TRUE

Newer(w, o) == Latest(w, o.point) = None \/ Latest(w, o.point).time < o.time

\* Variant: a step twice the limit is tolerated.
IsGapTolerant(w, o) ==
    LET last == Latest(w, o.point)
    IN  /\ last # None
        /\ o.time > last.time + 2 * GapLimit
        /\ ~(o.live /\ ~last.live)

\* A gap is not reported when the point enters the live timeline.
IsGap(w, o) ==
    LET last == Latest(w, o.point)
    IN  /\ last # None
        /\ o.time > last.time + GapLimit
        /\ ~(o.live /\ ~last.live)

RowNotes(w, o) ==
    LET actions == {a \in {"data_gap", "late", "incomplete"} :
                       \/ a = "data_gap" /\ IsGap(w, o)
                       \/ a = "late" /\ ~Newer(w, o)
                       \/ a = "incomplete" /\ o.missing}
    IN  {ItemNote(a, o) : a \in actions}

\* Variant: the result of insert_once is not looked at.
ClaimUnchecked(w) ==
    LET o == item[w]
    IN  /\ pc[w] = "claim"
        /\ EventFree(w, o.event)
        /\ tx' = [tx EXCEPT
                     ![w].rows = @ \cup {o},
                     ![w].current = IF Newer(w, o)
                                    THEN [@ EXCEPT ![o.point] = o] ELSE @,
                     ![w].notes = @ \cup RowNotes(w, o)]
        /\ pc' = [pc EXCEPT ![w] = "health"]
        /\ UNCHANGED <<broker, database, inbox, cursor, msg, todo, item, environment>>

Claim(w) ==
    LET o == item[w]
    IN  /\ pc[w] = "claim"
        /\ EventFree(w, o.event)
        /\ IF receipts[o.event] # None
           THEN Finish(w, Reused(w, o))
           ELSE /\ tx' = [tx EXCEPT
                            ![w].rows = @ \cup {o},
                            ![w].current = IF Newer(w, o)
                                           THEN [@ EXCEPT ![o.point] = o] ELSE @,
                            ![w].notes = @ \cup RowNotes(w, o)]
                /\ pc' = [pc EXCEPT ![w] = "health"]
                /\ UNCHANGED item
        /\ UNCHANGED <<broker, database, inbox, cursor, msg, todo, environment>>

PutHealth(w) ==
    /\ pc[w] = "health"
    /\ HealthFree(w)
    /\ tx' = [tx EXCEPT ![w].health = TRUE]
    /\ pc' = [pc EXCEPT ![w] = "item"]
    /\ item' = [item EXCEPT ![w] = None]
    /\ UNCHANGED <<broker, database, inbox, cursor, msg, todo, environment>>

\* Variant: only rows that become the current value are queued.
CommitQueuesCurrent(w) ==
    /\ pc[w] = "commit"
    /\ HealthFree(w)
    /\ receipts' = [e \in Events |->
                      IF \E r \in tx[w].rows : r.event = e
                      THEN CHOOSE r \in tx[w].rows : r.event = e ELSE receipts[e]]
    /\ telemetry' = telemetry \cup tx[w].rows
    /\ current' = [p \in Points |-> Latest(w, p)]
    /\ outbox' = [o \in Observations |->
                    IF o \in tx[w].rows /\ current'[o.point] = o
                    THEN outbox[o] + 1 ELSE outbox[o]]
    /\ audit' = audit \cup tx[w].notes
    /\ tx' = [tx EXCEPT ![w] = NoTx]
    /\ pc' = [pc EXCEPT ![w] = "ack"]
    /\ UNCHANGED <<broker, inbox, cursor, msg, todo, item, environment>>

\* The heartbeat and the commit.
Commit(w) ==
    /\ pc[w] = "commit"
    /\ HealthFree(w)
    /\ receipts' = [e \in Events |->
                      IF \E r \in tx[w].rows : r.event = e
                      THEN CHOOSE r \in tx[w].rows : r.event = e ELSE receipts[e]]
    /\ telemetry' = telemetry \cup tx[w].rows
    /\ current' = [p \in Points |-> Latest(w, p)]
    /\ outbox' = [o \in Observations |->
                    IF o \in tx[w].rows THEN outbox[o] + 1 ELSE outbox[o]]
    /\ audit' = audit \cup tx[w].notes
    /\ tx' = [tx EXCEPT ![w] = NoTx]
    /\ pc' = [pc EXCEPT ![w] = "ack"]
    /\ UNCHANGED <<broker, inbox, cursor, msg, todo, item, environment>>

\* xack, whoever the entry belongs to by now.
Ack(w) ==
    /\ pc[w] = "ack"
    /\ pel' = pel \ {msg[w]}
    /\ idle' = idle \ {msg[w]}
    /\ inbox' = [inbox EXCEPT ![w] = @ \ {msg[w]}]
    /\ pc' = [pc EXCEPT ![w] = IF inbox[w] = {msg[w]} THEN "poll" ELSE "begin"]
    /\ msg' = [msg EXCEPT ![w] = 0]
    /\ UNCHANGED <<stream, delivered, database, cursor, todo, item, tx,
                   environment>>

-------------------------------------------------------------------------------
(* Failures. *)

\* Variant: the transaction is not rolled back.
RestartInTransaction(w) ==
    /\ pc' = [pc EXCEPT ![w] = "poll"]
    /\ inbox' = [inbox EXCEPT ![w] = {}]
    /\ cursor' = [cursor EXCEPT ![w] = 0]
    /\ msg' = [msg EXCEPT ![w] = 0]
    /\ todo' = [todo EXCEPT ![w] = {}]
    /\ item' = [item EXCEPT ![w] = None]
    /\ UNCHANGED <<broker, database, tx>>

\* The process ends and is restarted: the transaction is rolled back, the
\* entries stay pending under a consumer name nobody uses any more.
Restart(w) ==
    /\ pc' = [pc EXCEPT ![w] = "poll"]
    /\ inbox' = [inbox EXCEPT ![w] = {}]
    /\ cursor' = [cursor EXCEPT ![w] = 0]
    /\ msg' = [msg EXCEPT ![w] = 0]
    /\ todo' = [todo EXCEPT ![w] = {}]
    /\ item' = [item EXCEPT ![w] = None]
    /\ tx' = [tx EXCEPT ![w] = NoTx]
    /\ UNCHANGED <<broker, database>>

Crash(w) ==
    /\ crashes < MaxCrashes
    /\ crashes' = crashes + 1
    /\ Restart(w)
    /\ UNCHANGED <<now, steals>>

\* ingest turns what is not acceptable into a rejection by catching ValueError.
\* Any other exception, as of a device time that cannot be converted or an id
\* that the database cannot store, ends the transaction and run_forever, each
\* time the observation is processed.  It matters to nobody at which statement.
Raise(w) ==
    /\ pc[w] = "item"
    /\ LET items == stream[msg[w]].items
       IN  \E i \in todo[w] :
              /\ \A j \in todo[w] \ {i} : Before(items, i, j)
              /\ items[i].raises
    /\ Restart(w)
    /\ UNCHANGED environment

\* w waits for a lock, an event id or the health row that v holds.
WaitsFor(w, v) ==
    /\ v # w
    /\ \/ pc[w] = "lookup" /\ Dialect = "postgresql" /\ item[w].point \in tx[v].points
       \/ pc[w] = "claim" /\ \E r \in tx[v].rows : r.event = item[w].event
       \/ pc[w] \in {"health", "commit"} /\ tx[v].health

\* A cycle of transactions each waiting for the next.
Deadlocked(set) ==
    /\ set # {}
    /\ \A w \in set : \E v \in set : WaitsFor(w, v)
    /\ \A w \in set : \E v \in set : WaitsFor(v, w)

\* PostgreSQL aborts one transaction of the cycle; the error ends run_forever.
DeadlockAbort(w) ==
    /\ \E set \in SUBSET Workers : w \in set /\ Deadlocked(set)
    /\ Restart(w)
    /\ UNCHANGED environment

WorkerStep(w) ==
    \/ Reclaim(w) \/ ReadNew(w) \/ IdlePoll(w)
    \/ Begin(w) \/ NextItem(w) \/ LastItem(w)
    \/ Lookup(w) \/ Claim(w) \/ PutHealth(w) \/ Commit(w) \/ Ack(w)

Step ==
    \/ \E payload \in Payloads : Publish(payload)
    \/ Tick
    \/ \E w \in Workers : WorkerStep(w) \/ Raise(w) \/ Crash(w) \/ DeadlockAbort(w)

Next == Step \/ \E id \in pel : GrowIdle(id)

Spec == Init /\ [][Next]_vars

\* PostgreSQL hands a released lock to the transaction that waits for it, long
\* before an entry nobody holds has been idle for 30 seconds.
Granted(w) ==
    /\ pc[w] \in {"lookup", "claim", "health", "commit"}
    /\ \A v \in Workers : ~WaitsFor(w, v)

Abandon(id) ==
    /\ id \notin Held
    /\ \A w \in Workers : ~Granted(w)
    /\ GrowIdle(id)

TimelyNext ==
    Step \/ \E id \in pel : Abandon(id) \/ (id \in Held /\ GrowIdle(id))

\* Workers run for ever and are restarted when they end, PostgreSQL finds
\* deadlocks and hands a lock that is released again and again to who waits for
\* it, and abandoned entries grow idle, whoever waits for locks meanwhile.
FairSpec ==
    /\ Init /\ [][TimelyNext]_vars
    /\ \A w \in Workers :
          SF_vars(WorkerStep(w)) /\ WF_vars(Raise(w)) /\ WF_vars(DeadlockAbort(w))
    /\ \A id \in 1 .. MaxMessages : SF_vars(Abandon(id))

-------------------------------------------------------------------------------
(* Properties. *)

\* An event is in the history at most once, and so is a point's device time;
\* a row has one outbox item, and the receipt of its event names it, although
\* messages are redelivered, stolen and carry the same events
\* (ingestion.py, receipts; docs/afdd.md, "no second business effect").
ExactlyOnce ==
    /\ \A o, x \in telemetry :
          o.event = x.event \/ <<o.point, o.time>> = <<x.point, x.time>> => o = x
    /\ \A o \in Observations : outbox[o] = IF o \in telemetry THEN 1 ELSE 0
    /\ \A e \in Events : receipts[e] # None => receipts[e] \in telemetry
    /\ \A o \in telemetry : receipts[o.event] = o

\* The current value of a point is its latest row, whatever the order in which
\* workers commit (ingestion.py, is_newer under the point's lock).
CurrentIsLatest ==
    \A p \in Points :
        LET rows == {o \in telemetry : o.point = p}
        IN  IF rows = {} THEN current[p] = None
            ELSE current[p] \in rows /\ \A o \in rows : o.time <= current[p].time

\* An acknowledged message is accounted for: each of its observations is in the
\* history under its event, or its rejection is in the audit log
\* (workers/ingestion.py: xack follows the commit).
Accounted(payload, id) ==
    IF payload.wellFormed
    THEN \A i \in DOMAIN payload.items :
            LET o == payload.items[i]
            IN  receipts[o.event] = o \/ ItemNote("rejected", o) \in audit
    ELSE MessageNote(id) \in audit

AcknowledgedIsAccounted ==
    \A id \in Acknowledged : Accounted(stream[id], id)

\* Two neighbouring rows of a point further apart than the limit are explained
\* in the audit log: a gap was reported, or one of them came late, or the
\* point entered the live timeline in between (ingestion.py:86-113).
GapsExplained ==
    \A a, b \in telemetry :
        /\ a.point = b.point
        /\ b.time > a.time + GapLimit
        /\ \A c \in telemetry :
              ~(c.point = a.point /\ a.time < c.time /\ c.time < b.time)
        => \/ ItemNote("data_gap", b) \in audit
           \/ ItemNote("late", a) \in audit
           \/ ItemNote("late", b) \in audit
           \/ b.live /\ ~a.live

\* The event rows of open transactions never clash, so that no insert of
\* ingest can fail on a unique index.
OpenRowsDisjoint ==
    \A w, v \in Workers : w # v =>
        \A r \in tx[w].rows, q \in telemetry \cup tx[v].rows :
            r.event # q.event /\ <<r.point, r.time>> # <<q.point, q.time>>

Ledger == INSTANCE TelemetryLedger WITH
    rows <- telemetry, queued <- outbox, latest <- current

\* Ingestion implements the telemetry ledger: a message's observations appear
\* in the history, the current values and the outbox in one step or not at all.
LedgerSpec == Ledger!Spec

Raises(payload) ==
    payload.wellFormed /\ \E i \in DOMAIN payload.items : payload.items[i].raises

\* Every message is acknowledged in the end, although workers end, entries change
\* hands and transactions deadlock: time and again none is left of those before
\* the first that ends its worker.  That one is claimed again for ever, and what
\* is claimed with it may wait as long; what comes before it does not
\* (workers/ingestion.py:96-125).
EventuallyAcknowledged ==
    []<>({id \in DOMAIN stream : \A j \in 1 .. id : ~Raises(stream[j])} \subseteq Acknowledged)

\* "Make rejected, duplicated, late, missing, and incomplete data visible"
\* (data/candidate-starter-pack/required-behaviors.md:12): each observation of a
\* published message is in the history, or in the audit log, in the end.
EventuallyVisible ==
    \A id \in 1 .. MaxMessages :
        id \in DOMAIN stream ~> id \in DOMAIN stream /\ Accounted(stream[id], id)
===============================================================================
