---------------------------- MODULE IngestionProofs ----------------------------
(***************************************************************************)
(* Theorems about Ingestion for any number of workers and messages, any    *)
(* observations, both dialects, and any number of crashes, deadlocks and   *)
(* entries that change hands.                                              *)
(***************************************************************************)
EXTENDS Ingestion, FiniteSetTheorems, SequenceTheorems, TLAPS

-------------------------------------------------------------------------------
(* The inductive invariant. *)

Clash(o, x) == o.event = x.event \/ <<o.point, o.time>> = <<x.point, x.time>>

\* On SQLite one transaction is open at a time.
Serial ==
    Dialect = "sqlite" =>
        \A w, v \in Workers : pc[w] \in InTx /\ pc[v] \in InTx => w = v

\* Open transactions have no point and no event in common.
Apart ==
    \A w, v \in Workers : w # v =>
        /\ tx[w].points \cap tx[v].points = {}
        /\ \A r \in tx[w].rows, q \in tx[v].rows : r.event # q.event

\* What a transaction writes of a point, it writes under the point's lock.
Locked(w) ==
    /\ \A r \in tx[w].rows : r.point \in tx[w].points
    /\ \A p \in Points : tx[w].current[p] # None => p \in tx[w].points
    /\ pc[w] \in {"claim", "health"} => item[w].point \in tx[w].points

\* Its rows clash neither with the history nor among each other.
Fresh(w) ==
    /\ \A r \in tx[w].rows : receipts[r.event] = None
    /\ \A r \in tx[w].rows, q \in Rows(w) : Clash(r, q) => r = q

\* An observation that is to be claimed has no row at its device time, and no
\* receipt of its own transaction.
Admitted(w) ==
    pc[w] = "claim" =>
        /\ \A q \in Rows(w) : <<q.point, q.time>> # <<item[w].point, item[w].time>>
        /\ \A q \in tx[w].rows : q.event # item[w].event

\* What a transaction sees as current is the latest row it sees.
SeesLatest(w) == \A p \in Points : Ledger!IsLatest(Latest(w, p), p, Rows(w))

Neighbours(a, b, rows) ==
    /\ a.point = b.point
    /\ b.time > a.time + GapLimit
    /\ \A c \in rows : ~(c.point = a.point /\ a.time < c.time /\ c.time < b.time)

Explained(a, b, notes) ==
    \/ ItemNote("data_gap", b) \in notes
    \/ ItemNote("late", a) \in notes
    \/ ItemNote("late", b) \in notes
    \/ b.live /\ ~a.live

\* The gaps a transaction sees are in the log or in its notes.
ExplainsGaps(w) ==
    \A a, b \in Rows(w) :
        Neighbours(a, b, Rows(w)) => Explained(a, b, audit \cup tx[w].notes)

\* The observations of a message that were processed are accounted for.
Handled(w, o) ==
    \/ receipts[o.event] = o \/ o \in tx[w].rows
    \/ ItemNote("rejected", o) \in audit \cup tx[w].notes

Progress(w) ==
    LET payload == stream[msg[w]]
    IN  /\ pc[w] \in InTx /\ payload.wellFormed =>
             /\ \A i \in DOMAIN payload.items \ todo[w] :
                   \/ Handled(w, payload.items[i])
                   \/ pc[w] \in {"lookup", "claim"} /\ item[w] = payload.items[i]
             /\ pc[w] = "commit" => todo[w] = {}
        /\ pc[w] \in InTx /\ ~payload.wellFormed =>
             pc[w] = "commit" /\ MessageNote(msg[w]) \in tx[w].notes
        /\ pc[w] = "ack" => Accounted(payload, msg[w])

Own(w) ==
    /\ Locked(w) /\ Fresh(w) /\ Admitted(w)
    /\ SeesLatest(w) /\ ExplainsGaps(w) /\ Progress(w)

IInv ==
    /\ TypeOK
    /\ Serial /\ Apart
    /\ \A w \in Workers : Own(w)
    /\ ExactlyOnce /\ CurrentIsLatest /\ GapsExplained /\ AcknowledgedIsAccounted

-------------------------------------------------------------------------------
(* Types. *)

Pcs == {"poll", "read", "begin", "ack"} \cup InTx

\* A step that leaves worker w with this transaction, and the others with theirs.
TxIs(w, points, rows, values, notes) ==
    /\ tx'[w].points = points /\ tx'[w].rows = rows
    /\ tx'[w].current = values /\ tx'[w].notes = notes
    /\ \A v \in Workers \ {w} : tx'[v] = tx[v]

LEMMA TypeInit == Init => TypeOK
  <1> USE BoundsAssumption
  <1>1. NoTx \in Transactions
    BY DEF NoTx, Transactions, Optional
  <1> QED BY <1>1 DEF Init, TypeOK, Optional, Events, Points, InTx, Ids

\* What is known of a worker's transaction and of the observation in its hands.
LEMMA WorkerType ==
    ASSUME TypeOK, NEW w \in Workers
    PROVE  /\ tx[w] \in Transactions
           /\ pc[w] \in Pcs
           /\ pc[w] \notin InTx => tx[w] = NoTx
           /\ pc[w] \in {"lookup", "claim", "health"} => item[w] \in Observations
           /\ pc[w] \in InTx \cup {"ack"} => msg[w] \in Ids
  BY DEF TypeOK, Transactions, Pcs, Optional

\* An observation is one of the events and points.
LEMMA ObservationType ==
    ASSUME NEW o \in Observations
    PROVE  /\ o.event \in Events /\ o.point \in Points
           /\ o.event \in Nat /\ o.point \in Nat /\ o.time \in Nat
  BY ObservationAssumption DEF Events, Points

\* A message has its observations.
LEMMA MessageType ==
    ASSUME TypeOK, NEW id \in Ids
    PROVE  /\ stream[id] \in Payloads
           /\ stream[id].wellFormed \in BOOLEAN
           /\ DOMAIN stream[id].items \subseteq Nat
           /\ \A i \in DOMAIN stream[id].items : stream[id].items[i] \in Observations
  <1>1. stream[id] \in Payloads
    BY DEF TypeOK, Ids
  <1> QED BY <1>1, PayloadAssumption

-------------------------------------------------------------------------------
(* What the actions do to a transaction. *)

NoValues == [p \in Points |-> None]

LEMMA BeginEffect ==
    ASSUME TypeOK, NEW w \in Workers, Begin(w)
    PROVE  \E id \in inbox[w] \cap Ids :
             /\ msg' = [msg EXCEPT ![w] = id]
             /\ tx[w] = NoTx
             /\ \/ /\ stream[id].wellFormed
                   /\ todo' = [todo EXCEPT ![w] = DOMAIN stream[id].items]
                   /\ pc' = [pc EXCEPT ![w] = "item"]
                   /\ tx' = tx
                \/ /\ ~stream[id].wellFormed
                   /\ todo' = todo
                   /\ pc' = [pc EXCEPT ![w] = "commit"]
                   /\ TxIs(w, {}, {}, NoValues, {MessageNote(id)})
  <1>1. PICK id \in inbox[w] :
          /\ msg' = [msg EXCEPT ![w] = id]
          /\ IF stream[id].wellFormed
             THEN /\ todo' = [todo EXCEPT ![w] = DOMAIN stream[id].items]
                  /\ pc' = [pc EXCEPT ![w] = "item"]
                  /\ UNCHANGED tx
             ELSE /\ tx' = [tx EXCEPT ![w].notes = {MessageNote(id)}]
                  /\ pc' = [pc EXCEPT ![w] = "commit"]
                  /\ UNCHANGED todo
    BY DEF Begin
  <1>2. id \in Ids
    BY DEF TypeOK
  <1>3. tx[w] = NoTx
    BY DEF Begin, TypeOK, InTx
  <1>4. ASSUME tx' = [tx EXCEPT ![w].notes = {MessageNote(id)}]
        PROVE  TxIs(w, {}, {}, NoValues, {MessageNote(id)})
    <2>1. /\ tx'[w].points = tx[w].points /\ tx'[w].rows = tx[w].rows
          /\ tx'[w].current = tx[w].current /\ tx'[w].notes = {MessageNote(id)}
          /\ \A v \in Workers \ {w} : tx'[v] = tx[v]
      BY <1>4 DEF TypeOK, Transactions
    <2> QED BY <2>1, <1>3 DEF TxIs, NoTx, NoValues
  <1> QED BY <1>1, <1>2, <1>3, <1>4

LEMMA FinishEffect ==
    ASSUME TypeOK, NEW w \in Workers, NEW notes, Finish(w, notes)
    PROVE  TxIs(w, tx[w].points, tx[w].rows, tx[w].current, tx[w].notes \cup notes)
  BY DEF Finish, TypeOK, Transactions, TxIs

LEMMA LookupEffect ==
    ASSUME TypeOK, NEW w \in Workers, Lookup(w)
    PROVE  LET o == item[w]
               locked(notes) == TxIs(w, tx[w].points \cup {o.point}, tx[w].rows,
                                     tx[w].current, tx[w].notes \cup notes)
           IN  \/ /\ Claimed(w, o.event)
                  /\ locked(Reused(w, o))
                  /\ pc' = [pc EXCEPT ![w] = "item"]
                  /\ item' = [item EXCEPT ![w] = None]
               \/ /\ locked({ItemNote("rejected", o)})
                  /\ pc' = [pc EXCEPT ![w] = "item"]
                  /\ item' = [item EXCEPT ![w] = None]
               \/ /\ ~Claimed(w, o.event)
                  /\ \A q \in Rows(w) : <<q.point, q.time>> # <<o.point, o.time>>
                  /\ locked({})
                  /\ pc' = [pc EXCEPT ![w] = "claim"]
                  /\ item' = item
  <1> DEFINE o == item[w]
             lock == [tx[w] EXCEPT !.points = @ \cup {o.point}]
             collision == \E r \in Rows(w) : r.point = o.point /\ r.time = o.time
             locked(notes) == TxIs(w, tx[w].points \cup {o.point}, tx[w].rows,
                                   tx[w].current, tx[w].notes \cup notes)
  <1>1. ASSUME NEW notes, tx' = [tx EXCEPT ![w] = [lock EXCEPT !.notes = @ \cup notes]]
        PROVE  locked(notes)
    BY <1>1 DEF TypeOK, Transactions, TxIs
  <1>2. ASSUME tx' = [tx EXCEPT ![w] = lock]
        PROVE  locked({})
    BY <1>2 DEF TypeOK, Transactions, TxIs
  <1>3. CASE Claimed(w, o.event)
    BY <1>1, <1>3 DEF Lookup
  <1>4. CASE ~Claimed(w, o.event) /\ collision
    BY <1>1, <1>4 DEF Lookup
  <1>5. CASE ~Claimed(w, o.event) /\ ~collision
    BY <1>2, <1>5 DEF Lookup
  <1> QED BY <1>3, <1>4, <1>5

\* The current values of a transaction after it has inserted a row.
Advanced(w, o) ==
    IF Newer(w, o) THEN [tx[w].current EXCEPT ![o.point] = o] ELSE tx[w].current

LEMMA ClaimEffect ==
    ASSUME TypeOK, NEW w \in Workers, Claim(w)
    PROVE  LET o == item[w]
           IN  \/ /\ receipts[o.event] # None
                  /\ Finish(w, Reused(w, o))
               \/ /\ receipts[o.event] = None
                  /\ TxIs(w, tx[w].points, tx[w].rows \cup {o}, Advanced(w, o),
                          tx[w].notes \cup RowNotes(w, o))
                  /\ pc' = [pc EXCEPT ![w] = "health"]
                  /\ item' = item
  <1> DEFINE o == item[w]
  <1>1. CASE receipts[o.event] = None
    <2>1. tx' = [tx EXCEPT
                   ![w].rows = @ \cup {o},
                   ![w].current = Advanced(w, o),
                   ![w].notes = @ \cup RowNotes(w, o)]
          /\ pc' = [pc EXCEPT ![w] = "health"]
          /\ item' = item
      BY <1>1 DEF Claim, Advanced, TypeOK, Transactions
    <2>2. TxIs(w, tx[w].points, tx[w].rows \cup {o}, Advanced(w, o),
               tx[w].notes \cup RowNotes(w, o))
      BY <2>1 DEF TypeOK, Transactions, TxIs
    <2> QED BY <1>1, <2>1, <2>2
  <1>2. CASE receipts[o.event] # None
    BY <1>2 DEF Claim
  <1> QED BY <1>1, <1>2

LEMMA PutHealthEffect ==
    ASSUME TypeOK, NEW w \in Workers, PutHealth(w)
    PROVE  TxIs(w, tx[w].points, tx[w].rows, tx[w].current, tx[w].notes)
  BY DEF PutHealth, TypeOK, Transactions, TxIs

\* A commit, or a worker that ends.
LEMMA NoTxEffect ==
    ASSUME TypeOK, NEW w \in Workers, tx' = [tx EXCEPT ![w] = NoTx]
    PROVE  TxIs(w, {}, {}, NoValues, {})
  BY DEF TypeOK, TxIs, NoTx, NoValues

-------------------------------------------------------------------------------
(* Type correctness. *)

Actions == {"rejected", "duplicate", "late", "data_gap", "incomplete"}

LEMMA ItemNoteType ==
    ASSUME NEW o \in Observations, NEW a \in Actions
    PROVE  ItemNote(a, o) \in Notes
  BY DEF ItemNote, Notes, Optional, Actions

LEMMA MessageNoteType == \A id \in Nat : MessageNote(id) \in Notes
  BY DEF MessageNote, Notes, Optional

LEMMA NotesType ==
    ASSUME NEW w \in Workers, NEW o \in Observations
    PROVE  /\ Reused(w, o) \subseteq Notes
           /\ RowNotes(w, o) \subseteq Notes
  <1>1. Reused(w, o) \subseteq Notes
    BY ItemNoteType DEF Reused, Actions
  <1>2. RowNotes(w, o) \subseteq Notes
    BY ItemNoteType DEF RowNotes, Actions
  <1> QED BY <1>1, <1>2

\* What xreadgroup hands out are the messages that follow the last one given.
LEMMA FirstNew ==
    ASSUME NEW d \in Nat, NEW n \in Nat, d <= n
    PROVE  LET new == FirstOf(d + 1 .. n)
           IN  /\ d + Cardinality(new) \in Nat
               /\ d + Cardinality(new) <= n
               /\ new = d + 1 .. d + Cardinality(new)
  <1> USE BatchAssumption
  <1> DEFINE set == d + 1 .. n
             m == IF n < d + BatchSize THEN n ELSE d + BatchSize
  <1>1. m \in Nat /\ d <= m /\ m <= n
    OBVIOUS
  <1>2. ASSUME NEW id \in set
        PROVE  Cardinality({j \in set : j < id}) = id - d - 1
    <2>1. {j \in set : j < id} = d + 1 .. id - 1
      OBVIOUS
    <2>2. Cardinality(d + 1 .. id - 1) = IF d + 1 > id - 1 THEN 0 ELSE (id - 1) - (d + 1) + 1
      BY FS_Interval
    <2>3. Cardinality(d + 1 .. id - 1) = id - d - 1
      BY <2>2
    <2> QED BY <2>1, <2>3
  <1>3. FirstOf(set) = d + 1 .. m
    <2>1. FirstOf(set) = {id \in set : id - d - 1 < BatchSize}
      BY <1>2 DEF FirstOf
    <2>2. {id \in set : id - d - 1 < BatchSize} = d + 1 .. m
      OBVIOUS
    <2> QED BY <2>1, <2>2
  <1>4. Cardinality(d + 1 .. m) = m - d
    <2>1. Cardinality(d + 1 .. m) = IF d + 1 > m THEN 0 ELSE m - (d + 1) + 1
      BY <1>1, FS_Interval
    <2> QED BY <2>1, <1>1
  <1> QED BY <1>1, <1>3, <1>4

\* The parts of TypeOK that speak of a worker's place in its loop.
LEMMA RestartType ==
    ASSUME TypeOK, NEW w \in Workers, Restart(w), now' = now, steals' = steals,
           crashes' \in 0 .. MaxCrashes
    PROVE  TypeOK'
  <1>1. NoTx \in Transactions
    BY DEF NoTx, Transactions, Optional
  <1> QED
    BY <1>1 DEF TypeOK, Restart, broker, database, InTx, Ids, Optional

LEMMA Pending ==
    ASSUME TypeOK
    PROVE  /\ delivered \in Nat /\ Len(stream) \in Nat /\ delivered <= Len(stream)
           /\ pel \subseteq 1 .. delivered /\ pel \subseteq Ids /\ idle \subseteq pel
  <1>1. delivered \in Nat /\ Len(stream) \in Nat /\ delivered <= Len(stream)
    BY DEF TypeOK
  <1> QED BY <1>1 DEF TypeOK, Ids

LEMMA BrokerType ==
    ASSUME TypeOK, NEW w \in Workers,
           Reclaim(w) \/ ReadNew(w) \/ IdlePoll(w) \/ Ack(w)
    PROVE  TypeOK'
  <1>1. CASE Reclaim(w)
    <2> DEFINE claimed == FirstOf({id \in idle : id >= cursor[w]})
    <2>1. claimed \subseteq Ids
      BY Pending DEF FirstOf
    <2>2. PICK next \in Ids \cup {0} : cursor' = [cursor EXCEPT ![w] = next]
      BY <1>1, Zenon DEF Reclaim
    <2>3. next \in 0 .. Len(stream)
      BY Pending DEF Ids
    <2>4. /\ idle' = idle \ claimed
          /\ inbox' = [inbox EXCEPT ![w] = claimed]
          /\ pc[w] = "poll"
          /\ pc' = [pc EXCEPT ![w] = IF claimed = {} THEN "read" ELSE "begin"]
          /\ UNCHANGED <<stream, delivered, pel, database, msg, todo, item, tx,
                         environment>>
      BY <1>1 DEF Reclaim
    <2> HIDE DEF claimed
    <2> QED
      BY <2>1, <2>2, <2>3, <2>4 DEF TypeOK, database, environment, InTx, Ids
  <1>2. CASE ReadNew(w)
    <2> DEFINE new == FirstOf(delivered + 1 .. Len(stream))
    <2>1. delivered \in Nat /\ Len(stream) \in Nat /\ delivered <= Len(stream)
      BY Pending
    <2>2. /\ delivered' \in Nat /\ delivered' <= Len(stream)
          /\ new = delivered + 1 .. delivered'
          /\ new # {} /\ pel' = pel \cup new
          /\ inbox' = [inbox EXCEPT ![w] = new]
          /\ pc' = [pc EXCEPT ![w] = "begin"]
          /\ pc[w] = "read"
      BY <1>2, <2>1, FirstNew DEF ReadNew
    <2>3. UNCHANGED <<stream, idle, database, cursor, msg, todo, item, tx, environment>>
      BY <1>2 DEF ReadNew
    <2> HIDE DEF new
    <2> QED
      BY <2>1, <2>2, <2>3 DEF TypeOK, database, environment, InTx, Ids
  <1>3. CASE IdlePoll(w)
    BY <1>3 DEF IdlePoll, TypeOK, broker, database, environment, InTx, Ids
  <1>4. CASE Ack(w)
    <2>0. pc[w] = "ack" /\ 0 \in 0 .. Len(stream)
      BY <1>4, Pending DEF Ack
    <2>1. inbox[w] \subseteq Ids /\ msg[w] \in inbox[w] /\ tx[w] = NoTx
      BY <2>0 DEF TypeOK, InTx
    <2>2. /\ idle' \subseteq pel' /\ pel' \subseteq 1 .. delivered
          /\ inbox' \in [Workers -> SUBSET Ids]
          /\ msg' \in [Workers -> 0 .. Len(stream)]
      BY <1>4, <2>0, <2>1 DEF Ack, TypeOK
    <2>3. pc' \in [Workers -> {"poll", "read", "begin", "ack"} \cup InTx]
      BY <1>4 DEF Ack, TypeOK
    <2>4. \A v \in Workers :
            /\ pc'[v] \in InTx \/ tx[v] = NoTx
            /\ pc'[v] \in {"poll", "read"} <=> inbox'[v] = {}
            /\ pc'[v] \in {"lookup", "claim", "health"} => item[v] # None
            /\ pc'[v] \in InTx \cup {"ack"} => msg'[v] \in inbox'[v]
      BY <1>4, <2>0, <2>1 DEF Ack, TypeOK, InTx
    <2> QED
      BY <1>4, <2>2, <2>3, <2>4 DEF Ack, TypeOK, database, environment, InTx, Ids
  <1> QED BY <1>1, <1>2, <1>3, <1>4

\* A step inside a transaction, or the one that opens it.
LEMMA OpenType ==
    ASSUME TypeOK, NEW w \in Workers, NEW state \in InTx,
           pc' = [pc EXCEPT ![w] = state],
           UNCHANGED <<broker, database, inbox, cursor, environment>>,
           msg' \in [Workers -> 0 .. Len(stream)], msg'[w] \in inbox[w],
           todo' \in [Workers -> SUBSET Nat],
           item' \in [Workers -> Optional(Observations)],
           state \in {"lookup", "claim", "health"} => item'[w] # None,
           tx' \in [Workers -> Transactions],
           state # "commit" => todo'[w] \subseteq DOMAIN stream[msg'[w]].items,
           \A v \in Workers \ {w} :
              /\ tx'[v] = tx[v] /\ msg'[v] = msg[v]
              /\ todo'[v] = todo[v] /\ item'[v] = item[v]
    PROVE  TypeOK'
  <1>1. /\ stream \in Seq(Payloads) /\ delivered \in 0 .. Len(stream)
        /\ idle \subseteq pel /\ pel \subseteq 1 .. delivered
        /\ now \in 0 .. MaxNow /\ crashes \in 0 .. MaxCrashes /\ steals \in 0 .. MaxSteals
        /\ inbox \in [Workers -> SUBSET Ids] /\ cursor \in [Workers -> 0 .. Len(stream)]
    BY DEF TypeOK
  <1>2. /\ receipts \in [Events -> Optional(Observations)]
        /\ telemetry \subseteq Observations
        /\ current \in [Points -> Optional(Observations)]
        /\ outbox \in [Observations -> Nat]
        /\ audit \subseteq Notes
    BY DEF TypeOK
  <1>3. pc' \in [Workers -> {"poll", "read", "begin", "ack"} \cup InTx]
    BY DEF TypeOK
  <1>4. \A v \in Workers :
          /\ pc'[v] \in InTx \/ tx'[v] = NoTx
          /\ pc'[v] \in {"poll", "read"} <=> inbox[v] = {}
          /\ pc'[v] \in {"lookup", "claim", "health"} => item'[v] # None
          /\ pc'[v] \in InTx \cup {"ack"} => msg'[v] \in inbox[v]
          /\ pc'[v] \in InTx \ {"commit"} =>
               todo'[v] \subseteq DOMAIN stream[msg'[v]].items
    BY DEF TypeOK, InTx
  <1> QED
    BY <1>1, <1>2, <1>3, <1>4 DEF TypeOK, broker, database, environment, Ids

\* What a worker in a transaction has in its hands.
LEMMA OpenFacts ==
    ASSUME TypeOK, NEW w \in Workers, pc[w] \in InTx
    PROVE  /\ msg \in [Workers -> 0 .. Len(stream)] /\ msg[w] \in inbox[w]
           /\ msg[w] \in Ids
           /\ todo \in [Workers -> SUBSET Nat]
           /\ item \in [Workers -> Optional(Observations)]
           /\ tx \in [Workers -> Transactions]
           /\ None \in Optional(Observations)
           /\ pc[w] # "commit" => todo[w] \subseteq DOMAIN stream[msg[w]].items
  BY DEF TypeOK, Optional

LEMMA StoredType ==
    ASSUME TypeOK, NEW w \in Workers
    PROVE  \A p \in Points : Latest(w, p) \in Optional(Observations)
  <1>1. tx[w] \in Transactions
    BY DEF TypeOK
  <1>2. tx[w].current \in [Points -> Optional(Observations)]
    BY <1>1 DEF Transactions
  <1> QED BY <1>2 DEF Latest, TypeOK

LEMMA NotesStepType ==
    ASSUME tx \in [Workers -> Transactions], NEW w \in Workers, NEW notes \in SUBSET Notes,
           \/ tx' = [tx EXCEPT ![w].notes = @ \cup notes]
           \/ tx' = [tx EXCEPT ![w].notes = notes]
    PROVE  tx' \in [Workers -> Transactions]
  <1>1. CASE tx' = [tx EXCEPT ![w].notes = @ \cup notes]
    BY <1>1 DEF Transactions
  <1>2. CASE tx' = [tx EXCEPT ![w].notes = notes]
    BY <1>2 DEF Transactions
  <1> QED BY <1>1, <1>2

LEMMA MessageStepType ==
    ASSUME TypeOK, NEW w \in Workers,
           Begin(w) \/ NextItem(w) \/ LastItem(w)
    PROVE  TypeOK'
  <1>1. CASE Begin(w)
    <2>1. PICK id \in inbox[w] \cap Ids :
            /\ msg' = [msg EXCEPT ![w] = id]
            /\ IF stream[id].wellFormed
               THEN /\ todo' = [todo EXCEPT ![w] = DOMAIN stream[id].items]
                    /\ pc' = [pc EXCEPT ![w] = "item"]
                    /\ UNCHANGED tx
               ELSE /\ tx' = [tx EXCEPT ![w].notes = {MessageNote(id)}]
                    /\ pc' = [pc EXCEPT ![w] = "commit"]
                    /\ UNCHANGED todo
      <3>1. inbox[w] \subseteq Ids
        BY DEF TypeOK
      <3> QED BY <1>1, <3>1 DEF Begin
    <2>2. DOMAIN stream[id].items \subseteq Nat /\ MessageNote(id) \in Notes
      BY MessageType, MessageNoteType DEF Ids
    <2>3. msg' \in [Workers -> 0 .. Len(stream)]
      BY <2>1 DEF TypeOK, Ids
    <2>4. todo' \in [Workers -> SUBSET Nat] /\ tx' \in [Workers -> Transactions]
      <3>1. todo \in [Workers -> SUBSET Nat] /\ tx \in [Workers -> Transactions]
        BY DEF TypeOK
      <3>2. {MessageNote(id)} \in SUBSET Notes
        BY <2>2
      <3>3. tx' \in [Workers -> Transactions]
        BY <2>1, <3>1, <3>2, NotesStepType
      <3> QED BY <2>1, <2>2, <3>1, <3>3
    <2>5. item' = item /\ UNCHANGED <<broker, database, inbox, cursor, environment>>
      BY <1>1 DEF Begin
    <2>6. item \in [Workers -> Optional(Observations)]
      BY DEF TypeOK
    <2>7. PICK state \in {"item", "commit"} :
            /\ pc' = [pc EXCEPT ![w] = state]
            /\ state = "item" => todo' = [todo EXCEPT ![w] = DOMAIN stream[id].items]
      BY <2>1
    <2>8. /\ msg'[w] = id
          /\ \A v \in Workers \ {w} :
               /\ tx'[v] = tx[v] /\ msg'[v] = msg[v]
               /\ todo'[v] = todo[v] /\ item'[v] = item[v]
          /\ state # "commit" => todo'[w] \subseteq DOMAIN stream[id].items
      BY <2>1, <2>5, <2>7 DEF TypeOK
    <2>9. state \in InTx /\ state \notin {"lookup", "claim", "health"}
      BY DEF InTx
    <2> QED BY <2>3, <2>4, <2>5, <2>6, <2>7, <2>8, <2>9, OpenType
  <1>2. CASE NextItem(w)
    <2>0. pc[w] \in InTx
      BY <1>2 DEF NextItem, InTx
    <2>1. PICK i \in todo[w] :
            LET o == stream[msg[w]].items[i]
            IN  /\ todo' = [todo EXCEPT ![w] = @ \ {i}]
                /\ IF Acceptable(o)
                   THEN /\ item' = [item EXCEPT ![w] = o]
                        /\ pc' = [pc EXCEPT ![w] = "lookup"]
                        /\ UNCHANGED tx
                   ELSE Finish(w, {ItemNote("rejected", o)})
      BY <1>2, Zenon DEF NextItem
    <2>2. msg' = msg /\ UNCHANGED <<broker, database, inbox, cursor, environment>>
      BY <1>2 DEF NextItem
    <2>3. stream[msg[w]].items[i] \in Observations
      BY <2>0, <2>1, <1>2, OpenFacts, MessageType DEF NextItem
    <2>4. {ItemNote("rejected", stream[msg[w]].items[i])} \in SUBSET Notes
      BY <2>3, ItemNoteType DEF Actions
    <2>5. \/ tx' = tx
          \/ tx' = [tx EXCEPT ![w].notes =
                       @ \cup {ItemNote("rejected", stream[msg[w]].items[i])}]
      BY <2>1 DEF Finish
    <2>6. tx' \in [Workers -> Transactions]
      BY <2>0, <2>4, <2>5, OpenFacts, NotesStepType
    <2>7. PICK state \in {"item", "lookup"}, taken \in Optional(Observations) :
            /\ pc' = [pc EXCEPT ![w] = state]
            /\ item' = [item EXCEPT ![w] = taken]
            /\ state = "lookup" => taken \in Observations
      BY <2>1, <2>3 DEF Finish, Optional
    <2>8. /\ \A v \in Workers \ {w} :
               /\ tx'[v] = tx[v] /\ msg'[v] = msg[v]
               /\ todo'[v] = todo[v] /\ item'[v] = item[v]
          /\ todo'[w] \subseteq todo[w] /\ todo' \in [Workers -> SUBSET Nat]
          /\ item'[w] = taken /\ item' \in [Workers -> Optional(Observations)]
      BY <2>0, <2>1, <2>2, <2>7, OpenFacts DEF Finish
    <2>9. /\ state \in InTx
          /\ state \in {"lookup", "claim", "health"} => item'[w] # None
      BY <2>7, <2>8, NoneIsNoObservation DEF InTx
    <2>10. pc[w] # "commit"
      BY <1>2 DEF NextItem
    <2> QED
      BY <2>0, <2>10, <2>2, <2>6, <2>7, <2>8, <2>9, OpenFacts, OpenType
  <1>3. CASE LastItem(w)
    <2>1. pc[w] \in InTx /\ "commit" \in InTx
      BY <1>3 DEF LastItem, InTx
    <2>2. /\ pc' = [pc EXCEPT ![w] = "commit"]
          /\ UNCHANGED <<broker, database, inbox, cursor, msg, todo, item, tx, environment>>
      BY <1>3 DEF LastItem
    <2> QED BY <2>1, <2>2, OpenFacts, OpenType
  <1> QED BY <1>1, <1>2, <1>3

LEMMA ItemStepType ==
    ASSUME TypeOK, NEW w \in Workers,
           Lookup(w) \/ Claim(w) \/ PutHealth(w)
    PROVE  TypeOK'
  <1>1. pc[w] \in InTx \ {"commit"} /\ pc[w] \in {"lookup", "claim", "health"}
    BY DEF Lookup, Claim, PutHealth, InTx
  <1>2. item[w] \in Observations /\ item[w].point \in Points
    BY <1>1, WorkerType, ObservationType
  <1>3. /\ msg' = msg /\ todo' = todo
        /\ UNCHANGED <<broker, database, inbox, cursor, environment>>
    BY DEF Lookup, Claim, PutHealth
  <1>4. PICK state \in {"item", "claim", "health"}, taken \in Optional(Observations) :
          /\ pc' = [pc EXCEPT ![w] = state]
          /\ item' = [item EXCEPT ![w] = taken]
          /\ state # "item" => taken = item[w]
    <2>1. item' = item \/ item' = [item EXCEPT ![w] = None]
      BY DEF Lookup, Claim, Finish, PutHealth
    <2> QED
      BY <1>1, <1>2, OpenFacts DEF Lookup, Claim, Finish, PutHealth
  <1>5. tx' \in [Workers -> Transactions] /\ \A v \in Workers \ {w} : tx'[v] = tx[v]
    <2> DEFINE o == item[w]
    <2>1. tx \in [Workers -> Transactions]
      BY DEF TypeOK
    <2>2. /\ Reused(w, o) \subseteq Notes /\ RowNotes(w, o) \subseteq Notes
          /\ {ItemNote("rejected", o)} \subseteq Notes
      BY <1>2, NotesType, ItemNoteType DEF Actions
    <2>3. CASE Lookup(w)
      <3> DEFINE lock == [tx[w] EXCEPT !.points = @ \cup {o.point}]
      <3>1. lock \in Transactions
        BY <2>1, <1>2 DEF Transactions
      <3>2. \/ tx' = [tx EXCEPT ![w] = lock]
            \/ \E notes \in {Reused(w, o), {ItemNote("rejected", o)}} :
                 tx' = [tx EXCEPT ![w] = [lock EXCEPT !.notes = @ \cup notes]]
        BY <2>3 DEF Lookup
      <3>3. \A notes \in SUBSET Notes :
              [lock EXCEPT !.notes = @ \cup notes] \in Transactions
        BY <3>1 DEF Transactions
      <3> HIDE DEF lock
      <3>4. PICK t \in Transactions : tx' = [tx EXCEPT ![w] = t]
        BY <2>2, <3>1, <3>2, <3>3
      <3> QED BY <2>1, <3>4
    <2>4. CASE Claim(w)
      <3>1. CASE Finish(w, Reused(w, o))
        BY <2>1, <2>2, <3>1, NotesStepType DEF Finish
      <3>2. CASE ~Finish(w, Reused(w, o))
        <4>1. tx[w].current \in [Points -> Optional(Observations)]
          BY <2>1 DEF Transactions
        <4>2. [tx[w].current EXCEPT ![o.point] = o] \in [Points -> Optional(Observations)]
          BY <4>1, <1>2 DEF Optional
        <4>3. Advanced(w, o) \in [Points -> Optional(Observations)]
          BY <4>1, <4>2 DEF Advanced
        <4>4. tx' = [tx EXCEPT
                       ![w].rows = @ \cup {o},
                       ![w].current = Advanced(w, o),
                       ![w].notes = @ \cup RowNotes(w, o)]
          BY <2>1, <2>4, <3>2 DEF Claim, Advanced, Transactions
        <4> QED BY <2>1, <2>2, <1>2, <4>3, <4>4 DEF Transactions
      <3> QED BY <3>1, <3>2
    <2>5. CASE PutHealth(w)
      BY <2>1, <2>5 DEF PutHealth, Transactions
    <2> QED BY <2>3, <2>4, <2>5
  <1>6. /\ state \in InTx \ {"commit"}
        /\ item' \in [Workers -> Optional(Observations)]
        /\ \A v \in Workers \ {w} : item'[v] = item[v]
        /\ state \in {"lookup", "claim", "health"} => item'[w] # None
    BY <1>1, <1>2, <1>4, OpenFacts, NoneIsNoObservation DEF InTx
  <1> QED
    BY <1>1, <1>3, <1>4, <1>5, <1>6, OpenFacts, OpenType

LEMMA CommitType ==
    ASSUME TypeOK, NEW w \in Workers, Commit(w)
    PROVE  TypeOK'
  <1>1. /\ tx[w] \in Transactions /\ tx[w].rows \subseteq Observations
        /\ tx[w].notes \subseteq Notes /\ NoTx \in Transactions
    <2>1. tx[w] \in Transactions
      BY DEF TypeOK
    <2> QED BY <2>1 DEF Transactions, NoTx, Optional
  <1>2. /\ receipts' \in [Events -> Optional(Observations)]
        /\ telemetry' \subseteq Observations
        /\ outbox' \in [Observations -> Nat]
        /\ audit' \subseteq Notes
    BY <1>1 DEF Commit, TypeOK, Optional
  <1>3. current' \in [Points -> Optional(Observations)]
    BY StoredType DEF Commit
  <1>4. /\ tx' \in [Workers -> Transactions]
        /\ pc' \in [Workers -> {"poll", "read", "begin", "ack"} \cup InTx]
        /\ UNCHANGED <<broker, inbox, cursor, msg, todo, item, environment>>
    BY <1>1 DEF Commit, TypeOK
  <1>5. \A v \in Workers :
          /\ pc'[v] \in InTx \/ tx'[v] = NoTx
          /\ pc'[v] \in {"poll", "read"} <=> inbox[v] = {}
          /\ pc'[v] \in {"lookup", "claim", "health"} => item[v] # None
          /\ pc'[v] \in InTx \cup {"ack"} => msg[v] \in inbox[v]
          /\ pc'[v] \in InTx \ {"commit"} => todo[v] \subseteq DOMAIN stream[msg[v]].items
    BY DEF Commit, TypeOK, InTx
  <1> QED
    BY <1>2, <1>3, <1>4, <1>5 DEF TypeOK, broker, environment, Ids

LEMMA EnvironmentType ==
    ASSUME TypeOK,
           \/ \E payload \in Payloads : Publish(payload)
           \/ Tick
           \/ \E id \in pel : GrowIdle(id)
    PROVE  TypeOK'
  <1>1. ASSUME NEW payload \in Payloads, Publish(payload)
        PROVE  TypeOK'
    <2>1. /\ stream' \in Seq(Payloads) /\ Len(stream') = Len(stream) + 1
          /\ \A id \in Ids : stream'[id] = stream[id]
          /\ Len(stream) \in Nat
      BY <1>1, AppendProperties DEF Publish, TypeOK, Ids
    <2>2. Ids \subseteq Ids' /\ 0 .. Len(stream) \subseteq (0 .. Len(stream'))
      BY <2>1 DEF Ids
    <2>3. UNCHANGED <<delivered, pel, idle, database, workers, environment>>
      BY <1>1 DEF Publish
    <2>4. \A v \in Workers :
            pc[v] \in InTx => stream'[msg[v]] = stream[msg[v]]
      BY <2>1, OpenFacts
    <2>5. /\ delivered \in 0 .. Len(stream')
          /\ inbox \in [Workers -> SUBSET Ids']
          /\ cursor \in [Workers -> 0 .. Len(stream')]
          /\ msg \in [Workers -> 0 .. Len(stream')]
      BY <2>2 DEF TypeOK
    <2> QED
      BY <2>1, <2>3, <2>4, <2>5 DEF TypeOK, database, workers, environment
  <1>2. CASE Tick
    BY <1>2, BoundsAssumption DEF Tick, TypeOK, broker, database, workers, Ids
  <1>3. ASSUME NEW id \in pel, GrowIdle(id)
        PROVE  TypeOK'
    BY <1>3, BoundsAssumption DEF GrowIdle, TypeOK, database, workers, Ids
  <1> QED BY <1>1, <1>2, <1>3

\* Every step of the workers, the broker, the sources and the clock keeps the
\* state well typed: in particular, a worker inside a transaction has observations
\* of its own message in its hands.
THEOREM TypeStep == TypeOK /\ [Next]_vars => TypeOK'
  <1> SUFFICES ASSUME TypeOK, [Next]_vars PROVE TypeOK'
    OBVIOUS
  <1>1. ASSUME NEW w \in Workers, WorkerStep(w)
        PROVE  TypeOK'
    BY <1>1, BrokerType, MessageStepType, ItemStepType, CommitType DEF WorkerStep
  <1>2. ASSUME NEW w \in Workers, Raise(w) \/ Crash(w) \/ DeadlockAbort(w)
        PROVE  TypeOK'
    <2>1. Restart(w) /\ now' = now /\ steals' = steals
      BY <1>2 DEF Raise, Crash, DeadlockAbort, environment
    <2>2. crashes' \in 0 .. MaxCrashes
      BY <1>2, BoundsAssumption DEF Raise, Crash, DeadlockAbort, environment, TypeOK
    <2> QED BY <2>1, <2>2, RestartType
  <1>3. CASE UNCHANGED vars
    BY <1>3 DEF vars, broker, database, workers, environment, TypeOK, Ids
  <1> QED BY <1>1, <1>2, <1>3, EnvironmentType DEF Next, Step

-------------------------------------------------------------------------------
(* What a step leaves alone. *)

\* A worker that takes no part in a step that leaves the database alone.
LEMMA OwnKept ==
    ASSUME NEW v \in Workers, Own(v), UNCHANGED database,
           tx'[v] = tx[v], pc'[v] = pc[v], item'[v] = item[v],
           msg'[v] = msg[v], todo'[v] = todo[v],
           pc[v] \in InTx \cup {"ack"} => stream'[msg[v]] = stream[msg[v]]
    PROVE  Own(v)'
  <1> USE DEF Own, database
  <1>1. Locked(v)'
    BY DEF Locked
  <1>2. Fresh(v)' /\ Admitted(v)'
    BY DEF Fresh, Admitted, Rows
  <1>3. SeesLatest(v)'
    BY DEF SeesLatest, Latest, Rows
  <1>4. ExplainsGaps(v)'
    BY DEF ExplainsGaps, Rows
  <1>5. Progress(v)'
    BY DEF Progress, Handled, Accounted
  <1> QED BY <1>1, <1>2, <1>3, <1>4, <1>5

\* A worker without a transaction sees the database as it is.
LEMMA OwnOutside ==
    ASSUME NEW v \in Workers, TypeOK', CurrentIsLatest', GapsExplained',
           tx'[v] = NoTx, pc'[v] \in Pcs \ InTx,
           pc'[v] = "ack" => Accounted(stream[msg[v]], msg[v])'
    PROVE  Own(v)'
  <1>1. /\ tx'[v].points = {} /\ tx'[v].rows = {} /\ tx'[v].notes = {}
        /\ \A p \in Points : tx'[v].current[p] = None
    BY DEF NoTx
  <1>2. Locked(v)' /\ Fresh(v)' /\ Admitted(v)'
    BY <1>1 DEF Locked, Fresh, Admitted, InTx
  <1>3. SeesLatest(v)'
    BY <1>1 DEF SeesLatest, Latest, Rows, CurrentIsLatest, Ledger!IsLatest
  <1>4. ExplainsGaps(v)'
    BY <1>1 DEF ExplainsGaps, Rows, GapsExplained, Neighbours, Explained
  <1>5. Progress(v)'
    BY DEF Progress
  <1> QED BY <1>2, <1>3, <1>4, <1>5 DEF Own

LEMMA DatabaseKept ==
    ASSUME ExactlyOnce, CurrentIsLatest, GapsExplained, UNCHANGED database
    PROVE  ExactlyOnce' /\ CurrentIsLatest' /\ GapsExplained'
  <1> USE DEF database
  <1>1. ExactlyOnce'
    BY DEF ExactlyOnce
  <1>2. CurrentIsLatest'
    BY DEF CurrentIsLatest
  <1>3. GapsExplained'
    BY DEF GapsExplained
  <1> QED BY <1>1, <1>2, <1>3

LEMMA AccountedKept ==
    ASSUME AcknowledgedIsAccounted, UNCHANGED database,
           Acknowledged' \subseteq Acknowledged,
           \A id \in Acknowledged : stream'[id] = stream[id]
    PROVE  AcknowledgedIsAccounted'
  BY DEF AcknowledgedIsAccounted, Accounted, database

\* The locks and the event ids of open transactions, when w has these now.
LEMMA ApartStep ==
    ASSUME Apart, NEW w \in Workers,
           \A v \in Workers \ {w} :
              /\ tx'[v] = tx[v]
              /\ tx'[w].points \cap tx[v].points = {}
              /\ \A r \in tx'[w].rows, q \in tx[v].rows : r.event # q.event
    PROVE  Apart'
  BY DEF Apart

LEMMA SerialStep ==
    ASSUME TypeOK, Serial, NEW w \in Workers, NEW state,
           pc' = [pc EXCEPT ![w] = state],
           \/ state \notin InTx
           \/ pc[w] \in InTx
           \/ Dialect = "sqlite" => NoOpenTx
    PROVE  Serial'
  BY DEF Serial, NoOpenTx, TypeOK

OthersKept(w) ==
    \A v \in Workers \ {w} :
        /\ tx'[v] = tx[v] /\ pc'[v] = pc[v] /\ item'[v] = item[v]
        /\ msg'[v] = msg[v] /\ todo'[v] = todo[v]

\* What is left to show of a worker's step that does not commit.
LEMMA StepKeeps ==
    ASSUME IInv, TypeOK', NEW w \in Workers, UNCHANGED <<stream, database>>,
           OthersKept(w), Serial', Apart', Own(w)', AcknowledgedIsAccounted'
    PROVE  IInv'
  <1>1. UNCHANGED database /\ stream' = stream
    OBVIOUS
  <1>2. ExactlyOnce' /\ CurrentIsLatest' /\ GapsExplained'
    BY <1>1, DatabaseKept DEF IInv
  <1>3. ASSUME NEW v \in Workers PROVE Own(v)'
    <2>1. CASE v = w
      BY <2>1
    <2>2. CASE v # w
      BY <1>1, <2>2, OwnKept DEF IInv, OthersKept
    <2> QED BY <2>1, <2>2
  <1> QED BY <1>2, <1>3 DEF IInv

-------------------------------------------------------------------------------
(* The worker's steps outside a transaction, and its end. *)

\* A step after which w has no transaction.
LEMMA OutsideStep ==
    ASSUME IInv, TypeOK', NEW w \in Workers, NEW state \in Pcs \ InTx,
           UNCHANGED <<stream, database>>, OthersKept(w),
           tx'[w] = NoTx, pc' = [pc EXCEPT ![w] = state], state # "ack",
           AcknowledgedIsAccounted'
    PROVE  IInv'
  <1>1. UNCHANGED database
    OBVIOUS
  <1>2. ExactlyOnce' /\ CurrentIsLatest' /\ GapsExplained'
    BY <1>1, DatabaseKept DEF IInv
  <1>3. pc'[w] = state
    BY DEF IInv, TypeOK
  <1>4. Own(w)'
    BY <1>2, <1>3, OwnOutside
  <1>5. Serial'
    BY SerialStep DEF IInv
  <1>6. Apart'
    BY ApartStep DEF IInv, OthersKept, NoTx
  <1> QED BY <1>4, <1>5, <1>6, StepKeeps

LEMMA RestartKeeps ==
    ASSUME IInv, TypeOK', NEW w \in Workers, Restart(w)
    PROVE  IInv'
  <1>1. /\ tx'[w] = NoTx /\ pc' = [pc EXCEPT ![w] = "poll"]
        /\ OthersKept(w) /\ UNCHANGED <<stream, database>>
    BY DEF Restart, OthersKept, IInv, TypeOK, broker
  <1>2. AcknowledgedIsAccounted'
    BY AccountedKept DEF Restart, Acknowledged, broker, IInv
  <1>3. "poll" \in Pcs \ InTx
    BY DEF Pcs, InTx
  <1> QED BY <1>1, <1>2, <1>3, OutsideStep

LEMMA PollKeeps ==
    ASSUME IInv, TypeOK', NEW w \in Workers, Reclaim(w) \/ ReadNew(w) \/ IdlePoll(w)
    PROVE  IInv'
  <1> DEFINE new == FirstOf(delivered + 1 .. Len(stream))
  <1>1. tx[w] = NoTx
    BY DEF IInv, TypeOK, Reclaim, ReadNew, IdlePoll, InTx
  <1>2. /\ tx' = tx /\ item' = item /\ msg' = msg /\ todo' = todo
        /\ UNCHANGED <<stream, database>>
        /\ \E state \in {"read", "begin", "poll"} : pc' = [pc EXCEPT ![w] = state]
    BY DEF Reclaim, ReadNew, IdlePoll, broker
  <1>3. Acknowledged' \subseteq Acknowledged
    <2>1. CASE ReadNew(w)
      <3>1. delivered \in Nat /\ Len(stream) \in Nat /\ delivered <= Len(stream)
        BY Pending DEF IInv
      <3>2. delivered' \in Nat /\ new = delivered + 1 .. delivered' /\ pel' = pel \cup new
        BY <2>1, <3>1, FirstNew DEF ReadNew
      <3> QED BY <3>1, <3>2 DEF Acknowledged
    <2>2. CASE Reclaim(w) \/ IdlePoll(w)
      BY <2>2 DEF Reclaim, IdlePoll, broker, Acknowledged
    <2> QED BY <2>1, <2>2
  <1>4. AcknowledgedIsAccounted'
    BY <1>2, <1>3, AccountedKept DEF IInv
  <1>5. OthersKept(w)
    BY <1>2 DEF OthersKept, IInv, TypeOK
  <1>6. PICK state \in Pcs \ InTx : state # "ack" /\ pc' = [pc EXCEPT ![w] = state]
    BY <1>2 DEF Pcs, InTx
  <1>7. tx'[w] = NoTx /\ UNCHANGED <<stream, database>>
    BY <1>1, <1>2
  <1> QED BY <1>4, <1>5, <1>6, <1>7, OutsideStep

LEMMA AckKeeps ==
    ASSUME IInv, TypeOK', NEW w \in Workers, Ack(w)
    PROVE  IInv'
  <1>1. tx[w] = NoTx /\ pc[w] = "ack"
    BY DEF IInv, TypeOK, Ack, InTx
  <1>2. /\ tx'[w] = NoTx /\ OthersKept(w)
        /\ \E state \in {"begin", "poll"} : pc' = [pc EXCEPT ![w] = state]
    BY <1>1 DEF Ack, OthersKept, IInv, TypeOK
  <1>3. UNCHANGED <<stream, database>>
    BY DEF Ack
  <1>4. Accounted(stream[msg[w]], msg[w])
    BY <1>1 DEF IInv, Own, Progress
  <1>5. Acknowledged' \subseteq Acknowledged \cup {msg[w]}
    BY DEF Ack, Acknowledged
  <1>6. \A id \in Acknowledged' : Accounted(stream[id], id)
    BY <1>4, <1>5 DEF IInv, AcknowledgedIsAccounted
  <1>7. AcknowledgedIsAccounted'
    BY <1>3, <1>6 DEF AcknowledgedIsAccounted, Accounted, database
  <1>8. PICK state \in Pcs \ InTx : state # "ack" /\ pc' = [pc EXCEPT ![w] = state]
    BY <1>2 DEF Pcs, InTx
  <1> QED BY <1>2, <1>3, <1>7, <1>8, OutsideStep

-------------------------------------------------------------------------------
(* The worker's steps in a transaction. *)

\* A step that adds no row to the transaction.
LEMMA NoNewRow ==
    ASSUME NEW w \in Workers, Own(w), NEW points, NEW notes, UNCHANGED database,
           TxIs(w, tx[w].points \cup points, tx[w].rows, tx[w].current,
                tx[w].notes \cup notes),
           pc'[w] \in {"claim", "health"} => item'[w].point \in tx'[w].points
    PROVE  Locked(w)' /\ Fresh(w)' /\ SeesLatest(w)' /\ ExplainsGaps(w)'
  <1> USE DEF Own, TxIs, database
  <1>1. Locked(w)'
    BY DEF Locked
  <1>2. Fresh(w)'
    BY DEF Fresh, Rows
  <1>3. SeesLatest(w)'
    BY DEF SeesLatest, Latest, Rows
  <1>4. ExplainsGaps(w)'
    BY DEF ExplainsGaps, Explained, Rows
  <1> QED BY <1>1, <1>2, <1>3, <1>4

\* What was handled stays handled.
LEMMA HandledKept ==
    ASSUME NEW w \in Workers, NEW o, Handled(w, o), UNCHANGED database,
           tx[w].rows \subseteq tx'[w].rows, tx[w].notes \subseteq tx'[w].notes
    PROVE  Handled(w, o)'
  BY DEF Handled, database

LEMMA BeginKeeps ==
    ASSUME IInv, TypeOK', NEW w \in Workers, Begin(w)
    PROVE  IInv'
  <1>1. PICK id \in inbox[w] \cap Ids :
          /\ msg' = [msg EXCEPT ![w] = id]
          /\ tx[w] = NoTx
          /\ \/ /\ stream[id].wellFormed
                /\ todo' = [todo EXCEPT ![w] = DOMAIN stream[id].items]
                /\ pc' = [pc EXCEPT ![w] = "item"]
                /\ tx' = tx
             \/ /\ ~stream[id].wellFormed
                /\ todo' = todo
                /\ pc' = [pc EXCEPT ![w] = "commit"]
                /\ TxIs(w, {}, {}, NoValues, {MessageNote(id)})
    BY BeginEffect DEF IInv
  <1>2. UNCHANGED database /\ stream' = stream /\ item' = item
        /\ Acknowledged' = Acknowledged /\ (Dialect = "sqlite" => NoOpenTx)
    BY DEF Begin, broker, Acknowledged
  <1>3. PICK notes : /\ TxIs(w, tx[w].points \cup {}, tx[w].rows, tx[w].current,
                             tx[w].notes \cup notes)
                     /\ ~stream[id].wellFormed => MessageNote(id) \in notes
    <2>1. CASE tx' = tx /\ stream[id].wellFormed
      BY <2>1 DEF TxIs
    <2>2. CASE TxIs(w, {}, {}, NoValues, {MessageNote(id)})
      <3>1. TxIs(w, tx[w].points \cup {}, tx[w].rows, tx[w].current,
                 tx[w].notes \cup {MessageNote(id)})
        BY <1>1, <2>2 DEF TxIs, NoTx, NoValues
      <3> QED BY <3>1
    <2> QED BY <1>1, <2>1, <2>2
  <1>4. /\ pc'[w] = (IF stream[id].wellFormed THEN "item" ELSE "commit")
        /\ msg'[w] = id
        /\ stream[id].wellFormed => todo'[w] = DOMAIN stream[id].items
    BY <1>1 DEF IInv, TypeOK
  <1>5. Locked(w)' /\ Fresh(w)' /\ SeesLatest(w)' /\ ExplainsGaps(w)'
    BY <1>2, <1>3, <1>4, NoNewRow DEF IInv
  <1>6. Admitted(w)'
    BY <1>4 DEF Admitted
  <1>7. Progress(w)'
    BY <1>2, <1>3, <1>4 DEF Progress, TxIs, InTx
  <1>8. OthersKept(w)
    BY <1>1, <1>2, <1>3 DEF OthersKept, IInv, TypeOK, TxIs
  <1>9. Serial' /\ Apart'
    BY <1>1, <1>2, <1>3, SerialStep, ApartStep DEF IInv, TxIs, NoTx
  <1>10. AcknowledgedIsAccounted'
    BY <1>2, AccountedKept DEF IInv
  <1> QED BY <1>2, <1>5, <1>6, <1>7, <1>8, <1>9, <1>10, StepKeeps DEF Own

LEMMA NextItemKeeps ==
    ASSUME IInv, TypeOK', NEW w \in Workers, NextItem(w)
    PROVE  IInv'
  <1>1. pc[w] = "item" /\ pc[w] \in InTx
    BY DEF NextItem, InTx
  <1>2. PICK i \in todo[w] :
          LET o == stream[msg[w]].items[i]
          IN  /\ todo' = [todo EXCEPT ![w] = @ \ {i}]
              /\ IF Acceptable(o)
                 THEN /\ item' = [item EXCEPT ![w] = o]
                      /\ pc' = [pc EXCEPT ![w] = "lookup"]
                      /\ UNCHANGED tx
                 ELSE Finish(w, {ItemNote("rejected", o)})
    BY Zenon DEF NextItem
  <1> DEFINE o == stream[msg[w]].items[i]
  <1>3. UNCHANGED database /\ stream' = stream /\ msg' = msg
        /\ Acknowledged' = Acknowledged
    BY DEF NextItem, broker, Acknowledged
  <1> DEFINE done(notes) == TxIs(w, tx[w].points \cup {}, tx[w].rows, tx[w].current,
                                 tx[w].notes \cup notes)
  <1>4. \/ /\ done({})
           /\ pc' = [pc EXCEPT ![w] = "lookup"]
           /\ item' = [item EXCEPT ![w] = o]
        \/ /\ done({ItemNote("rejected", o)})
           /\ pc' = [pc EXCEPT ![w] = "item"]
           /\ item' = [item EXCEPT ![w] = None]
    <2>1. CASE Acceptable(o)
      <3>1. tx' = tx => done({})
        BY DEF TxIs
      <3> QED BY <1>2, <2>1, <3>1
    <2>2. CASE ~Acceptable(o)
      <3>1. Finish(w, {ItemNote("rejected", o)})
        BY <1>2, <2>2
      <3>2. done({ItemNote("rejected", o)})
        BY <3>1, FinishEffect DEF IInv, TxIs
      <3> QED BY <3>1, <3>2 DEF Finish
    <2> QED BY <2>1, <2>2
  <1>5. PICK notes : done(notes)
    BY <1>4
  <1>6. PICK state \in {"lookup", "item"} : pc' = [pc EXCEPT ![w] = state]
    BY <1>4
  <1>7. pc'[w] = state /\ todo'[w] = todo[w] \ {i}
    BY <1>2, <1>6 DEF IInv, TypeOK
  <1>8. Locked(w)' /\ Fresh(w)' /\ SeesLatest(w)' /\ ExplainsGaps(w)'
    BY <1>3, <1>5, <1>7, NoNewRow DEF IInv
  <1>9. Admitted(w)'
    BY <1>7 DEF Admitted
  <1>10. Progress(w)'
    <2>1. stream[msg[w]].wellFormed /\ \A j \in DOMAIN stream[msg[w]].items \ todo[w] :
            Handled(w, stream[msg[w]].items[j])
      BY <1>1, MessageType, OpenFacts DEF IInv, Own, Progress
    <2>2. \A j \in DOMAIN stream[msg[w]].items \ todo[w] :
            Handled(w, stream[msg[w]].items[j])'
      BY <2>1, <1>3, <1>5, HandledKept DEF TxIs
    <2>3. \/ pc'[w] = "lookup" /\ item'[w] = o
          \/ pc'[w] = "item" /\ Handled(w, o)'
      BY <1>3, <1>4 DEF Handled, TxIs, IInv, TypeOK
    <2> QED BY <1>3, <1>7, <2>1, <2>2, <2>3 DEF Progress
  <1>11. OthersKept(w)
    BY <1>2, <1>3, <1>4, <1>5 DEF OthersKept, IInv, TypeOK, TxIs
  <1>12. Serial' /\ Apart'
    <2>1. Serial'
      BY <1>1, <1>6, SerialStep DEF IInv
    <2>2. Apart'
      BY <1>5, ApartStep DEF IInv, TxIs, Apart
    <2> QED BY <2>1, <2>2
  <1>13. AcknowledgedIsAccounted'
    BY <1>3, AccountedKept DEF IInv
  <1> QED BY <1>3, <1>8, <1>9, <1>10, <1>11, <1>12, <1>13, StepKeeps DEF Own

LEMMA LastItemKeeps ==
    ASSUME IInv, TypeOK', NEW w \in Workers, LastItem(w)
    PROVE  IInv'
  <1>1. pc[w] = "item" /\ pc[w] \in InTx /\ todo[w] = {}
    BY DEF LastItem, InTx
  <1>2. /\ UNCHANGED database /\ stream' = stream /\ msg' = msg /\ todo' = todo
        /\ item' = item /\ Acknowledged' = Acknowledged
        /\ TxIs(w, tx[w].points \cup {}, tx[w].rows, tx[w].current, tx[w].notes \cup {})
        /\ pc' = [pc EXCEPT ![w] = "commit"]
    BY DEF LastItem, broker, Acknowledged, TxIs
  <1>3. pc'[w] = "commit"
    BY <1>2 DEF IInv, TypeOK
  <1>4. Locked(w)' /\ Fresh(w)' /\ SeesLatest(w)' /\ ExplainsGaps(w)'
    BY <1>2, <1>3, NoNewRow DEF IInv
  <1>5. Admitted(w)'
    BY <1>3 DEF Admitted
  <1>6. Progress(w)'
    <2>1. stream[msg[w]].wellFormed /\ \A j \in DOMAIN stream[msg[w]].items \ todo[w] :
            Handled(w, stream[msg[w]].items[j])
      BY <1>1, MessageType, OpenFacts DEF IInv, Own, Progress
    <2>2. \A j \in DOMAIN stream[msg[w]].items \ todo[w] :
            Handled(w, stream[msg[w]].items[j])'
      BY <2>1, <1>2, HandledKept DEF TxIs
    <2> QED BY <1>1, <1>2, <1>3, <2>1, <2>2 DEF Progress
  <1>7. OthersKept(w)
    BY <1>2 DEF OthersKept, IInv, TypeOK, TxIs
  <1>8. Serial'
    BY <1>1, <1>2, SerialStep DEF IInv
  <1>9. Apart'
    BY <1>2, ApartStep DEF IInv, TxIs, Apart
  <1>10. AcknowledgedIsAccounted'
    BY <1>2, AccountedKept DEF IInv
  <1> QED BY <1>2, <1>4, <1>5, <1>6, <1>7, <1>8, <1>9, <1>10, StepKeeps DEF Own

LEMMA PutHealthKeeps ==
    ASSUME IInv, TypeOK', NEW w \in Workers, PutHealth(w)
    PROVE  IInv'
  <1>1. pc[w] = "health" /\ pc[w] \in InTx
    BY DEF PutHealth, InTx
  <1>2. /\ UNCHANGED database /\ stream' = stream /\ msg' = msg /\ todo' = todo
        /\ Acknowledged' = Acknowledged
        /\ item' = [item EXCEPT ![w] = None] /\ pc' = [pc EXCEPT ![w] = "item"]
    BY DEF PutHealth, broker, Acknowledged
  <1>3. TxIs(w, tx[w].points \cup {}, tx[w].rows, tx[w].current, tx[w].notes \cup {})
    BY PutHealthEffect DEF IInv, TxIs
  <1>4. pc'[w] = "item"
    BY <1>2 DEF IInv, TypeOK
  <1>5. Locked(w)' /\ Fresh(w)' /\ SeesLatest(w)' /\ ExplainsGaps(w)'
    BY <1>2, <1>3, <1>4, NoNewRow DEF IInv
  <1>6. Admitted(w)'
    BY <1>4 DEF Admitted
  <1>7. Progress(w)'
    <2>1. stream[msg[w]].wellFormed /\ \A j \in DOMAIN stream[msg[w]].items \ todo[w] :
            Handled(w, stream[msg[w]].items[j])
      BY <1>1, MessageType, OpenFacts DEF IInv, Own, Progress
    <2>2. \A j \in DOMAIN stream[msg[w]].items \ todo[w] :
            Handled(w, stream[msg[w]].items[j])'
      BY <2>1, <1>2, <1>3, HandledKept DEF TxIs
    <2> QED BY <1>2, <1>4, <2>1, <2>2 DEF Progress
  <1>8. OthersKept(w)
    BY <1>2, <1>3 DEF OthersKept, IInv, TypeOK, TxIs
  <1>9. Serial'
    BY <1>1, <1>2, SerialStep DEF IInv
  <1>10. Apart'
    BY <1>3, ApartStep DEF IInv, TxIs, Apart
  <1>11. AcknowledgedIsAccounted'
    BY <1>2, AccountedKept DEF IInv
  <1> QED
    BY <1>2, <1>5, <1>6, <1>7, <1>8, <1>9, <1>10, <1>11, StepKeeps DEF Own

\* The lock of a point is free where a worker takes it.
LEMMA LockIsFree ==
    ASSUME IInv, NEW w \in Workers, pc[w] \in InTx, NEW point, PointFree(w, point)
    PROVE  \A v \in Workers \ {w} : point \notin tx[v].points
  <1>1. CASE Dialect = "sqlite"
    <2>1. \A v \in Workers \ {w} : pc[v] \notin InTx
      BY <1>1 DEF IInv, Serial
    <2>2. \A v \in Workers \ {w} : tx[v] = NoTx
      BY <2>1 DEF IInv, TypeOK
    <2> QED BY <2>2 DEF NoTx
  <1>2. CASE Dialect # "sqlite"
    BY <1>2 DEF PointFree
  <1> QED BY <1>1, <1>2

\* A receipt of the same content is the observation's own.
LEMMA ReusedHandled ==
    ASSUME NEW w \in Workers, NEW o, UNCHANGED database,
           tx'[w].rows = tx[w].rows, Reused(w, o) \subseteq tx'[w].notes
    PROVE  Handled(w, o)'
  BY DEF Reused, SameContent, Handled, database

LEMMA LookupKeeps ==
    ASSUME IInv, TypeOK', NEW w \in Workers, Lookup(w)
    PROVE  IInv'
  <1>0. PICK o : o = item[w]
    OBVIOUS
  <1> DEFINE locked(notes) == TxIs(w, tx[w].points \cup {o.point}, tx[w].rows,
                                   tx[w].current, tx[w].notes \cup notes)
             done == /\ pc' = [pc EXCEPT ![w] = "item"]
                     /\ item' = [item EXCEPT ![w] = None]
             absent == /\ ~Claimed(w, o.event)
                       /\ \A q \in Rows(w) : <<q.point, q.time>> # <<o.point, o.time>>
  <1>1. pc[w] = "lookup" /\ pc[w] \in InTx /\ PointFree(w, o.point)
    BY <1>0 DEF Lookup, InTx
  <1>2. /\ UNCHANGED database /\ stream' = stream /\ msg' = msg /\ todo' = todo
        /\ Acknowledged' = Acknowledged
    BY DEF Lookup, broker, Acknowledged
  <1>3. \/ locked(Reused(w, o)) /\ done
        \/ locked({ItemNote("rejected", o)}) /\ done
        \/ absent /\ locked({}) /\ pc' = [pc EXCEPT ![w] = "claim"] /\ item' = item
    BY <1>0, LookupEffect DEF IInv
  <1>4. PICK notes : locked(notes)
    BY <1>3
  <1>5. PICK state \in {"item", "claim"} :
          /\ pc' = [pc EXCEPT ![w] = state] /\ pc'[w] = state
          /\ state = "claim" => item' = item /\ absent
    BY <1>3 DEF IInv, TypeOK
  <1>6. Locked(w)' /\ Fresh(w)' /\ SeesLatest(w)' /\ ExplainsGaps(w)'
    <2>1. pc'[w] \in {"claim", "health"} => item'[w].point \in tx'[w].points
      BY <1>0, <1>4, <1>5 DEF TxIs
    <2> QED BY <1>2, <1>4, <2>1, NoNewRow DEF IInv
  <1>7. Admitted(w)'
    BY <1>0, <1>2, <1>4, <1>5 DEF Admitted, TxIs, Claimed, Rows, database
  <1>8. Progress(w)'
    <2>1. stream[msg[w]].wellFormed /\ \A j \in DOMAIN stream[msg[w]].items \ todo[w] :
            Handled(w, stream[msg[w]].items[j]) \/ o = stream[msg[w]].items[j]
      BY <1>0, <1>1, MessageType, OpenFacts DEF IInv, Own, Progress
    <2>2. \/ pc'[w] = "claim" /\ item' = item
          \/ pc'[w] = "item" /\ Handled(w, o)'
      <3>1. ASSUME locked(Reused(w, o)) PROVE Handled(w, o)'
        BY <1>2, <3>1, ReusedHandled DEF TxIs
      <3>2. ASSUME locked({ItemNote("rejected", o)}) PROVE Handled(w, o)'
        BY <3>2 DEF Handled, TxIs
      <3> QED BY <1>3, <3>1, <3>2 DEF IInv, TypeOK
    <2>3. \A j \in DOMAIN stream[msg[w]].items \ todo[w] :
            Handled(w, stream[msg[w]].items[j])' \/ o = stream[msg[w]].items[j]
      BY <2>1, <1>2, <1>4, HandledKept DEF TxIs
    <2>4. \A j \in DOMAIN stream[msg[w]].items \ todo[w] :
            \/ Handled(w, stream[msg[w]].items[j])'
            \/ pc'[w] = "claim" /\ item'[w] = stream[msg[w]].items[j]
      BY <1>0, <1>2, <2>2, <2>3 DEF Handled
    <2> QED BY <1>2, <1>5, <2>1, <2>4 DEF Progress
  <1>9. OthersKept(w)
    BY <1>2, <1>3, <1>4 DEF OthersKept, IInv, TypeOK, TxIs
  <1>10. Serial'
    BY <1>1, <1>5, SerialStep DEF IInv
  <1>11. Apart'
    <2>1. \A v \in Workers \ {w} : o.point \notin tx[v].points
      BY <1>1, LockIsFree
    <2> QED BY <1>4, <2>1, ApartStep DEF IInv, TxIs, Apart
  <1>12. AcknowledgedIsAccounted'
    BY <1>2, AccountedKept DEF IInv
  <1> QED
    BY <1>2, <1>6, <1>7, <1>8, <1>9, <1>10, <1>11, <1>12, StepKeeps DEF Own

-------------------------------------------------------------------------------
(* The row a worker inserts. *)

\* What holds when a worker may insert the observation in its hands.
Insertable(w, o) ==
    /\ o \in Observations
    /\ receipts[o.event] = None
    /\ o.point \in tx[w].points
    /\ \A q \in Rows(w) : ~Clash(o, q)

LEMMA RowsAreObservations ==
    ASSUME TypeOK, NEW w \in Workers
    PROVE  Rows(w) \subseteq Observations /\ tx[w].rows \subseteq Observations
  BY DEF Rows, TypeOK, Transactions

LEMMA MayInsert ==
    ASSUME IInv, NEW w \in Workers, pc[w] = "claim", receipts[item[w].event] = None
    PROVE  Insertable(w, item[w])
  <1>1. item[w] \in Observations /\ item[w].point \in tx[w].points
    BY WorkerType DEF IInv, Own, Locked
  <1>2. \A q \in telemetry : q.event # item[w].event
    BY RowsAreObservations, NoneIsNoObservation DEF IInv, ExactlyOnce, Rows
  <1>3. \A q \in Rows(w) : ~Clash(item[w], q)
    BY <1>2 DEF IInv, Own, Admitted, Rows, Clash
  <1> QED BY <1>1, <1>3 DEF Insertable

\* The step that inserts it.
Inserts(w, o) ==
    /\ UNCHANGED database
    /\ TxIs(w, tx[w].points, tx[w].rows \cup {o}, Advanced(w, o),
            tx[w].notes \cup RowNotes(w, o))

LEMMA InsertRows ==
    ASSUME NEW w \in Workers, NEW o, Inserts(w, o)
    PROVE  /\ Rows(w)' = Rows(w) \cup {o}
           /\ audit' \cup tx'[w].notes = (audit \cup tx[w].notes) \cup RowNotes(w, o)
  BY DEF Inserts, TxIs, Rows, database

LEMMA InsertFresh ==
    ASSUME IInv, NEW w \in Workers, NEW o, Insertable(w, o), Inserts(w, o),
           pc'[w] = "health", item' = item, item[w] = o
    PROVE  Locked(w)' /\ Fresh(w)'
  <1>1. tx[w].current \in [Points -> Optional(Observations)]
    BY DEF IInv, TypeOK, Transactions
  <1>2. Locked(w)'
    BY <1>1 DEF IInv, Own, Locked, Inserts, Insertable, TxIs, Advanced
  <1>3. \A r, q : Clash(r, q) <=> Clash(q, r)
    BY DEF Clash
  <1>4. \A r \in tx'[w].rows : receipts'[r.event] = None
    BY DEF IInv, Own, Fresh, Inserts, Insertable, TxIs, database
  <1>5. \A r \in tx'[w].rows, q \in Rows(w)' : Clash(r, q) => r = q
    BY <1>3, InsertRows DEF IInv, Own, Fresh, Inserts, Insertable, TxIs, Rows
  <1> QED BY <1>2, <1>4, <1>5 DEF Fresh

\* The value a transaction has of a point after the insert.
LEMMA InsertLatest ==
    ASSUME IInv, NEW w \in Workers, NEW o, Insertable(w, o), Inserts(w, o),
           NEW p \in Points
    PROVE  Latest(w, p)' = IF p = o.point /\ Newer(w, o) THEN o ELSE Latest(w, p)
  <1>1. tx[w].current \in [Points -> Optional(Observations)]
    BY DEF IInv, TypeOK, Transactions
  <1>2. tx'[w].current = Advanced(w, o) /\ current' = current
    BY DEF Inserts, TxIs, database
  <1>3. o # None
    BY NoneIsNoObservation DEF Insertable
  <1> QED BY <1>1, <1>2, <1>3 DEF Latest, Advanced

LEMMA InsertSeesLatest ==
    ASSUME IInv, NEW w \in Workers, NEW o, Insertable(w, o), Inserts(w, o)
    PROVE  SeesLatest(w)'
  <1> SUFFICES ASSUME NEW p \in Points
               PROVE  Ledger!IsLatest(Latest(w, p)', p, Rows(w)')
    BY DEF SeesLatest, Ledger!IsLatest
  <1> DEFINE last == Latest(w, p)
  <1>1. Ledger!IsLatest(last, p, Rows(w))
    BY DEF IInv, Own, SeesLatest
  <1>2. Rows(w) \subseteq Observations /\ None \notin Rows(w)
    BY RowsAreObservations, NoneIsNoObservation DEF IInv
  <1>3. \A x \in Observations : x.time \in Nat
    BY ObservationType
  <1>4. o \in Observations
    BY DEF Insertable
  <1>5. Rows(w)' = Rows(w) \cup {o}
    BY InsertRows
  <1>6. CASE p # o.point
    BY <1>1, <1>5, <1>6, InsertLatest DEF Ledger!IsLatest
  <1>7. CASE p = o.point /\ Newer(w, o)
    <2>1. Latest(w, p)' = o
      BY <1>7, InsertLatest
    <2>2. \A x \in Rows(w) : x.point = p => x.time <= o.time
      BY <1>1, <1>2, <1>3, <1>4, <1>7 DEF Newer, Ledger!IsLatest
    <2> QED BY <1>3, <1>4, <1>5, <1>7, <2>1, <2>2 DEF Ledger!IsLatest
  <1>8. CASE p = o.point /\ ~Newer(w, o)
    <2>1. Latest(w, p)' = last
      BY <1>8, InsertLatest
    <2>2. last # None /\ ~(last.time < o.time)
      BY <1>8 DEF Newer
    <2>3. last \in Rows(w) /\ last.point = p /\ o.time <= last.time
      BY <1>1, <1>2, <1>3, <1>4, <2>2 DEF Ledger!IsLatest
    <2> QED BY <1>1, <1>5, <2>1, <2>3 DEF Ledger!IsLatest
  <1> QED BY <1>6, <1>7, <1>8

\* A point's rows, as one transaction sees them, have one row a device time.
LEMMA OneRowATime ==
    ASSUME IInv, NEW w \in Workers, NEW a \in Rows(w), NEW b \in Rows(w),
           a.point = b.point, a.time = b.time
    PROVE  a = b
  <1>1. Clash(a, b) /\ Clash(b, a)
    BY DEF Clash
  <1>2. CASE a \in telemetry /\ b \in telemetry
    BY <1>1, <1>2 DEF IInv, ExactlyOnce, Clash
  <1>3. CASE a \in tx[w].rows \/ b \in tx[w].rows
    BY <1>1, <1>3 DEF IInv, Own, Fresh
  <1> QED BY <1>2, <1>3 DEF Rows

LEMMA InsertExplains ==
    ASSUME IInv, NEW w \in Workers, NEW o, Insertable(w, o), Inserts(w, o)
    PROVE  ExplainsGaps(w)'
  <1> DEFINE notes == (audit \cup tx[w].notes) \cup RowNotes(w, o)
             last == Latest(w, o.point)
  <1>1. SUFFICES ASSUME NEW a \in Rows(w) \cup {o}, NEW b \in Rows(w) \cup {o},
                        Neighbours(a, b, Rows(w) \cup {o})
                 PROVE  Explained(a, b, notes)
    <2>1. Rows(w)' = Rows(w) \cup {o} /\ audit' \cup tx'[w].notes = notes
      BY InsertRows
    <2>2. ExplainsGaps(w)' =
            \A a, b \in Rows(w)' :
               Neighbours(a, b, Rows(w)') => Explained(a, b, audit' \cup tx'[w].notes)
      BY DEF ExplainsGaps, Neighbours, Explained, ItemNote
    <2> QED BY <2>1, <2>2
  <1>2. /\ Rows(w) \subseteq Observations /\ None \notin Rows(w) /\ o \in Observations
        /\ o.point \in Points
        /\ \A x \in Observations : x.time \in Nat
    BY RowsAreObservations, NoneIsNoObservation, ObservationType DEF IInv, Insertable
  <1>3. Ledger!IsLatest(last, o.point, Rows(w))
    BY <1>2 DEF IInv, Own, SeesLatest
  <1>4. ~Newer(w, o) => ItemNote("late", o) \in notes
    BY DEF RowNotes
  <1>5. IsGap(w, o) => ItemNote("data_gap", o) \in notes
    BY DEF RowNotes
  <1>6. CASE a \in Rows(w) /\ b \in Rows(w)
    <2>1. Neighbours(a, b, Rows(w))
      BY <1>1 DEF Neighbours
    <2>2. Explained(a, b, audit \cup tx[w].notes)
      BY <1>6, <2>1 DEF IInv, Own, ExplainsGaps
    <2> QED BY <2>2 DEF Explained
  <1>7. CASE a = o /\ b = o
    BY <1>1, <1>2, <1>7, LimitsAssumption DEF Neighbours
  <1>8. CASE a = o /\ b \in Rows(w)
    <2>1. /\ last \in Rows(w) /\ b.time <= last.time
          /\ b.time > o.time + GapLimit
      BY <1>1, <1>3, <1>8 DEF Neighbours, Ledger!IsLatest
    <2>2. ~Newer(w, o)
      BY <1>2, <1>8, <2>1, LimitsAssumption DEF Newer
    <2> QED BY <1>4, <1>8, <2>2 DEF Explained
  <1>9. CASE a \in Rows(w) /\ b = o
    <2>1. CASE ~Newer(w, o)
      BY <1>4, <1>9, <2>1 DEF Explained
    <2>2. CASE Newer(w, o)
      <3>1. /\ last \in Rows(w) /\ last.point = a.point /\ a.time <= last.time
            /\ o.time > a.time + GapLimit
        BY <1>1, <1>3, <1>9 DEF Neighbours, Ledger!IsLatest
      <3>2. last # None /\ last.time < o.time
        BY <1>2, <2>2, <3>1 DEF Newer
      <3>3. ~(a.time < last.time)
        BY <1>1, <1>9, <3>1, <3>2 DEF Neighbours
      <3>4. a = last
        BY <1>2, <1>9, <3>1, <3>3, OneRowATime
      <3>5. IsGap(w, o) \/ (o.live /\ ~a.live)
        BY <3>1, <3>2, <3>4 DEF IsGap
      <3> QED BY <1>5, <1>9, <3>5 DEF Explained
    <2> QED BY <2>1, <2>2
  <1> QED BY <1>6, <1>7, <1>8, <1>9

LEMMA ClaimKeeps ==
    ASSUME IInv, TypeOK', NEW w \in Workers, Claim(w)
    PROVE  IInv'
  <1>0. PICK o : o = item[w]
    OBVIOUS
  <1>1. pc[w] = "claim" /\ pc[w] \in InTx /\ EventFree(w, o.event)
    BY <1>0 DEF Claim, InTx
  <1>2. /\ UNCHANGED database /\ stream' = stream /\ msg' = msg /\ todo' = todo
        /\ Acknowledged' = Acknowledged
    BY DEF Claim, broker, Acknowledged
  <1>3. PICK state \in {"item", "health"} :
          /\ pc' = [pc EXCEPT ![w] = state] /\ pc'[w] = state
          /\ \A v \in Workers \ {w} : item'[v] = item[v]
    BY DEF Claim, Finish, IInv, TypeOK
  <1>4. /\ tx[w].rows \subseteq tx'[w].rows /\ tx[w].notes \subseteq tx'[w].notes
        /\ tx'[w].points = tx[w].points /\ tx'[w].rows \subseteq tx[w].rows \cup {o}
        /\ \A v \in Workers \ {w} : tx'[v] = tx[v]
        /\ Handled(w, o)' /\ Admitted(w)'
        /\ Locked(w)' /\ Fresh(w)' /\ SeesLatest(w)' /\ ExplainsGaps(w)'
    <2>1. CASE receipts[o.event] # None /\ Finish(w, Reused(w, o))
      <3>1. TxIs(w, tx[w].points \cup {}, tx[w].rows, tx[w].current,
                 tx[w].notes \cup Reused(w, o))
        BY <2>1, FinishEffect DEF IInv, TxIs
      <3>2. pc'[w] = "item"
        BY <2>1 DEF Finish, IInv, TypeOK
      <3>3. Handled(w, o)'
        BY <1>2, <3>1, ReusedHandled DEF TxIs
      <3>4. Locked(w)' /\ Fresh(w)' /\ SeesLatest(w)' /\ ExplainsGaps(w)'
        BY <1>2, <3>1, <3>2, NoNewRow DEF IInv
      <3>5. Admitted(w)'
        BY <3>2 DEF Admitted
      <3> QED BY <3>1, <3>3, <3>4, <3>5 DEF TxIs
    <2>2. CASE /\ receipts[o.event] = None
               /\ TxIs(w, tx[w].points, tx[w].rows \cup {o}, Advanced(w, o),
                       tx[w].notes \cup RowNotes(w, o))
               /\ pc' = [pc EXCEPT ![w] = "health"]
               /\ item' = item
      <3>1. Insertable(w, o) /\ Inserts(w, o)
        BY <1>0, <1>1, <1>2, <2>2, MayInsert DEF Inserts
      <3>2. pc'[w] = "health"
        BY <2>2 DEF IInv, TypeOK
      <3>3. Locked(w)' /\ Fresh(w)' /\ SeesLatest(w)' /\ ExplainsGaps(w)'
        BY <1>0, <2>2, <3>1, <3>2, InsertFresh, InsertSeesLatest, InsertExplains
      <3>4. Handled(w, o)' /\ Admitted(w)'
        BY <2>2, <3>2 DEF Handled, Admitted, TxIs
      <3> QED BY <2>2, <3>3, <3>4 DEF TxIs
    <2> QED BY <1>0, <2>1, <2>2, ClaimEffect DEF IInv
  <1>5. Progress(w)'
    <2>1. stream[msg[w]].wellFormed /\ \A j \in DOMAIN stream[msg[w]].items \ todo[w] :
            Handled(w, stream[msg[w]].items[j]) \/ o = stream[msg[w]].items[j]
      BY <1>0, <1>1, MessageType, OpenFacts DEF IInv, Own, Progress
    <2>2. \A j \in DOMAIN stream[msg[w]].items \ todo[w] :
            Handled(w, stream[msg[w]].items[j])' \/ o = stream[msg[w]].items[j]
      BY <2>1, <1>2, <1>4, HandledKept
    <2>3. \A j \in DOMAIN stream[msg[w]].items \ todo[w] :
            Handled(w, stream[msg[w]].items[j])'
      BY <1>2, <1>4, <2>2 DEF Handled
    <2> QED BY <1>2, <1>3, <2>1, <2>3 DEF Progress
  <1>6. OthersKept(w)
    BY <1>2, <1>3, <1>4 DEF OthersKept, IInv, TypeOK
  <1>7. Serial'
    BY <1>1, <1>3, SerialStep DEF IInv
  <1>8. Apart'
    <2>1. \A v \in Workers \ {w} : \A r \in tx'[w].rows, q \in tx[v].rows : r.event # q.event
      BY <1>1, <1>4 DEF EventFree, IInv, Apart
    <2>2. \A v \in Workers \ {w} : tx'[w].points \cap tx[v].points = {}
      BY <1>4 DEF IInv, Apart
    <2> QED BY <1>4, <2>1, <2>2, ApartStep DEF IInv
  <1>9. AcknowledgedIsAccounted'
    BY <1>2, AccountedKept DEF IInv
  <1> QED
    BY <1>2, <1>4, <1>5, <1>6, <1>7, <1>8, <1>9, StepKeeps DEF Own

-------------------------------------------------------------------------------
(* The commit. *)

\* What a commit does to the database.
LEMMA CommitEffect ==
    ASSUME IInv, NEW w \in Workers, Commit(w)
    PROVE  /\ telemetry' = Rows(w)
           /\ \A r \in tx[w].rows : receipts'[r.event] = r
           /\ \A e \in Events :
                (\A r \in tx[w].rows : r.event # e) => receipts'[e] = receipts[e]
           /\ \A p \in Points : current'[p] = Latest(w, p)
           /\ audit' = audit \cup tx[w].notes
           /\ \A o \in Observations :
                outbox'[o] = IF o \in tx[w].rows THEN outbox[o] + 1 ELSE outbox[o]
           /\ TxIs(w, {}, {}, NoValues, {})
           /\ pc' = [pc EXCEPT ![w] = "ack"]
           /\ UNCHANGED <<stream, delivered, pel, msg, todo, item>>
  <1>1. /\ telemetry' = Rows(w) /\ audit' = audit \cup tx[w].notes
        /\ \A p \in Points : current'[p] = Latest(w, p)
        /\ \A o \in Observations :
             outbox'[o] = IF o \in tx[w].rows THEN outbox[o] + 1 ELSE outbox[o]
        /\ pc' = [pc EXCEPT ![w] = "ack"]
        /\ UNCHANGED <<stream, delivered, pel, msg, todo, item>>
    BY DEF Commit, Rows, broker
  <1>2. TxIs(w, {}, {}, NoValues, {})
    BY NoTxEffect DEF Commit, IInv
  <1>3. \A e \in Events :
          receipts'[e] = IF \E r \in tx[w].rows : r.event = e
                         THEN CHOOSE r \in tx[w].rows : r.event = e ELSE receipts[e]
    BY DEF Commit
  <1>4. ASSUME NEW r \in tx[w].rows PROVE receipts'[r.event] = r
    <2>1. \A q \in tx[w].rows : q.event = r.event => q = r
      BY DEF IInv, Own, Fresh, Rows, Clash
    <2>2. (CHOOSE q \in tx[w].rows : q.event = r.event) = r
      BY <2>1
    <2>3. r.event \in Events
      BY RowsAreObservations, ObservationType DEF IInv
    <2> QED BY <1>3, <2>2, <2>3
  <1>5. ASSUME NEW e \in Events, \A r \in tx[w].rows : r.event # e
        PROVE  receipts'[e] = receipts[e]
    BY <1>3, <1>5
  <1> QED BY <1>1, <1>2, <1>4, <1>5

\* A commit takes no receipt away.
LEMMA ReceiptKept ==
    ASSUME IInv, NEW w \in Workers, Commit(w), NEW o \in Observations,
           receipts[o.event] = o
    PROVE  receipts'[o.event] = o
  <1>1. receipts[o.event] # None
    BY NoneIsNoObservation
  <1>2. \A r \in tx[w].rows : r.event # o.event
    BY <1>1 DEF IInv, Own, Fresh
  <1> QED BY <1>2, CommitEffect, ObservationType

LEMMA CommitKeepsAccounted ==
    ASSUME IInv, NEW w \in Workers, Commit(w), NEW id \in Ids,
           Accounted(stream[id], id)
    PROVE  Accounted(stream[id], id)'
  <1>1. stream' = stream /\ audit \subseteq audit'
    BY CommitEffect
  <1>2. CASE ~stream[id].wellFormed
    BY <1>1, <1>2 DEF Accounted
  <1>3. CASE stream[id].wellFormed
    <2>1. ASSUME NEW i \in DOMAIN stream[id].items
          PROVE  LET o == stream[id].items[i]
                 IN  receipts'[o.event] = o \/ ItemNote("rejected", o) \in audit'
      BY <1>1, <1>3, <2>1, ReceiptKept, MessageType DEF Accounted, IInv
    <2> QED BY <1>1, <1>3, <2>1 DEF Accounted
  <1> QED BY <1>2, <1>3

LEMMA CommitDatabase ==
    ASSUME IInv, NEW w \in Workers, Commit(w)
    PROVE  ExactlyOnce' /\ CurrentIsLatest' /\ GapsExplained'
  <1>1. /\ \A r, q \in Rows(w) : Clash(r, q) => r = q
        /\ \A r \in tx[w].rows : r \notin telemetry
    <2>1. \A r, q : Clash(r, q) <=> Clash(q, r)
      BY DEF Clash
    <2>2. \A r, q \in telemetry : Clash(r, q) => r = q
      BY DEF IInv, ExactlyOnce, Clash
    <2>3. \A r \in tx[w].rows, q \in Rows(w) : Clash(r, q) => r = q
      BY DEF IInv, Own, Fresh
    <2>4. ASSUME NEW r \in tx[w].rows PROVE r \notin telemetry
      <3>1. receipts[r.event] = None
        BY DEF IInv, Own, Fresh
      <3>2. r # None
        BY RowsAreObservations, NoneIsNoObservation DEF IInv
      <3> QED BY <3>1, <3>2 DEF IInv, ExactlyOnce
    <2> QED BY <2>1, <2>2, <2>3, <2>4 DEF Rows
  <1>2. ExactlyOnce'
    <2>1. \A o, x \in telemetry' :
            o.event = x.event \/ <<o.point, o.time>> = <<x.point, x.time>> => o = x
      BY <1>1, CommitEffect DEF Clash
    <2>2. \A o \in Observations : outbox'[o] = IF o \in telemetry' THEN 1 ELSE 0
      BY <1>1, CommitEffect DEF IInv, ExactlyOnce, Rows
    <2>3. \A o \in telemetry' : receipts'[o.event] = o
      BY CommitEffect, ReceiptKept, RowsAreObservations DEF IInv, ExactlyOnce, Rows
    <2>4. ASSUME NEW e \in Events, receipts'[e] # None PROVE receipts'[e] \in telemetry'
      <3>1. CASE \A r \in tx[w].rows : r.event # e
        BY <2>4, <3>1, CommitEffect DEF IInv, ExactlyOnce, Rows
      <3>2. CASE \E r \in tx[w].rows : r.event = e
        BY <3>2, CommitEffect DEF Rows
      <3> QED BY <3>1, <3>2
    <2> QED BY <2>1, <2>2, <2>3, <2>4 DEF ExactlyOnce
  <1>3. CurrentIsLatest'
    <2>1. \A p \in Points : Ledger!IsLatest(current'[p], p, telemetry')
      BY CommitEffect DEF IInv, Own, SeesLatest
    <2> QED BY <2>1 DEF CurrentIsLatest, Ledger!IsLatest
  <1>4. GapsExplained'
    <2>1. telemetry' = Rows(w) /\ audit' = audit \cup tx[w].notes
      BY CommitEffect
    <2>2. \A a, b \in telemetry' :
            Neighbours(a, b, telemetry') => Explained(a, b, audit')
      BY <2>1 DEF IInv, Own, ExplainsGaps
    <2> QED BY <2>2 DEF GapsExplained, Neighbours, Explained, ItemNote
  <1> QED BY <1>2, <1>3, <1>4

\* The message whose transaction commits is accounted for.
LEMMA CommitAccounts ==
    ASSUME IInv, NEW w \in Workers, Commit(w)
    PROVE  Accounted(stream[msg[w]], msg[w])'
  <1> DEFINE payload == stream[msg[w]]
  <1>1. pc[w] = "commit" /\ pc[w] \in InTx
    BY DEF Commit, InTx
  <1>2. stream' = stream /\ msg' = msg /\ audit' = audit \cup tx[w].notes
    BY CommitEffect
  <1>3. CASE ~payload.wellFormed
    BY <1>1, <1>2, <1>3 DEF IInv, Own, Progress, Accounted
  <1>4. CASE payload.wellFormed
    <2>1. ASSUME NEW i \in DOMAIN payload.items, NEW o, o = payload.items[i]
          PROVE  receipts'[o.event] = o \/ ItemNote("rejected", o) \in audit'
      <3>1. o \in Observations
        BY <1>1, <2>1, OpenFacts, MessageType DEF IInv
      <3>2. Handled(w, o)
        BY <1>1, <1>4, <2>1 DEF IInv, Own, Progress
      <3> QED BY <1>2, <3>1, <3>2, CommitEffect, ReceiptKept DEF Handled
    <2> QED BY <1>2, <1>4, <2>1 DEF Accounted
  <1> QED BY <1>3, <1>4

\* What a commit changes of what another open transaction sees: nothing at the
\* points it has locked, and elsewhere what the committed transaction saw.
LEMMA CommitSeen ==
    ASSUME IInv, NEW w \in Workers, Commit(w), NEW v \in Workers, v # w
    PROVE  /\ Rows(v)' = Rows(v) \cup tx[w].rows
           /\ \A q \in tx[w].rows : q.point \notin tx[v].points
           /\ \A q \in tx[v].rows : q.point \in tx[v].points
           /\ \A p \in tx[v].points : Latest(v, p)' = Latest(v, p)
           /\ \A p \in Points \ tx[v].points : Latest(v, p)' = Latest(w, p)
  <1>1. tx'[v] = tx[v] /\ telemetry' = Rows(w) /\ \A p \in Points : current'[p] = Latest(w, p)
    BY CommitEffect DEF TxIs
  <1>2. \A q \in tx[w].rows : q.point \in tx[w].points
    BY DEF IInv, Own, Locked
  <1>3. tx[w].points \cap tx[v].points = {}
    BY DEF IInv, Apart
  <1>4. \A q \in tx[v].rows : q.point \in tx[v].points
    BY DEF IInv, Own, Locked
  <1>5. tx[v].points \subseteq Points
    BY DEF IInv, TypeOK, Transactions
  <1>6. ASSUME NEW p \in tx[v].points PROVE Latest(v, p)' = Latest(v, p)
    <2>1. tx[w].current[p] = None
      BY <1>3, <1>5 DEF IInv, Own, Locked
    <2> QED BY <1>1, <1>5, <2>1 DEF Latest
  <1>7. ASSUME NEW p \in Points \ tx[v].points PROVE Latest(v, p)' = Latest(w, p)
    <2>1. tx[v].current[p] = None
      BY DEF IInv, Own, Locked
    <2> QED BY <1>1, <2>1 DEF Latest
  <1> QED BY <1>1, <1>2, <1>3, <1>4, <1>6, <1>7 DEF Rows

LEMMA CommitOther ==
    ASSUME IInv, NEW w \in Workers, Commit(w), NEW v \in Workers, v # w
    PROVE  Own(v)'
  <1>1. /\ tx'[v] = tx[v] /\ pc'[v] = pc[v] /\ item' = item /\ msg' = msg
        /\ todo' = todo /\ stream' = stream /\ audit \subseteq audit'
    BY CommitEffect DEF IInv, TypeOK, TxIs
  <1>2. /\ Rows(v)' = Rows(v) \cup tx[w].rows
        /\ \A q \in tx[w].rows : q.point \notin tx[v].points
        /\ \A q \in tx[v].rows : q.point \in tx[v].points
    BY CommitSeen
  <1>3. Locked(v)'
    BY <1>1 DEF IInv, Own, Locked
  <1>4. Fresh(v)'
    <2>1. \A r \in tx[v].rows, q \in tx[w].rows : ~Clash(r, q)
      BY <1>2 DEF IInv, Apart, Clash
    <2>2. ASSUME NEW r \in tx[v].rows PROVE receipts'[r.event] = None
      <3>1. \A q \in tx[w].rows : q.event # r.event
        BY <2>1 DEF Clash
      <3>2. receipts[r.event] = None /\ r.event \in Events
        BY RowsAreObservations, ObservationType DEF IInv, Own, Fresh
      <3> QED BY <3>1, <3>2, CommitEffect
    <2>3. \A r \in tx[v].rows, q \in Rows(v)' : Clash(r, q) => r = q
      BY <1>2, <2>1 DEF IInv, Own, Fresh
    <2> QED BY <1>1, <2>2, <2>3 DEF Fresh
  <1>5. Admitted(v)'
    BY <1>1, <1>2 DEF IInv, Own, Locked, Admitted
  <1>6. SeesLatest(v)'
    <2>1. ASSUME NEW p \in Points
          PROVE  Ledger!IsLatest(Latest(v, p)', p, Rows(v)')
      <3>1. /\ Ledger!IsLatest(Latest(v, p), p, Rows(v))
            /\ Ledger!IsLatest(Latest(w, p), p, Rows(w))
        BY DEF IInv, Own, SeesLatest
      <3>2. CASE p \in tx[v].points
        <4>1. Latest(v, p)' = Latest(v, p)
          BY <3>2, CommitSeen
        <4> QED BY <1>2, <3>1, <3>2, <4>1 DEF Ledger!IsLatest
      <3>3. CASE p \notin tx[v].points
        <4>1. Latest(v, p)' = Latest(w, p)
          BY <3>3, CommitSeen
        <4>2. \A x : x.point = p => (x \in Rows(v)' <=> x \in Rows(w))
          BY <1>2, <3>3 DEF Rows
        <4> QED BY <3>1, <4>1, <4>2 DEF Ledger!IsLatest
      <3> QED BY <3>2, <3>3
    <2> QED BY <2>1 DEF SeesLatest, Ledger!IsLatest
  <1>7. ExplainsGaps(v)'
    <2>1. SUFFICES ASSUME NEW a \in Rows(v)', NEW b \in Rows(v)',
                          Neighbours(a, b, Rows(v)')
                   PROVE  Explained(a, b, audit' \cup tx[v].notes)
      BY <1>1 DEF ExplainsGaps, Neighbours, Explained, ItemNote
    <2>2. a.point = b.point
      BY <2>1 DEF Neighbours
    <2>3. CASE a.point \in tx[v].points
      <3>1. a \in Rows(v) /\ b \in Rows(v) /\ Neighbours(a, b, Rows(v))
        BY <1>2, <2>1, <2>2, <2>3 DEF Neighbours
      <3>2. Explained(a, b, audit \cup tx[v].notes)
        BY <3>1 DEF IInv, Own, ExplainsGaps
      <3> QED BY <1>1, <3>2 DEF Explained
    <2>4. CASE a.point \notin tx[v].points
      <3>1. a \in Rows(w) /\ b \in Rows(w) /\ Rows(w) \subseteq Rows(v)'
        BY <1>2, <2>2, <2>4 DEF Rows
      <3>2. Neighbours(a, b, Rows(w))
        BY <2>1, <3>1 DEF Neighbours
      <3>3. Explained(a, b, audit \cup tx[w].notes)
        BY <3>1, <3>2 DEF IInv, Own, ExplainsGaps
      <3>4. audit' = audit \cup tx[w].notes
        BY CommitEffect
      <3> QED BY <3>3, <3>4 DEF Explained
    <2> QED BY <2>3, <2>4
  <1>8. Progress(v)'
    <2> DEFINE payload == stream[msg[v]]
    <2>1. CASE pc[v] \in InTx /\ payload.wellFormed
      <3>1. ASSUME NEW i \in DOMAIN payload.items, Handled(v, payload.items[i])
            PROVE  Handled(v, payload.items[i])'
        <4>1. payload.items[i] \in Observations
          BY <2>1, OpenFacts, MessageType DEF IInv
        <4> QED BY <1>1, <3>1, <4>1, ReceiptKept DEF Handled
      <3> QED BY <1>1, <2>1, <3>1 DEF IInv, Own, Progress, InTx
    <2>2. CASE pc[v] \in InTx /\ ~payload.wellFormed
      BY <1>1, <2>2 DEF IInv, Own, Progress, InTx
    <2>3. CASE pc[v] = "ack"
      <3>1. msg[v] \in Ids /\ pc[v] \notin InTx
        BY <2>3, WorkerType DEF IInv, InTx
      <3>2. Accounted(stream[msg[v]], msg[v])
        BY <2>3 DEF IInv, Own, Progress
      <3>3. PICK id \in Ids : id = msg[v]
        BY <3>1
      <3>4. Accounted(stream[id], id)'
        BY <3>2, <3>3, CommitKeepsAccounted
      <3>5. Accounted(stream[msg[v]], msg[v])'
        BY <1>1, <3>3, <3>4 DEF Accounted
      <3> QED BY <1>1, <2>3, <3>1, <3>5 DEF Progress
    <2>4. CASE pc[v] \notin InTx /\ pc[v] # "ack"
      BY <1>1, <2>4 DEF Progress
    <2> QED BY <2>1, <2>2, <2>3, <2>4
  <1> QED BY <1>3, <1>4, <1>5, <1>6, <1>7, <1>8 DEF Own

LEMMA CommitKeeps ==
    ASSUME IInv, TypeOK', NEW w \in Workers, Commit(w)
    PROVE  IInv'
  <1>1. ExactlyOnce' /\ CurrentIsLatest' /\ GapsExplained'
    BY CommitDatabase
  <1>2. Own(w)'
    <2>1. tx'[w] = NoTx /\ pc'[w] = "ack" /\ "ack" \in Pcs \ InTx
      BY DEF Commit, IInv, TypeOK, Pcs, InTx
    <2> QED BY <1>1, <2>1, CommitAccounts, OwnOutside
  <1>3. \A v \in Workers : Own(v)'
    BY <1>2, CommitOther
  <1>4. Serial'
    <2>1. pc' = [pc EXCEPT ![w] = "ack"] /\ "ack" \notin InTx
      BY DEF Commit, InTx
    <2> QED BY <2>1, SerialStep DEF IInv
  <1>5. Apart'
    BY CommitEffect, ApartStep DEF IInv, TxIs
  <1>6. AcknowledgedIsAccounted'
    <2>1. Acknowledged' = Acknowledged
      BY CommitEffect DEF Acknowledged
    <2>2. Acknowledged \subseteq Ids
      BY Pending DEF IInv, Acknowledged, Ids
    <2>3. \A id \in Acknowledged : Accounted(stream[id], id)'
      BY <2>2, CommitKeepsAccounted DEF IInv, AcknowledgedIsAccounted
    <2> QED BY <2>1, <2>3 DEF AcknowledgedIsAccounted, Accounted
  <1> QED BY <1>1, <1>3, <1>4, <1>5, <1>6 DEF IInv

-------------------------------------------------------------------------------
(* The environment, and the invariant. *)

LEMMA EnvironmentKeeps ==
    ASSUME IInv, TypeOK',
           \/ \E payload \in Payloads : Publish(payload)
           \/ Tick
           \/ \E id \in pel : GrowIdle(id)
           \/ UNCHANGED vars
    PROVE  IInv'
  <1>1. /\ UNCHANGED database /\ Acknowledged' = Acknowledged
        /\ pc' = pc /\ tx' = tx /\ item' = item /\ msg' = msg /\ todo' = todo
    BY DEF Publish, Tick, GrowIdle, vars, workers, broker, Acknowledged
  <1>2. \A id \in Ids : stream'[id] = stream[id]
    <2>1. ASSUME NEW payload \in Payloads, Publish(payload)
          PROVE  \A id \in Ids : stream'[id] = stream[id]
      BY <2>1, AppendProperties DEF Publish, IInv, TypeOK, Ids
    <2> QED BY <2>1 DEF Tick, GrowIdle, vars, broker
  <1>3. ExactlyOnce' /\ CurrentIsLatest' /\ GapsExplained'
    BY <1>1, DatabaseKept DEF IInv
  <1>4. ASSUME NEW v \in Workers PROVE Own(v)'
    <2>1. pc[v] \in InTx \cup {"ack"} => stream'[msg[v]] = stream[msg[v]]
      BY <1>2, WorkerType DEF IInv
    <2> QED BY <1>1, <2>1, OwnKept DEF IInv
  <1>5. Serial' /\ Apart'
    BY <1>1 DEF IInv, Serial, Apart
  <1>6. AcknowledgedIsAccounted'
    <2>1. Acknowledged \subseteq Ids
      BY Pending DEF IInv, Acknowledged, Ids
    <2> QED BY <1>1, <1>2, <2>1, AccountedKept DEF IInv
  <1> QED BY <1>3, <1>4, <1>5, <1>6 DEF IInv

LEMMA InvInit == Init => IInv
  <1> SUFFICES ASSUME Init PROVE IInv
    OBVIOUS
  <1>1. TypeOK
    BY TypeInit
  <1>2. ExactlyOnce /\ CurrentIsLatest /\ GapsExplained
    BY DEF Init, ExactlyOnce, CurrentIsLatest, GapsExplained
  <1>3. AcknowledgedIsAccounted
    BY DEF Init, AcknowledgedIsAccounted, Acknowledged
  <1>4. Serial /\ Apart
    BY DEF Init, Serial, Apart, InTx, NoTx
  <1>5. ASSUME NEW w \in Workers PROVE Own(w)
    <2>1. pc[w] = "poll" /\ tx[w] = NoTx
      BY DEF Init
    <2>2. Locked(w) /\ Fresh(w) /\ Admitted(w)
      BY <2>1 DEF Locked, Fresh, Admitted, NoTx
    <2>3. SeesLatest(w) /\ ExplainsGaps(w)
      BY <2>1 DEF Init, SeesLatest, ExplainsGaps, Latest, Rows, NoTx, Ledger!IsLatest
    <2>4. Progress(w)
      BY <2>1 DEF Progress, InTx
    <2> QED BY <2>2, <2>3, <2>4 DEF Own
  <1> QED BY <1>1, <1>2, <1>3, <1>4, <1>5 DEF IInv

LEMMA InvStep == IInv /\ [Next]_vars => IInv'
  <1> SUFFICES ASSUME IInv, [Next]_vars PROVE IInv'
    OBVIOUS
  <1>1. TypeOK'
    BY TypeStep DEF IInv
  <1>2. ASSUME NEW w \in Workers, WorkerStep(w)
        PROVE  IInv'
    <2>1. CASE Reclaim(w) \/ ReadNew(w) \/ IdlePoll(w)
      BY <1>1, <2>1, PollKeeps
    <2>2. CASE Begin(w)
      BY <1>1, <2>2, BeginKeeps
    <2>3. CASE NextItem(w)
      BY <1>1, <2>3, NextItemKeeps
    <2>4. CASE LastItem(w)
      BY <1>1, <2>4, LastItemKeeps
    <2>5. CASE Lookup(w)
      BY <1>1, <2>5, LookupKeeps
    <2>6. CASE Claim(w)
      BY <1>1, <2>6, ClaimKeeps
    <2>7. CASE PutHealth(w)
      BY <1>1, <2>7, PutHealthKeeps
    <2>8. CASE Commit(w)
      BY <1>1, <2>8, CommitKeeps
    <2>9. CASE Ack(w)
      BY <1>1, <2>9, AckKeeps
    <2> QED
      BY <1>2, <2>1, <2>2, <2>3, <2>4, <2>5, <2>6, <2>7, <2>8, <2>9 DEF WorkerStep
  <1>3. ASSUME NEW w \in Workers, Raise(w) \/ Crash(w) \/ DeadlockAbort(w)
        PROVE  IInv'
    BY <1>1, <1>3, RestartKeeps DEF Raise, Crash, DeadlockAbort
  <1>4. CASE \/ \E payload \in Payloads : Publish(payload)
             \/ Tick
             \/ \E id \in pel : GrowIdle(id)
             \/ UNCHANGED vars
    BY <1>1, <1>4, EnvironmentKeeps
  <1> QED BY <1>2, <1>3, <1>4 DEF Next, Step

\* Whatever the workers do, and wherever they end: what is acknowledged is committed
\* (NothingLost), no two transactions write the same rows, and every transaction sees
\* a consistent past of the points it has locked.
THEOREM InductiveInvariant == Spec => []IInv
  BY InvInit, InvStep, PTL DEF Spec

\* The types of the broker, the database and every worker: above all, a message
\* a worker holds is pending or was stolen, and an open transaction works on a
\* message of the stream (workers/ingestion.py, ingestion.py).
THEOREM TypeCorrect == Spec => []TypeOK
  <1>1. IInv => TypeOK
    BY DEF IInv
  <1> QED BY <1>1, InductiveInvariant, PTL

\* However many workers run, and however often messages are redelivered, stolen
\* or processed twice, an event and a point's device time have one row, one
\* receipt and one outbox item.
THEOREM OneEffectPerEvent == Spec => []ExactlyOnce
  <1>1. IInv => ExactlyOnce
    BY DEF IInv
  <1> QED BY <1>1, InductiveInvariant, PTL

\* The current value of a point is its latest row in whatever order the workers
\* insert and commit.
THEOREM CurrentValueIsLatest == Spec => []CurrentIsLatest
  <1>1. IInv => CurrentIsLatest
    BY DEF IInv
  <1> QED BY <1>1, InductiveInvariant, PTL

\* No observation of an acknowledged message is lost, whoever acknowledged it
\* and whatever crashed before.
THEOREM NothingLost == Spec => []AcknowledgedIsAccounted
  <1>1. IInv => AcknowledgedIsAccounted
    BY DEF IInv
  <1> QED BY <1>1, InductiveInvariant, PTL

\* Every gap between neighbouring rows of a point is explained in the audit log.
THEOREM GapsReported == Spec => []GapsExplained
  <1>1. IInv => GapsExplained
    BY DEF IInv
  <1> QED BY <1>1, InductiveInvariant, PTL

\* No insert of a transaction can fail on a unique index: its rows clash with
\* no committed row and with no row of another open transaction.
THEOREM NoInsertClashes == Spec => []OpenRowsDisjoint
  <1>1. IInv => OpenRowsDisjoint
    <2> SUFFICES ASSUME IInv, NEW w \in Workers, NEW v \in Workers, w # v,
                        NEW r \in tx[w].rows, NEW q \in telemetry \cup tx[v].rows
                 PROVE  ~Clash(r, q)
      BY DEF OpenRowsDisjoint, Clash
    <2>1. CASE q \in telemetry
      <3>1. receipts[r.event] = None /\ r \in Observations
        BY RowsAreObservations DEF IInv, Own, Fresh
      <3>2. r # q
        BY <2>1, <3>1, NoneIsNoObservation DEF IInv, ExactlyOnce
      <3> QED BY <2>1, <3>2 DEF IInv, Own, Fresh, Rows
    <2>2. CASE q \in tx[v].rows
      <3>1. r.point \in tx[w].points /\ q.point \in tx[v].points
        BY <2>2 DEF IInv, Own, Locked
      <3> QED BY <2>2, <3>1 DEF IInv, Apart, Clash
    <2> QED BY <2>1, <2>2
  <1> QED BY <1>1, InductiveInvariant, PTL

-------------------------------------------------------------------------------
(* Ingestion implements the telemetry ledger. *)

LEMMA LedgerInit == Init => Ledger!Init
  BY DEF Init, Ledger!Init

\* A commit accepts the rows of its transaction.
LEMMA CommitAccepts ==
    ASSUME IInv, NEW w \in Workers, Commit(w)
    PROVE  Ledger!Accept(tx[w].rows) /\ tx[w].rows \in SUBSET Observations
  <1>1. tx[w].rows \subseteq Observations
    BY RowsAreObservations DEF IInv
  <1>2. ASSUME NEW o \in tx[w].rows, NEW x \in Rows(w) \ {o}
        PROVE  Ledger!Compatible(o, x)
    BY DEF IInv, Own, Fresh, Clash, Ledger!Compatible
  <1>3. tx[w].rows \cap telemetry = {}
    BY <1>1, NoneIsNoObservation DEF IInv, Own, Fresh, ExactlyOnce
  <1>4. outbox' = [o \in Observations |-> IF o \in tx[w].rows THEN 1 ELSE outbox[o]]
    <2>1. \A o \in tx[w].rows : outbox[o] = 0
      BY <1>1, <1>3 DEF IInv, ExactlyOnce
    <2> QED BY <2>1 DEF Commit
  <1>5. current' \in [Points -> Observations \cup {None}]
    BY StoredType DEF Commit, IInv, Optional
  <1>6. \A p \in Points : Ledger!IsLatest(current'[p], p, telemetry')
    BY CommitEffect DEF IInv, Own, SeesLatest
  <1>7. telemetry' = telemetry \cup tx[w].rows
    BY DEF Commit
  <1> QED BY <1>1, <1>2, <1>3, <1>4, <1>5, <1>6, <1>7 DEF Ledger!Accept, Rows

LEMMA LedgerStep == IInv /\ [Next]_vars => [Ledger!Next]_(Ledger!vars)
  <1> SUFFICES ASSUME IInv, [Next]_vars PROVE [Ledger!Next]_(Ledger!vars)
    OBVIOUS
  <1>1. ASSUME NEW w \in Workers, Commit(w)
        PROVE  Ledger!Next
    BY <1>1, CommitAccepts DEF Ledger!Next
  <1>2. CASE ~\E w \in Workers : Commit(w)
    <2>1. UNCHANGED database
      BY <1>2
      DEF Next, Step, WorkerStep, Publish, Tick, GrowIdle, Reclaim, ReadNew, IdlePoll,
          Begin, NextItem, LastItem, Lookup, Claim, PutHealth, Ack, Raise, Crash,
          DeadlockAbort, Restart, vars
    <2> QED BY <2>1 DEF database, Ledger!vars
  <1> QED BY <1>1, <1>2

\* Whatever crashes, retries and races there are, the rest of the platform sees
\* telemetry grow a whole transaction at a time, with its outbox items and the
\* current values of its points.
THEOREM ImplementsLedger == Spec => LedgerSpec
  BY LedgerInit, LedgerStep, InductiveInvariant, PTL DEF Spec, Ledger!Spec, LedgerSpec

\* The behaviours of the timely environment are behaviours of Spec, so that all
\* of the above holds under FairSpec too.
THEOREM FairIsSpec == FairSpec => Spec
  <1>1. [TimelyNext]_vars => [Next]_vars
    <2>1. \A id \in pel : Abandon(id) => GrowIdle(id)
      BY DEF Abandon
    <2> QED BY <2>1 DEF TimelyNext, Next
  <1> QED BY <1>1, PTL DEF FairSpec, Spec
==============================================================================
