-------------------------- MODULE QueuedPersister --------------------------
(***************************************************************************)
(* The persisters that do not keep files: MemoryPersister and BDBPersister *)
(* (runtime/persist.cpp), MemcachedPersister and HiredisPersister, each    *)
(* under the session that calls it.  A database is a set of records        *)
(* <<key, text>>; key 0 holds the control record.  The Berkeley database   *)
(* is written by a worker thread behind a queue, which an acceptor's       *)
(* session ends when it stops, while others may still put; the redis       *)
(* client needs two commands to replace the control record.                *)
(***************************************************************************)
EXTENDS Integers, Sequences, FiniteSets

CONSTANTS
    Kinds,      \* the persisters to check
    Radix,      \* values of a byte: keys are compared bytewise after a purge
    Tearing,    \* the process may be killed between the two redis commands
    Overtaking, \* a session starts again while puts are still queued
    Racing,     \* a receipt is recorded between a put and the count of what was sent
    MaxSeq,     \* largest number a message is put under
    MaxRcv,     \* largest number expected from the peer
    MaxQueries, \* range queries
    MaxCrashes, \* processes killed
    MaxOpens    \* persisters opened

ASSUME PersisterAssumption ==
    /\ Kinds \subseteq {"memory", "bdb", "memcached", "redis"}
    /\ Radix \in Nat \ {0, 1}
    /\ {Tearing, Overtaking, Racing} \subseteq BOOLEAN
    /\ {MaxSeq, MaxRcv, MaxQueries, MaxCrashes, MaxOpens} \subseteq Nat

VARIABLES
    kind,     \* the persister in use
    role,     \* of the connection: "initiator" or "acceptor"
    up,       \* it is open
    ended,    \* "no", "stopped" by an acceptor's session, or "killed"
    bytewise, \* BDB: opened for a purge, so without bt_compare_fcn
    db,       \* what is stored
    queue,    \* BDB: records the worker has not written yet
    worker,   \* BDB: the worker thread runs
    half,     \* redis: the control record being replaced, or None
    snd, rcv, \* the session's next send and receive numbers
    due,      \* the control record the session has to put: "none", that of its
              \* "logon", or of the "message" it has put
    counts,   \* the sender has put its records and not yet counted the number
    query,    \* the range query in progress
    text,     \* texts given out so far
    accepted, \* what the store would hold had each put of the running session
              \* been written at once
    used      \* how much of each bound is used up

session == <<role, snd, rcv, due, counts>>
vars == <<kind, up, ended, bytewise, db, queue, worker, half, session, query, text, accepted, used>>

None == <<>>

Record(key, t) == <<key, t>>

(* Control records and message texts are kept apart by their length.       *)
Message(n) == <<n>>
Control(s, r) == <<s, r>>

KeysOf(d) == {r[1] : r \in d}

NoQuery == [on |-> FALSE, from |-> 0, finish |-> 0, pos |-> <<0, 0>>, snap |-> {},
            given |-> <<>>, want |-> {}, told |-> FALSE]

owes == due # "none"

(* The worker has been told to end, and what is put stays in the queue.    *)
Deaf == kind = "bdb" /\ ended = "stopped"

Use(c, max) == used[c] < max /\ used' = [used EXCEPT ![c] = @ + 1]

-----------------------------------------------------------------------------
(* The stores *)

(* bt_compare_fcn, or the bytewise order of little-endian keys.            *)
KeyLess(a, b) ==
    IF bytewise
    THEN \/ a % Radix < b % Radix
         \/ a % Radix = b % Radix /\ a \div Radix < b \div Radix
    ELSE a < b

(* What the store holds after r is put: a map keeps the first value, a     *)
(* database the last, a sorted set every member, each under one score.     *)
Stored(d, r) ==
    CASE kind = "memory" -> IF r[1] \in KeysOf(d) THEN d ELSE d \cup {r}
      [] kind = "redis"  -> {x \in d : x[2] # r[2]} \cup {r}
      [] kind \in {"bdb", "memcached"} -> {x \in d : x[1] # r[1]} \cup {r}

(* The control records that get() may return.  MemoryPersister reads them  *)
(* from the bytes of the string object: any numbers at all.                *)
ControlRecords(d) ==
    LET c == {x \in d : x[1] = 0}
    IN  CASE kind = "memory" -> IF c = {} THEN {} ELSE {Control(s, r) : s \in 1 .. MaxSeq + 1, r \in 1 .. MaxRcv}
          [] kind = "redis"  -> IF Cardinality(c) = 1 THEN {x[2] : x \in c} ELSE {}
          [] kind \in {"bdb", "memcached"} -> {x[2] : x \in c}

(* get_last_seqnum; MemcachedPersister takes the sender's next number.     *)
LastSeqnum(d) ==
    IF kind = "memcached"
    THEN IF ControlRecords(d) = {} THEN 0 ELSE (CHOOSE c \in ControlRecords(d) : TRUE)[1]
    ELSE IF d = {} THEN 0
    ELSE CHOOSE k \in KeysOf(d) : \A j \in KeysOf(d) : j = k \/ KeyLess(j, k)

(* Mutant: the search ends before the last number.                         *)
find_nearest_highest_seqnum_short(from, last, d) ==
    LET found == {k \in KeysOf(d) : from <= k /\ k < last}
    IN  IF found = {} THEN 0 ELSE CHOOSE k \in found : \A j \in found : k <= j

find_nearest_highest_seqnum(from, last, d) ==
    LET found == {k \in KeysOf(d) : from <= k /\ k <= last}
    IN  IF found = {} THEN 0 ELSE CHOOSE k \in found : \A j \in found : k <= j

-----------------------------------------------------------------------------
(* put *)

(* One put: BDB only queues it.                                            *)
write(r) ==
    IF kind = "bdb" THEN queue' = Append(queue, r) /\ UNCHANGED <<db, half>>
    ELSE db' = Stored(db, r) /\ UNCHANGED <<queue, half>>

(* A map must not be changed while a query walks it: the model leaves that *)
(* race of MemoryPersister out.  Session::stop holds the lock of the puts  *)
(* until the worker has ended.                                             *)
MayPut ==
    /\ up /\ half = None
    /\ kind = "memory" => ~query.on
    /\ ended = "stopped" => ~worker

(* What is put, of a session that has not stopped the worker.              *)
Accept(d, r) == accepted' = IF Deaf THEN accepted ELSE Stored(d, r)

(* send_process puts the message ...                                       *)
PutMessage ==
    /\ MayPut /\ ~owes /\ ~counts /\ snd <= MaxSeq
    /\ write(Record(snd, Message(text + 1)))
    /\ text' = text + 1
    /\ due' = "message"
    /\ Accept(accepted, Record(snd, Message(text + 1)))
    /\ UNCHANGED <<kind, role, up, ended, bytewise, worker, snd, rcv, counts, query, used>>

(* Mutant: redis adds the new control record and keeps the old one.        *)
PutControlAs_adds(s, r) ==
    /\ MayPut
    /\ IF kind = "redis"
       THEN half' = Control(s, r) /\ UNCHANGED <<db, queue>>
       ELSE write(Record(0, Control(s, r)))
    /\ rcv' = r
    /\ Accept({x \in accepted : kind = "redis" => x[1] # 0}, Record(0, Control(s, r)))
    /\ UNCHANGED <<kind, role, up, ended, bytewise, worker, snd, query, text, used>>

(* ... and the control record; process() puts one after each receipt.      *)
PutControlAs(s, r) ==
    /\ MayPut
    /\ IF kind = "redis"
       THEN /\ db' = {x \in db : x[1] # 0}
            /\ half' = Control(s, r)
            /\ UNCHANGED queue
       ELSE write(Record(0, Control(s, r)))
    /\ rcv' = r
    /\ Accept({x \in accepted : kind = "redis" => x[1] # 0}, Record(0, Control(s, r)))
    /\ UNCHANGED <<kind, role, up, ended, bytewise, worker, snd, query, text, used>>

PutSent ==
    /\ owes /\ ~counts /\ snd <= MaxSeq
    /\ PutControlAs(snd + 1, rcv)
    /\ due' = "none" /\ counts' = TRUE

(* A message of the session layer leaves a number without a record.        *)
PutAdmin ==
    /\ ~owes /\ ~counts /\ snd < MaxSeq
    /\ PutControlAs(snd + 1, rcv)
    /\ counts' = TRUE
    /\ UNCHANGED due

(* ++_next_send_seq, after the lock of the puts is released.               *)
Count ==
    /\ counts
    /\ snd' = snd + 1 /\ counts' = FALSE
    /\ UNCHANGED <<kind, role, up, ended, bytewise, db, queue, worker, half, rcv, due, query, text,
                   accepted, used>>

(* The reader takes the send number as it finds it.                        *)
PutReceived ==
    /\ ~owes /\ rcv < MaxRcv
    /\ counts => Racing
    /\ PutControlAs(snd, rcv + 1)
    /\ UNCHANGED <<due, counts>>

(* A refused logon is recorded after stop(), and never answered.           *)
PutRefused ==
    /\ due = "logon" /\ ~counts /\ ended = "stopped" /\ rcv < MaxRcv
    /\ PutControlAs(snd, rcv + 1)
    /\ UNCHANGED <<due, counts>>

(* The second of the two commands: ZADD.                                   *)
ZAdd ==
    /\ half # None
    /\ db' = Stored(db, Record(0, half))
    /\ half' = None
    /\ UNCHANGED <<kind, up, ended, bytewise, queue, worker, session, query, text, accepted, used>>

(* Mutant: the worker takes the newest record.                             *)
WorkerWrites_newest ==
    /\ worker /\ queue # <<>>
    /\ LET r == queue[Len(queue)]
       IN  /\ worker' = (r # None)
           /\ db' = IF r = None THEN db ELSE Stored(db, r)
    /\ queue' = SubSeq(queue, 1, Len(queue) - 1)
    /\ UNCHANGED <<kind, up, ended, bytewise, half, session, query, text, accepted, used>>

(* Mutant: a control record passes for the empty buffer.                   *)
WorkerWrites_quits ==
    /\ worker /\ queue # <<>>
    /\ LET r == Head(queue)
       IN  /\ worker' = (r # None /\ r[1] # 0)
           /\ db' = IF r = None THEN db ELSE Stored(db, r)
    /\ queue' = Tail(queue)
    /\ UNCHANGED <<kind, up, ended, bytewise, half, session, query, text, accepted, used>>

(* BDBPersister::operator(): an empty buffer, here None, means exit.       *)
WorkerWrites ==
    /\ worker /\ queue # <<>>
    /\ LET r == Head(queue)
       IN  /\ worker' = (r # None)
           /\ db' = IF r = None THEN db ELSE Stored(db, r)
    /\ queue' = Tail(queue)
    /\ UNCHANGED <<kind, up, ended, bytewise, half, session, query, text, accepted, used>>

-----------------------------------------------------------------------------
(* The range query *)

(* Records the query is to hand over: what the store holds in its range.   *)
InRange(d, from, to) == {x \in d : from <= x[1] /\ x[1] # 0 /\ (to = 0 \/ x[1] <= to)}

GetStart ==
    /\ up /\ ~query.on
    /\ Use("queries", MaxQueries)
    /\ \E from \in 1 .. MaxSeq + 1, to \in 0 .. MaxSeq :
          /\ to = 0 \/ from <= to
          /\ LET last   == LastSeqnum(db)
                 start  == IF kind = "redis" THEN from
                           ELSE find_nearest_highest_seqnum(from, last, db)
                 finish == IF to = 0 THEN last ELSE to
             IN  query' = [on |-> TRUE, from |-> from,
                           finish |-> IF start = 0 \/ from > finish THEN 0 ELSE finish,
                           pos |-> <<start, 0>>, snap |-> IF kind = "redis" THEN db ELSE {},
                           given |-> <<>>, want |-> InRange(db, from, to), told |-> FALSE]
    /\ UNCHANGED <<kind, up, ended, bytewise, db, queue, worker, half, session, text, accepted>>

(* A cursor or a loop over keys sees what is stored meanwhile; the redis   *)
(* client has one answer.                                                  *)
View == IF kind = "redis" THEN query.snap ELSE db

After(p, x) == \/ KeyLess(p[1], x[1])
               \/ p[1] = x[1] /\ (IF x[1] = 0 THEN FALSE ELSE p[2] < x[2][1])

Ahead == {x \in View : After(query.pos, x)}

NextRecord(x) ==
    /\ x \in Ahead
    /\ \A y \in Ahead \ {x} : After(<<x[1], IF x[1] = 0 THEN 0 ELSE x[2][1]>>, y)

(* The callback for one record, which succeeds here: one that returns      *)
(* false ends the walk.                                                    *)
GetNext ==
    /\ query.on /\ ~query.told
    /\ \E x \in Ahead :
          /\ NextRecord(x)
          /\ x[1] # 0 /\ x[1] <= query.finish
          /\ query' = [query EXCEPT !.given = Append(@, x),
                                    !.pos = <<x[1], IF kind = "redis" THEN x[2][1] ELSE text + 1>>]
    /\ UNCHANGED <<kind, up, ended, bytewise, db, queue, worker, half, session, text, accepted, used>>

(* Mutant: a query that finds nothing does not call back.                  *)
GetEnd_silent ==
    /\ query.on /\ ~query.told /\ query.given # <<>>
    /\ \A x \in Ahead : NextRecord(x) => x[1] = 0 \/ x[1] > query.finish
    /\ query' = [query EXCEPT !.told = TRUE]
    /\ UNCHANGED <<kind, up, ended, bytewise, db, queue, worker, half, session, text, accepted, used>>

(* The last callback, with _no_more_records.                               *)
GetEnd ==
    /\ query.on /\ ~query.told
    /\ \A x \in Ahead : NextRecord(x) => x[1] = 0 \/ x[1] > query.finish
    /\ query' = [query EXCEPT !.told = TRUE]
    /\ UNCHANGED <<kind, up, ended, bytewise, db, queue, worker, half, session, text, accepted, used>>

GetReturns ==
    /\ query.told
    /\ query' = NoQuery
    /\ UNCHANGED <<kind, up, ended, bytewise, db, queue, worker, half, session, text, accepted, used>>

-----------------------------------------------------------------------------
(* Opening, stopping, dying *)

(* recover_seqnums: without a control record both numbers are 1.           *)
Recovered(d) ==
    IF ControlRecords(d) = {} THEN snd' = 1 /\ rcv' = 1
    ELSE \E c \in ControlRecords(d) : snd' = c[1] /\ rcv' = c[2]

(* initialise, and the session recovering its numbers, which then owes the *)
(* control record of its logon.                                            *)
Open ==
    /\ ~up /\ ~worker
    /\ Use("opens", MaxOpens)
    /\ \E purge \in BOOLEAN :
          LET d == IF purge \/ kind = "memory" THEN {} ELSE db
          IN  /\ db' = d
              /\ bytewise' = (kind = "bdb" /\ purge)
              /\ Recovered(d)
              /\ accepted' = d
    /\ up' = TRUE /\ ended' = "no" /\ due' = "logon" /\ counts' = FALSE
    /\ worker' = (kind = "bdb")
    /\ UNCHANGED <<kind, role, queue, half, query, text>>

(* A reliable client starts its session again over the same persister: the *)
(* control record is read past the queue.                                  *)
Recover ==
    /\ role = "initiator"
    /\ queue # <<>> => Overtaking
    /\ up /\ ~owes /\ ~counts /\ half = None /\ ~query.on
    /\ Use("recovers", 1)
    /\ Recovered(db)
    /\ due' = "logon"
    /\ UNCHANGED <<kind, role, up, ended, bytewise, db, queue, worker, half, counts, query, text,
                   accepted>>

(* Session::stop of an acceptor, with the lock of the puts: BDB queues an  *)
(* empty buffer and joins the worker; the others have nothing to stop.     *)
SessionStop ==
    /\ role = "acceptor" /\ up /\ ended = "no"
    /\ half = None /\ due # "message"
    /\ ended' = "stopped"
    /\ queue' = IF kind = "bdb" THEN Append(queue, None) ELSE queue
    /\ UNCHANGED <<kind, up, bytewise, db, worker, half, session, query, text, accepted, used>>

(* Mutant: the destructor does not wait for the worker.                    *)
StopBegins_unjoined ==
    /\ up /\ due # "message" /\ ~counts /\ half = None /\ ~query.on
    /\ ended = "stopped" => ~worker
    /\ up' = FALSE /\ worker' = FALSE /\ queue' = <<>>
    /\ UNCHANGED <<kind, ended, bytewise, db, half, session, query, text, accepted, used>>

(* The destructor stops BDB in the same way.  A worker that has ended is   *)
(* not started again: what is left in the queue goes with it.              *)
StopBegins ==
    /\ up /\ due # "message" /\ ~counts /\ half = None /\ ~query.on
    /\ ended = "stopped" => ~worker
    /\ up' = FALSE
    /\ queue' = IF worker THEN Append(queue, None) ELSE <<>>
    /\ UNCHANGED <<kind, ended, bytewise, db, worker, half, session, query, text, accepted, used>>

Crash ==
    /\ up \/ worker
    /\ half # None => Tearing
    /\ Use("crashes", MaxCrashes)
    /\ up' = FALSE /\ ended' = "killed" /\ worker' = FALSE /\ queue' = <<>> /\ half' = None
    /\ due' = "none" /\ counts' = FALSE /\ query' = NoQuery /\ accepted' = {}
    /\ UNCHANGED <<kind, role, bytewise, db, snd, rcv, text>>

Init ==
    /\ kind \in Kinds /\ role \in {"initiator", "acceptor"}
    /\ up = FALSE /\ ended = "no" /\ bytewise = FALSE
    /\ db = {} /\ queue = <<>> /\ worker = FALSE /\ half = None
    /\ snd = 1 /\ rcv = 1 /\ due = "none" /\ counts = FALSE /\ query = NoQuery
    /\ text = 0 /\ accepted = {}
    /\ used = [c \in {"queries", "crashes", "opens", "recovers"} |-> 0]

Next ==
    \/ PutMessage
    \/ PutSent
    \/ PutAdmin
    \/ Count
    \/ PutReceived
    \/ PutRefused
    \/ ZAdd
    \/ WorkerWrites
    \/ GetStart
    \/ GetNext
    \/ GetEnd
    \/ GetReturns
    \/ Open
    \/ Recover
    \/ SessionStop
    \/ StopBegins
    \/ Crash

Spec == Init /\ [][Next]_vars

(* The worker thread and a query in progress keep running.                 *)
FairSpec == Spec /\ WF_vars(WorkerWrites) /\ WF_vars(GetNext \/ GetEnd)

-----------------------------------------------------------------------------
(* Properties *)

(* A query hands over, in ascending order, every message that was in the   *)
(* store when it began: what it misses was still in the queue of the       *)
(* worker (get of the four persisters; retrans_callback fills the holes).  *)
QueryComplete ==
    query.on =>
        /\ \A i, j \in DOMAIN query.given : i < j => query.given[i][1] < query.given[j][1]
        /\ query.told => KeysOf(query.want) \subseteq {query.given[i][1] : i \in DOMAIN query.given}

(* At any moment the process could be killed, and the control record left   *)
(* behind would not be below the number of any message left behind: the    *)
(* queue keeps the order of the puts.  (Not the memory persister, which    *)
(* dies with its process.)                                                 *)
ControlCovers ==
    kind # "memory" /\ half = None =>
        \A k \in KeysOf(db) \ {0} : \E x \in db : x[1] = 0 /\ k <= x[2][1]

(* Once the destructor is through, what was put before the session stopped *)
(* is stored: the worker has written all that was queued before the empty  *)
(* buffer (BDBPersister::stop).  What is put after an acceptor's session   *)
(* has stopped the worker is accepted with "true" and never written.       *)
StopDrains == ~up /\ ~worker /\ ended # "killed" => db = accepted

(* A session that starts again over its open persister goes on with the    *)
(* numbers it had (recover_seqnums, get of the control record): with a     *)
(* send number one too low, at worst, when the receipt recorded last found *)
(* a sender between its put and its count.  It fails for MemoryPersister,  *)
(* whose get reads the bytes of a string object.                           *)
RecoversItsNumbers ==
    [][kind # "memory" /\ used'["recovers"] # used["recovers"]
          => /\ rcv' = rcv
             /\ snd' = snd \/ (Racing /\ snd' = snd - 1)]_vars

(* What a running worker has in its queue reaches the database, or the     *)
(* process dies.                                                           *)
Drained == queue # <<>> /\ worker ~> queue = <<>>

(* Every query gets the callback that ends the resend.                     *)
QueryAnswered == query.on ~> (query.told \/ ~query.on)

=============================================================================
