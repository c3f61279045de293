--------------------------- MODULE FilePersister ---------------------------
(***************************************************************************)
(* The file persister (runtime/filepersist.cpp): an index file of fixed    *)
(* size records, a data file, and the index in memory.  put() and the      *)
(* range query share the position of the data file's descriptor, and each  *)
(* takes several system calls.  The session calls put() under its          *)
(* persister lock and the range query under none.                          *)
(***************************************************************************)
EXTENDS Naturals, Sequences, FiniteSets

CONSTANTS
    SeqNums,   \* sequence numbers messages are put under
    Texts,     \* message strings: records with a field size
    Numbers,   \* sequence numbers written to the control record
    None,      \* no index entry
    Unlocked,  \* pm_thread: a put may run during a range query
    Tearing    \* the process may be killed between the two writes of a put

ASSUME PersisterAssumption ==
    /\ SeqNums \subseteq Nat \ {0}
    /\ Numbers \subseteq Nat
    /\ \A t \in Texts : t.size \in Nat \ {0}
    /\ None \notin Texts
    /\ None \notin [off: Nat, size: Nat]
    /\ Unlocked \in BOOLEAN
    /\ Tearing \in BOOLEAN

VARIABLES
    idx,     \* the index file: its records
    dat,     \* the data file: its bytes, each named by its text and place
    index,   \* _index: from sequence numbers to places in the data file
    fpos,    \* position of the data file's descriptor
    writer,  \* a put between its two writes
    query,   \* the range query
    got      \* the message handed to the last callback

vars == <<idx, dat, index, fpos, writer, query, got>>

Keys == SeqNums \cup {0}

Prec == [off: Nat, size: Nat]

Idle == [on |-> FALSE]

NoQuery == [on |-> FALSE, want |-> {}, sent |-> {}]

Stored == {q \in SeqNums : index[q] # None}

-----------------------------------------------------------------------------
(* Reading and writing the data file *)

(* Text t stands at offset p of the file.                                  *)
Holds(file, p, t) ==
    /\ p + t.size <= Len(file)
    /\ \A k \in 1 .. t.size : file[p + k] = <<t, k>>

(* What read() of size bytes at p returns: a text, None when the file is   *)
(* too short, or bytes that are no text.                                   *)
ReadAt(file, p, size) ==
    IF p + size > Len(file) THEN None
    ELSE IF \E t \in Texts : t.size = size /\ Holds(file, p, t)
         THEN CHOOSE t \in Texts : t.size = size /\ Holds(file, p, t)
         ELSE [k \in 1 .. size |-> file[p + k]]

(* The file after text t is written at p.                                  *)
Written(p, t) ==
    [i \in 1 .. (IF p + t.size > Len(dat) THEN p + t.size ELSE Len(dat)) |->
        IF p < i /\ i <= p + t.size THEN <<t, i - p>> ELSE dat[i]]

-----------------------------------------------------------------------------
(* initialise: the index read from its file.  A number met a second time   *)
(* is ignored.                                                             *)
First(file, q) ==
    CHOOSE i \in DOMAIN file :
        file[i].seq = q /\ \A j \in DOMAIN file : file[j].seq = q => i <= j

Load(file) ==
    [q \in Keys |-> IF \E i \in DOMAIN file : file[i].seq = q
                    THEN file[First(file, q)].prec ELSE None]

(* The process ends, in an orderly way or not, and another one opens the   *)
(* files.                                                                  *)
initialise(purge) ==
    /\ writer.on => Tearing
    /\ idx' = IF purge THEN <<>> ELSE idx
    /\ dat' = IF purge THEN <<>> ELSE dat
    /\ index' = Load(idx')
    /\ fpos' = 0
    /\ writer' = Idle
    /\ query' = NoQuery
    /\ got' = IF purge THEN None ELSE got

(* Mutant: the control record is appended like any other.                  *)
put_control_appends(snd, rcv) ==
    LET prec == [off |-> snd, size |-> rcv]
    IN  /\ ~writer.on
        /\ index' = [index EXCEPT ![0] = prec]
        /\ idx' = Append(idx, [seq |-> 0, prec |-> prec])
        /\ Len(idx) < 4
        /\ UNCHANGED <<dat, fpos, writer, query, got>>

(* The control record is the first record of the index file.               *)
put_control(snd, rcv) ==
    LET prec == [off |-> snd, size |-> rcv]
        rec  == [seq |-> 0, prec |-> prec]
    IN  /\ ~writer.on
        /\ index' = [index EXCEPT ![0] = prec]
        /\ idx' = IF idx = <<>> THEN <<rec>> ELSE [idx EXCEPT ![1] = rec]
        /\ UNCHANGED <<dat, fpos, writer, query, got>>

(* Mutant: the descriptor is not moved to the end before the write.        *)
PutIndex_unsought(q, t) ==
    /\ ~writer.on
    /\ query.on => Unlocked
    /\ index[0] # None
    /\ index[q] = None
    /\ idx' = Append(idx, [seq |-> q, prec |-> [off |-> Len(dat), size |-> t.size]])
    /\ writer' = [on |-> TRUE, seq |-> q, text |-> t, off |-> Len(dat)]
    /\ UNCHANGED <<dat, index, fpos, query, got>>

(* put: the index record is written first ...  The session has sent its    *)
(* logon, and with it a control record, before any message that it puts.   *)
PutIndex(q, t) ==
    /\ ~writer.on
    /\ query.on => Unlocked
    /\ index[0] # None
    /\ index[q] = None
    /\ idx' = Append(idx, [seq |-> q, prec |-> [off |-> Len(dat), size |-> t.size]])
    /\ fpos' = Len(dat)
    /\ writer' = [on |-> TRUE, seq |-> q, text |-> t, off |-> Len(dat)]
    /\ UNCHANGED <<dat, index, query, got>>

(* ... then the message, wherever the descriptor stands by now; then the   *)
(* index in memory.                                                        *)
PutData ==
    /\ writer.on
    /\ dat' = Written(fpos, writer.text)
    /\ fpos' = fpos + writer.text.size
    /\ index' = [index EXCEPT ![writer.seq] =
                    [off |-> writer.off, size |-> writer.text.size]]
    /\ writer' = Idle
    /\ UNCHANGED <<idx, query, got>>

-----------------------------------------------------------------------------
(* The range query *)

Least(n, S) == n \in S /\ \A p \in S : n <= p

(* last is get_last_seqnum: the greatest number stored, or 0.              *)
IsLast(last) == last \in Stored \cup {0} /\ \A p \in Stored : p <= last

(* The numbers find_nearest_highest_seqnum looks for the least of.         *)
Candidates(from, last) == {q \in Stored : from <= q /\ q <= last}

Ended(qu) == [on |-> FALSE, want |-> qu.want, sent |-> qu.sent]

(* want and sent record what the query should hand over and what it did.   *)
GetStart(from, to) ==
    /\ ~query.on
    /\ writer.on => Unlocked
    /\ to = 0 \/ from <= to
    /\ \E last \in Keys :
          LET finish == IF to = 0 THEN last ELSE to
              found  == Candidates(from, last)
              want   == {q \in Stored : from <= q /\ (to = 0 \/ q <= to)}
          IN  /\ IsLast(last)
              /\ \/ /\ found = {} \/ from > finish
                    /\ query' = [on |-> FALSE, want |-> want, sent |-> {}]
                 \/ /\ found # {} /\ from <= finish
                    /\ \E at \in found :
                          /\ Least(at, found)
                          /\ query' = [on |-> TRUE, at |-> at, finish |-> finish,
                                       sought |-> FALSE, want |-> want, sent |-> {}]
    /\ UNCHANGED <<idx, dat, index, fpos, writer, got>>

(* Mutant: the last number of the range is left out.                       *)
GetSeek_exclusive ==
    /\ query.on /\ ~query.sought
    /\ IF query.at >= query.finish
       THEN query' = Ended(query) /\ UNCHANGED fpos
       ELSE query' = [query EXCEPT !.sought = TRUE] /\ fpos' = index[query.at].off
    /\ UNCHANGED <<idx, dat, index, writer, got>>

(* lseek, unless the query is past its end.                                *)
GetSeek ==
    /\ query.on /\ ~query.sought
    /\ IF query.at > query.finish
       THEN query' = Ended(query) /\ UNCHANGED fpos
       ELSE query' = [query EXCEPT !.sought = TRUE] /\ fpos' = index[query.at].off
    /\ UNCHANGED <<idx, dat, index, writer, got>>

Told == [query EXCEPT !.sent = @ \cup {query.at}, !.sought = FALSE]

Later == {q \in Stored : q > query.at}

(* Mutant: the callback is given the number the query started with.        *)
GetRead_first ==
    LET size == index[query.at].size
        text == ReadAt(dat, fpos, size)
    IN  /\ query.on /\ query.sought /\ text # None
        /\ got' = <<CHOOSE n \in query.want : Least(n, query.want), text>>
        /\ fpos' = fpos + size
        /\ \/ Later = {} /\ query' = Ended(Told)
           \/ \E next \in Later : Least(next, Later) /\ query' = [Told EXCEPT !.at = next]
        /\ UNCHANGED <<idx, dat, index, writer>>

(* read and the callback; a short read ends the query.                     *)
GetRead ==
    LET size == index[query.at].size
        text == ReadAt(dat, fpos, size)
    IN  /\ query.on /\ query.sought
        /\ \/ /\ text = None
              /\ query' = Ended(query) /\ fpos' = Len(dat) /\ UNCHANGED got
           \/ /\ text # None
              /\ got' = <<query.at, text>> /\ fpos' = fpos + size
              /\ \/ Later = {} /\ query' = Ended(Told)
                 \/ \E next \in Later :
                       Least(next, Later) /\ query' = [Told EXCEPT !.at = next]
        /\ UNCHANGED <<idx, dat, index, writer>>

-----------------------------------------------------------------------------
Init ==
    /\ idx = <<>> /\ dat = <<>>
    /\ index = [q \in Keys |-> None]
    /\ fpos = 0
    /\ writer = Idle /\ query = NoQuery
    /\ got = None

Next ==
    \/ \E purge \in BOOLEAN : initialise(purge)
    \/ \E snd, rcv \in Numbers : put_control(snd, rcv)
    \/ \E q \in SeqNums, t \in Texts : PutIndex(q, t)
    \/ PutData
    \/ \E from \in SeqNums, to \in Keys : GetStart(from, to)
    \/ GetSeek
    \/ GetRead

Spec == Init /\ [][Next]_vars

-----------------------------------------------------------------------------
(* Properties *)

(* What a reader would find under q.                                       *)
Found(q) == IF index[q] = None THEN None ELSE ReadAt(dat, index[q].off, index[q].size)

ControlRecord == IF index[0] = None THEN None ELSE <<index[0].off, index[0].size>>

Contract == INSTANCE Persister WITH
    store <- [q \in SeqNums |-> Found(q)], ctrl <- ControlRecord, got <- got

(* The two files and the index keep the promise of a Persister: no put, no *)
(* query and no restart changes a message that is stored, and a query      *)
(* hands over the message that is stored.                                  *)
KeepsContract == Contract!Spec

(* Between two operations, the index in memory is the one that initialise  *)
(* would read from the file: a restart loses nothing and invents nothing.  *)
Recoverable == ~writer.on => index = Load(idx)

(* A range query that has ended handed over every message stored in its    *)
(* range and no other (find_nearest_highest_seqnum, the loop of get).      *)
RangeComplete == ~query.on => query.sent = query.want

(* Every number in the index reads back as a message, never as the end of  *)
(* the file or as bytes of several messages.                               *)
Readable == \A q \in Stored : Found(q) \in Texts

(* No two numbers share bytes of the data file: a message is never handed  *)
(* over under the number of another.                                       *)
Disjoint ==
    \A p, q \in Stored : p # q =>
        \/ index[p].off + index[p].size <= index[q].off
        \/ index[q].off + index[q].size <= index[p].off

=============================================================================
