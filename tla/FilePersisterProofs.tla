------------------------ MODULE FilePersisterProofs ------------------------
(***************************************************************************)
(* The file persister keeps the contract of Persister for any number and   *)
(* any size of messages, provided that no put runs during a range query    *)
(* and that the process is not killed between the two writes of a put.     *)
(* The inductive invariant says how the files, the index and the           *)
(* operations in progress fit together; nothing but its last part is about *)
(* the order in which put writes.                                          *)
(***************************************************************************)
EXTENDS FilePersister, SequenceTheorems, TLAPS

Sequential == ~Unlocked /\ ~Tearing

IPrec == [seq: Keys, prec: Prec]

Writing == [on: {TRUE}, seq: SeqNums, text: Texts, off: Nat]

Querying == [on: {TRUE}, at: SeqNums, finish: Nat, sought: BOOLEAN,
             want: SUBSET SeqNums, sent: SUBSET SeqNums]

NotQuerying == [on: {FALSE}, want: SUBSET SeqNums, sent: SUBSET SeqNums]

TypeOK ==
    /\ idx \in Seq(IPrec)
    /\ dat \in Seq(Texts \X Nat)
    /\ index \in [Keys -> Prec \cup {None}]
    /\ fpos \in Nat
    /\ writer \in {Idle} \cup Writing
    /\ query \in NotQuerying \cup Querying

(* The records on disk: the control record comes first, no number twice.   *)
Records ==
    /\ \A i, j \in DOMAIN idx : idx[i].seq = idx[j].seq => i = j
    /\ \A i \in DOMAIN idx : idx[i].seq = 0 <=> i = 1

(* Each record is in memory, except the one a put in progress has written. *)
Indexed ==
    /\ \A i \in DOMAIN idx :
          index[idx[i].seq] = idx[i].prec \/ (writer.on /\ idx[i].seq = writer.seq)
    /\ \A q \in Keys : index[q] # None => \E i \in DOMAIN idx : idx[i].seq = q

(* Each number in memory has its message in the data file.                 *)
Kept ==
    \A q \in SeqNums : index[q] # None =>
        \E t \in Texts : t.size = index[q].size /\ Holds(dat, index[q].off, t)

(* A put in progress is about to write at the end of the data file.        *)
Appending ==
    writer.on => /\ index[writer.seq] = None
                 /\ index[0] # None
                 /\ writer.off = Len(dat) /\ fpos = Len(dat)
                 /\ ~query.on
                 /\ \E i \in DOMAIN idx :
                       idx[i] = [seq |-> writer.seq,
                                 prec |-> [off |-> writer.off, size |-> writer.text.size]]

(* A query has handed over what it wants below its current number, and has *)
(* the descriptor where that number's message is.                          *)
Progress ==
    /\ ~query.on => query.sent = query.want
    /\ query.on =>
         /\ query.at \in Stored
         /\ query.sought => fpos = index[query.at].off /\ query.at <= query.finish
         /\ query.sent = {q \in query.want : q < query.at}
         /\ \A q \in query.want : q <= query.finish
         /\ \A q \in Stored : query.at <= q /\ q <= query.finish => q \in query.want
         /\ query.want \subseteq Stored

FilesAgree == TypeOK /\ Records /\ Indexed /\ Kept /\ Appending /\ Progress

-----------------------------------------------------------------------------
(* Between operations the index read from the file is the one in memory.   *)
LEMMA LoadSame ==
    ASSUME TypeOK, Records, Indexed, ~writer.on
    PROVE  Load(idx) = index
<1>1. ASSUME NEW q \in Keys
      PROVE  Load(idx)[q] = index[q]
  <2>1. CASE \E i \in DOMAIN idx : idx[i].seq = q
    <3>1. PICK i \in DOMAIN idx : idx[i].seq = q
      BY <2>1
    <3>2. \A j \in DOMAIN idx : idx[j].seq = q => i = j
      BY <3>1 DEF Records
    <3>3. DOMAIN idx \subseteq Nat
      BY DEF TypeOK
    <3>4. First(idx, q) = i
      BY <3>1, <3>2, <3>3 DEF First
    <3>5. index[q] = idx[i].prec
      BY <3>1 DEF Indexed
    <3> QED
      BY <2>1, <3>4, <3>5 DEF Load
  <2>2. CASE ~ \E i \in DOMAIN idx : idx[i].seq = q
    BY <2>2 DEF Load, Indexed
  <2> QED
    BY <2>1, <2>2
<1>2. index = [q \in Keys |-> index[q]]
  BY DEF TypeOK
<1>3. Load(idx) = [q \in Keys |-> Load(idx)[q]]
  BY DEF Load
<1> QED
  BY <1>1, <1>2, <1>3

(* A function on 1..n is a sequence of length n.                           *)
LEMMA FunctionSeq ==
    ASSUME NEW S, NEW n \in Nat, NEW f \in [1 .. n -> S]
    PROVE  f \in Seq(S) /\ Len(f) = n
<1>1. f \in Seq(S)
  BY SeqDef
<1>2. DOMAIN f = 1 .. n /\ DOMAIN f = 1 .. Len(f) /\ Len(f) \in Nat
  BY <1>1
<1> QED
  BY <1>1, <1>2

(* A text appended to the data file is there, and so is what was before.   *)
LEMMA AppendText ==
    ASSUME dat \in Seq(Texts \X Nat), NEW t \in Texts
    PROVE  /\ Written(Len(dat), t) \in Seq(Texts \X Nat)
           /\ Len(Written(Len(dat), t)) = Len(dat) + t.size
           /\ \A i \in 1 .. Len(dat) : Written(Len(dat), t)[i] = dat[i]
           /\ \A k \in 1 .. t.size : Written(Len(dat), t)[Len(dat) + k] = <<t, k>>
<1>1. t.size \in Nat /\ t.size > 0 /\ Len(dat) \in Nat
  BY PersisterAssumption
<1> DEFINE n == Len(dat) + t.size
           cell(i) == IF Len(dat) < i /\ i <= n THEN <<t, i - Len(dat)>> ELSE dat[i]
           f == [i \in 1 .. n |-> cell(i)]
<1>2. Written(Len(dat), t) = f
  BY <1>1 DEF Written
<1>3. \A i \in 1 .. n : cell(i) \in Texts \X Nat
  BY <1>1
<1>4. n \in Nat
  BY <1>1
<1>5. \A i \in 1 .. Len(dat) : i \in 1 .. n /\ cell(i) = dat[i]
  BY <1>1
<1>6. \A k \in 1 .. t.size : Len(dat) + k \in 1 .. n /\ cell(Len(dat) + k) = <<t, k>>
  BY <1>1
<1> HIDE DEF n, cell
<1>7. f \in [1 .. n -> Texts \X Nat]
  BY <1>3
<1>8. f \in Seq(Texts \X Nat) /\ Len(f) = n
  BY <1>4, <1>7, FunctionSeq
<1>9. \A i \in 1 .. n : f[i] = cell(i)
  OBVIOUS
<1> HIDE DEF f
<1> QED
  BY <1>2, <1>5, <1>6, <1>8, <1>9 DEF n

(* Every record of the index file is one.                                  *)
LEMMA RecordType ==
    ASSUME TypeOK, NEW i \in DOMAIN idx
    PROVE  idx[i] \in IPrec /\ idx[i].seq \in Keys /\ idx[i].prec \in Prec
<1>1. idx \in Seq(IPrec) /\ i \in 1 .. Len(idx)
  BY DEF TypeOK
<1>2. idx[i] \in IPrec
  BY <1>1, ElementOfSeq
<1> QED
  BY <1>2 DEF IPrec

(* A text stays where it is when the file grows.                           *)
LEMMA HoldsLonger ==
    ASSUME NEW d, NEW e, Len(d) \in Nat, NEW n \in Nat, Len(e) = Len(d) + n,
           \A i \in 1 .. Len(d) : e[i] = d[i],
           NEW p \in Nat, NEW x \in Texts, Holds(d, p, x)
    PROVE  Holds(e, p, x)
<1>1. x.size \in Nat /\ p + x.size <= Len(d)
  BY PersisterAssumption DEF Holds
<1>2. p + x.size <= Len(e)
  BY <1>1
<1>3. \A k \in 1 .. x.size : p + k \in 1 .. Len(d)
  BY <1>1
<1>4. \A k \in 1 .. x.size : e[p + k] = d[p + k] /\ d[p + k] = <<x, k>>
  BY <1>3 DEF Holds
<1> QED
  BY <1>2, <1>4 DEF Holds

(* A number in the index reads back as a message.                          *)
LEMMA ReadBack ==
    ASSUME TypeOK, Kept, NEW q \in Stored
    PROVE  /\ Found(q) \in Texts
           /\ Found(q) = ReadAt(dat, index[q].off, index[q].size)
           /\ Found(q).size = index[q].size
           /\ Holds(dat, index[q].off, Found(q))
<1> DEFINE p == index[q].off
           n == index[q].size
<1>1. q \in SeqNums /\ index[q] # None
  BY DEF Stored
<1>2. PICK t \in Texts : t.size = n /\ Holds(dat, p, t)
  BY <1>1 DEF Kept
<1>3. ~(p + n > Len(dat))
  <2>1. p \in Nat /\ n \in Nat /\ Len(dat) \in Nat
    BY <1>1 DEF TypeOK, Keys, Prec
  <2> QED
    BY <1>2, <2>1 DEF Holds
<1> HIDE DEF p, n
<1>4. ReadAt(dat, p, n) \in Texts /\ ReadAt(dat, p, n).size = n /\ Holds(dat, p, ReadAt(dat, p, n))
  BY <1>2, <1>3 DEF ReadAt
<1>5. Found(q) = ReadAt(dat, p, n)
  BY <1>1 DEF Found, p, n
<1> QED
  BY <1>4, <1>5 DEF p, n

(* Nothing stored, nothing in progress.                                    *)
LEMMA InitAgrees == Init => FilesAgree
<1> SUFFICES ASSUME Init PROVE FilesAgree
  OBVIOUS
<1>1. idx = <<>> /\ dat = <<>> /\ DOMAIN idx = {} /\ Len(dat) = 0
  BY DEF Init
<1>2. TypeOK
  BY <1>1 DEF Init, TypeOK, NoQuery, NotQuerying, Idle
<1>3. Records /\ Indexed /\ Kept
  BY <1>1 DEF Init, Records, Indexed, Kept, Keys
<1>4. Appending /\ Progress
  BY DEF Init, Appending, Progress, Idle, NoQuery
<1> QED
  BY <1>2, <1>3, <1>4 DEF FilesAgree

(* A restart reads back the index; a purge starts from nothing.            *)
LEMMA InitialiseAgrees ==
    ASSUME Sequential, FilesAgree, NEW purge \in BOOLEAN, initialise(purge)
    PROVE  FilesAgree'
<1> USE DEF FilesAgree
<1>1. ~writer.on /\ writer' = Idle /\ query' = NoQuery /\ fpos' = 0
  BY DEF initialise, Sequential
<1>2. Appending' /\ Progress'
  BY <1>1 DEF Appending, Progress, Idle, NoQuery
<1>3. CASE purge
  <2>1. idx' = <<>> /\ dat' = <<>> /\ DOMAIN idx' = {}
    BY <1>3 DEF initialise
  <2>2. index' = [q \in Keys |-> None]
    BY <2>1 DEF initialise, Load
  <2>3. Records' /\ Indexed' /\ Kept'
    BY <2>1, <2>2 DEF Records, Indexed, Kept, Keys
  <2>4. TypeOK'
    BY <1>1, <2>1, <2>2 DEF TypeOK, NoQuery, NotQuerying, Idle
  <2> QED
    BY <1>2, <2>3, <2>4
<1>4. CASE ~purge
  <2>1. idx' = idx /\ dat' = dat /\ index' = Load(idx)
    BY <1>4 DEF initialise
  <2>2. index' = index
    BY <1>1, <2>1, LoadSame
  <2>3. Records' /\ Indexed' /\ Kept'
    BY <1>1, <2>1, <2>2 DEF Records, Indexed, Kept, Holds
  <2>4. TypeOK'
    BY <1>1, <2>1, <2>2 DEF TypeOK, NoQuery, NotQuerying, Idle
  <2> QED
    BY <1>2, <2>3, <2>4
<1> QED
  BY <1>3, <1>4

(* A control record replaces the first record and nothing else.            *)
LEMMA PutControlAgrees ==
    ASSUME FilesAgree, NEW snd \in Numbers, NEW rcv \in Numbers, put_control(snd, rcv)
    PROVE  FilesAgree'
<1> USE DEF FilesAgree
<1> DEFINE prec == [off |-> snd, size |-> rcv]
           rec  == [seq |-> 0, prec |-> prec]
<1>1. /\ ~writer.on /\ index' = [index EXCEPT ![0] = prec]
      /\ idx' = IF idx = <<>> THEN <<rec>> ELSE [idx EXCEPT ![1] = rec]
      /\ UNCHANGED <<dat, fpos, writer, query, got>>
  BY DEF put_control
<1>2. prec \in Prec /\ rec \in IPrec /\ 0 \in Keys /\ 0 \notin SeqNums /\ SeqNums \subseteq Keys
  BY PersisterAssumption DEF Prec, IPrec, Keys
<1>3. rec.seq = 0 /\ rec.prec = prec
  OBVIOUS
<1>4. prec # None
  BY <1>2, PersisterAssumption DEF Prec
<1> HIDE DEF prec, rec
<1>5. /\ index'[0] = prec
      /\ \A q \in SeqNums : index'[q] = index[q]
      /\ index' \in [Keys -> Prec \cup {None}]
  BY <1>1, <1>2 DEF TypeOK, Keys
<1>6. /\ idx' \in Seq(IPrec) /\ 1 \in DOMAIN idx' /\ idx'[1] = rec
      /\ \A i \in DOMAIN idx' : i # 1 => i \in DOMAIN idx /\ idx'[i] = idx[i]
      /\ \A i \in DOMAIN idx : i \in DOMAIN idx'
  <2>1. CASE idx = <<>>
    BY <1>1, <1>2, <2>1
  <2>2. CASE idx # <<>>
    BY <1>1, <1>2, <2>2 DEF TypeOK
  <2> QED
    BY <2>1, <2>2
<1>7. TypeOK'
  BY <1>1, <1>5, <1>6 DEF TypeOK
<1>8. Records'
  BY <1>3, <1>6 DEF Records
<1>9. Indexed'
  <2>1. ASSUME NEW i \in DOMAIN idx' PROVE index'[idx'[i].seq] = idx'[i].prec
    <3>1. CASE i = 1
      BY <1>3, <1>5, <1>6, <3>1
    <3>2. CASE i # 1
      <4>1. i \in DOMAIN idx /\ idx'[i] = idx[i]
        BY <1>6, <3>2
      <4>2. idx[i].seq # 0
        BY <3>2, <4>1 DEF Records
      <4>3. idx[i].seq \in Keys
        BY <4>1, RecordType
      <4> QED
        BY <1>1, <1>5, <4>1, <4>2, <4>3 DEF Indexed, Keys
    <3> QED
      BY <3>1, <3>2
  <2>2. ASSUME NEW q \in Keys, index'[q] # None
        PROVE  \E i \in DOMAIN idx' : idx'[i].seq = q
    <3>1. CASE q = 0
      BY <1>3, <1>6, <3>1
    <3>2. CASE q # 0
      <4>1. PICK i \in DOMAIN idx : idx[i].seq = q
        BY <1>5, <2>2, <3>2 DEF Indexed, Keys
      <4>2. i # 1
        BY <3>2, <4>1 DEF Records
      <4> QED
        BY <1>6, <4>1, <4>2
    <3> QED
      BY <3>1, <3>2
  <2> QED
    BY <2>1, <2>2 DEF Indexed
<1>10. Kept' /\ Stored' = Stored
  <2>1. dat' = dat
    BY <1>1
  <2>2. Stored' = Stored
    BY <1>5 DEF Stored
  <2>3. Kept'
    BY <1>5, <2>1 DEF Kept
  <2> QED
    BY <2>2, <2>3
<1>11. Appending'
  BY <1>1 DEF Appending
<1>12. Progress'
  <2>1. ASSUME query.on PROVE index'[query.at] = index[query.at]
    BY <1>5, <2>1 DEF Progress, Stored
  <2> QED
    BY <1>1, <1>10, <2>1 DEF Progress
<1> QED
  BY <1>7, <1>8, <1>9, <1>10, <1>11, <1>12

(* The index record of a put is new to the file.                           *)
LEMMA PutIndexAgrees ==
    ASSUME Sequential, FilesAgree, NEW q \in SeqNums, NEW t \in Texts, PutIndex(q, t)
    PROVE  FilesAgree'
<1> USE DEF FilesAgree
<1> DEFINE prec == [off |-> Len(dat), size |-> t.size]
           rec  == [seq |-> q, prec |-> prec]
<1>1. /\ ~writer.on /\ ~query.on /\ index[0] # None /\ index[q] = None
      /\ idx' = Append(idx, rec) /\ fpos' = Len(dat)
      /\ writer' = [on |-> TRUE, seq |-> q, text |-> t, off |-> Len(dat)]
      /\ dat' = dat /\ index' = index /\ query' = query /\ got' = got
  BY DEF PutIndex, Sequential
<1>2. t.size \in Nat /\ Len(dat) \in Nat /\ q # 0 /\ q \in Keys /\ 0 \in Keys
  BY PersisterAssumption DEF TypeOK, Keys
<1>3. prec \in Prec /\ rec \in IPrec /\ rec.seq = q /\ rec.prec = prec
  BY <1>2 DEF Prec, IPrec
<1>4. /\ writer'.on /\ writer'.seq = q /\ writer'.text = t /\ writer'.off = Len(dat)
      /\ writer' \in Writing
  BY <1>1, <1>2 DEF Writing
<1>5. rec = [seq |-> writer'.seq, prec |-> [off |-> writer'.off, size |-> writer'.text.size]]
  BY <1>4
<1> HIDE DEF prec, rec
<1> DEFINE n == Len(idx)
<1>6. /\ n \in Nat /\ DOMAIN idx = 1 .. n /\ DOMAIN idx' = 1 .. n + 1
      /\ idx' \in Seq(IPrec) /\ idx'[n + 1] = rec
      /\ \A i \in 1 .. n : idx'[i] = idx[i]
  BY <1>1, <1>3 DEF TypeOK
<1>7. 1 <= n
  <2>1. PICK i \in DOMAIN idx : idx[i].seq = 0
    BY <1>1, <1>2 DEF Indexed
  <2> QED
    BY <1>6, <2>1
<1>8. \A i \in DOMAIN idx : idx[i].seq # q
  <2> SUFFICES ASSUME NEW i \in DOMAIN idx, idx[i].seq = q PROVE FALSE
    OBVIOUS
  <2>1. index[q] = idx[i].prec
    BY <1>1 DEF Indexed
  <2>2. idx[i].prec \in Prec
    BY RecordType
  <2> QED
    BY <1>1, <2>1, <2>2, PersisterAssumption DEF Prec
<1> HIDE DEF n
<1>9. TypeOK'
  BY <1>1, <1>2, <1>4, <1>6 DEF TypeOK
<1>10. Records'
  <2>1. ASSUME NEW i \in DOMAIN idx', NEW j \in DOMAIN idx', idx'[i].seq = idx'[j].seq
        PROVE  i = j
    <3>1. CASE i \in 1 .. n /\ j \in 1 .. n
      BY <1>6, <2>1, <3>1 DEF Records
    <3>2. CASE i = n + 1 \/ j = n + 1
      BY <1>3, <1>6, <1>8, <2>1, <3>2
    <3> QED
      BY <1>6, <3>1, <3>2
  <2>2. ASSUME NEW i \in DOMAIN idx'
        PROVE  idx'[i].seq = 0 <=> i = 1
    <3>1. CASE i \in 1 .. n
      BY <1>6, <3>1 DEF Records
    <3>2. CASE i = n + 1
      BY <1>2, <1>3, <1>6, <1>7, <3>2
    <3> QED
      BY <1>6, <3>1, <3>2
  <2> QED
    BY <2>1, <2>2 DEF Records
<1>11. Indexed'
  <2>1. ASSUME NEW i \in DOMAIN idx'
        PROVE  index'[idx'[i].seq] = idx'[i].prec \/ (writer'.on /\ idx'[i].seq = writer'.seq)
    <3>1. CASE i \in 1 .. n
      BY <1>1, <1>6, <3>1 DEF Indexed
    <3>2. CASE i = n + 1
      BY <1>3, <1>4, <1>6, <3>2
    <3> QED
      BY <1>6, <3>1, <3>2
  <2>2. ASSUME NEW k \in Keys, index'[k] # None
        PROVE  \E i \in DOMAIN idx' : idx'[i].seq = k
    <3>1. PICK i \in DOMAIN idx : idx[i].seq = k
      BY <1>1, <2>2 DEF Indexed
    <3>2. i \in DOMAIN idx' /\ idx'[i] = idx[i]
      BY <1>6
    <3> QED
      BY <3>1, <3>2
  <2> QED
    BY <2>1, <2>2 DEF Indexed
<1>12. Kept'
  BY <1>1 DEF Kept
<1>13. Appending'
  <2>1. n + 1 \in DOMAIN idx'
    BY <1>6, <1>7
  <2> QED
    BY <1>1, <1>4, <1>5, <1>6, <2>1 DEF Appending
<1>14. Progress'
  BY <1>1 DEF Progress
<1> QED
  BY <1>9, <1>10, <1>11, <1>12, <1>13, <1>14

(* The message is written behind all others; its number enters the index.  *)
LEMMA PutDataAgrees ==
    ASSUME FilesAgree, PutData
    PROVE  FilesAgree'
<1> USE DEF FilesAgree
<1> DEFINE t == writer.text
           s == writer.seq
           prec == [off |-> writer.off, size |-> t.size]
<1>1. /\ writer.on /\ dat' = Written(fpos, t) /\ fpos' = fpos + t.size
      /\ index' = [index EXCEPT ![s] = prec] /\ writer' = Idle
      /\ idx' = idx /\ query' = query /\ got' = got
  BY DEF PutData
<1>2. writer \in Writing
  BY <1>1 DEF TypeOK, Idle
<1>3. t \in Texts /\ s \in SeqNums /\ s \in Keys /\ writer.off \in Nat /\ t.size \in Nat
  BY <1>2, PersisterAssumption DEF Writing, Keys
<1>4. prec \in Prec
  BY <1>3 DEF Prec
<1>5. writer.off = Len(dat) /\ fpos = Len(dat) /\ ~query.on /\ index[s] = None /\ Len(dat) \in Nat
  BY <1>1 DEF Appending, TypeOK
<1>6. /\ dat' \in Seq(Texts \X Nat) /\ Len(dat') = Len(dat) + t.size
      /\ \A i \in 1 .. Len(dat) : dat'[i] = dat[i]
      /\ \A k \in 1 .. t.size : dat'[Len(dat) + k] = <<t, k>>
  BY <1>1, <1>3, <1>5, AppendText DEF TypeOK
<1>7. PICK j \in DOMAIN idx : idx[j] = [seq |-> s, prec |-> prec]
  BY <1>1 DEF Appending
<1>8. idx[j].seq = s /\ idx[j].prec = prec /\ prec.off = Len(dat) /\ prec.size = t.size
  BY <1>5, <1>7
<1> HIDE DEF prec, t, s
<1>9. /\ index' \in [Keys -> Prec \cup {None}] /\ index'[s] = prec
      /\ \A q \in Keys : q # s => index'[q] = index[q]
  BY <1>1, <1>3, <1>4 DEF TypeOK
<1>10. TypeOK'
  BY <1>1, <1>3, <1>5, <1>6, <1>9 DEF TypeOK
<1>11. Records'
  BY <1>1 DEF Records
<1>12. Indexed'
  <2>1. ASSUME NEW i \in DOMAIN idx PROVE index'[idx[i].seq] = idx[i].prec
    <3>1. CASE idx[i].seq = s
      <4>1. i = j
        BY <1>8, <3>1 DEF Records
      <4> QED
        BY <1>8, <1>9, <4>1
    <3>2. CASE idx[i].seq # s
      <4>1. idx[i].seq \in Keys
        BY RecordType
      <4> QED
        BY <1>9, <3>2, <4>1 DEF Indexed, s
    <3> QED
      BY <3>1, <3>2
  <2>2. ASSUME NEW q \in Keys, index'[q] # None
        PROVE  \E i \in DOMAIN idx : idx[i].seq = q
    BY <1>8, <1>9, <2>2 DEF Indexed
  <2> QED
    BY <1>1, <2>1, <2>2 DEF Indexed
<1>13. Kept'
  <2>1. ASSUME NEW q \in SeqNums, index'[q] # None
        PROVE  \E x \in Texts : x.size = index'[q].size /\ Holds(dat', index'[q].off, x)
    <3>1. CASE q = s
      <4>1. Holds(dat', Len(dat), t)
        BY <1>5, <1>6 DEF Holds
      <4>2. index'[q].off = Len(dat) /\ index'[q].size = t.size
        BY <1>8, <1>9, <3>1
      <4>3. Holds(dat', index'[q].off, t)
        BY <1>3, <1>5, <1>6, <4>2 DEF Holds
      <4> QED
        BY <1>3, <4>2, <4>3
    <3>2. CASE q # s
      <4>1. q \in Keys /\ index'[q] = index[q]
        BY <1>9, <3>2 DEF Keys
      <4>2. PICK x \in Texts : x.size = index[q].size /\ Holds(dat, index[q].off, x)
        BY <2>1, <4>1 DEF Kept
      <4>3. index[q].off \in Nat
        BY <2>1, <4>1 DEF TypeOK, Prec
      <4>4. Holds(dat', index[q].off, x)
        BY <1>3, <1>5, <1>6, <4>2, <4>3, HoldsLonger
      <4> QED
        BY <4>1, <4>2, <4>4
    <3> QED
      BY <3>1, <3>2
  <2> QED
    BY <2>1 DEF Kept
<1>14. Appending' /\ Progress'
  BY <1>1, <1>5 DEF Appending, Progress, Idle
<1> QED
  BY <1>10, <1>11, <1>12, <1>13, <1>14

(* A query starts at the least number it wants.                            *)
LEMMA GetStartAgrees ==
    ASSUME Sequential, FilesAgree, NEW from \in SeqNums, NEW to \in Keys, GetStart(from, to)
    PROVE  FilesAgree'
<1> USE DEF FilesAgree
<1>1. /\ ~query.on /\ ~writer.on /\ (to = 0 \/ from <= to)
      /\ idx' = idx /\ dat' = dat /\ index' = index /\ fpos' = fpos /\ writer' = writer
      /\ Stored' = Stored
  BY DEF GetStart, Sequential, Stored
<1>2. Records' /\ Indexed' /\ Kept' /\ Appending'
  BY <1>1 DEF Records, Indexed, Kept, Appending
<1> DEFINE want == {q \in Stored : from <= q /\ (to = 0 \/ q <= to)}
<1>3. PICK last \in Keys :
         LET finish == IF to = 0 THEN last ELSE to
             found  == Candidates(from, last)
         IN  /\ IsLast(last)
             /\ \/ /\ found = {} \/ from > finish
                   /\ query' = [on |-> FALSE, want |-> want, sent |-> {}]
                \/ /\ found # {} /\ from <= finish
                   /\ \E at \in found :
                         /\ Least(at, found)
                         /\ query' = [on |-> TRUE, at |-> at, finish |-> finish,
                                      sought |-> FALSE, want |-> want, sent |-> {}]
  BY DEF GetStart
<1> DEFINE finish == IF to = 0 THEN last ELSE to
           found  == Candidates(from, last)
<1>4. SeqNums \subseteq Nat /\ Keys \subseteq Nat /\ finish \in Nat /\ last \in Nat
      /\ from \in Nat /\ to \in Nat
  BY PersisterAssumption DEF Keys
<1>5. want \subseteq Stored /\ Stored \subseteq SeqNums /\ \A p \in Stored : p <= last
  BY <1>3 DEF Stored, IsLast
<1>6. \A q \in want : q <= finish /\ q \in found
  BY <1>4, <1>5 DEF Candidates
<1>7. CASE /\ found = {} \/ from > finish
           /\ query' = [on |-> FALSE, want |-> want, sent |-> {}]
  <2>1. want = {}
    <3> SUFFICES ASSUME NEW q \in want PROVE FALSE
      OBVIOUS
    <3>1. q \in found /\ q <= finish /\ from <= q /\ q \in Nat
      BY <1>4, <1>5, <1>6
    <3>2. from <= finish
      BY <1>4, <3>1
    <3> QED
      BY <1>4, <1>7, <3>1, <3>2
  <2>2. query' \in NotQuerying /\ ~query'.on /\ query'.sent = query'.want
    BY <1>7, <2>1 DEF NotQuerying
  <2>3. TypeOK'
    BY <1>1, <2>2 DEF TypeOK
  <2>4. Progress'
    BY <2>2 DEF Progress
  <2> QED
    BY <1>2, <2>3, <2>4
<1>8. ASSUME NEW at \in found, Least(at, found),
             query' = [on |-> TRUE, at |-> at, finish |-> finish,
                       sought |-> FALSE, want |-> want, sent |-> {}]
      PROVE  FilesAgree'
  <2>1. at \in Stored /\ from <= at /\ at \in SeqNums
    BY <1>5 DEF Candidates
  <2>2. \A q \in want : at <= q
    BY <1>6, <1>8 DEF Least
  <2>3. {q \in want : q < at} = {}
    <3> SUFFICES ASSUME NEW q \in want, q < at PROVE FALSE
      OBVIOUS
    <3>1. q \in Nat /\ at \in Nat /\ at <= q
      BY <1>4, <1>5, <2>1, <2>2
    <3> QED
      BY <3>1
  <2>4. \A q \in Stored : at <= q /\ q <= finish => q \in want
    BY <1>4, <1>5, <2>1
  <2> HIDE DEF want, finish, found
  <2>5. /\ query' \in Querying /\ query'.on /\ query'.at = at /\ query'.finish = finish
        /\ ~query'.sought /\ query'.want = want /\ query'.sent = {}
    BY <1>4, <1>5, <1>8, <2>1 DEF Querying
  <2>6. TypeOK'
    BY <1>1, <2>5 DEF TypeOK
  <2>7. Progress'
    BY <1>1, <1>5, <1>6, <2>1, <2>3, <2>4, <2>5 DEF Progress
  <2> QED
    BY <1>2, <2>6, <2>7
<1> QED
  BY <1>3, <1>7, <1>8

(* Seeking moves the descriptor to the message of the current number.      *)
LEMMA GetSeekAgrees ==
    ASSUME FilesAgree, GetSeek
    PROVE  FilesAgree'
<1> USE DEF FilesAgree
<1>1. /\ query.on /\ ~query.sought /\ ~writer.on
      /\ idx' = idx /\ dat' = dat /\ index' = index /\ writer' = writer
      /\ Stored' = Stored
  BY DEF GetSeek, Appending, Stored
<1>2. Records' /\ Indexed' /\ Kept' /\ Appending'
  BY <1>1 DEF Records, Indexed, Kept, Appending
<1>3. query \in Querying
  BY <1>1 DEF TypeOK, NotQuerying
<1>4. query.at \in Nat /\ query.finish \in Nat /\ query.want \subseteq Nat
  BY <1>3, PersisterAssumption DEF Querying
<1>5. CASE query.at > query.finish
  <2>1. query' = Ended(query) /\ fpos' = fpos
    BY <1>5 DEF GetSeek
  <2>2. query' \in NotQuerying /\ ~query'.on /\ query'.want = query.want /\ query'.sent = query.sent
    BY <1>3, <2>1 DEF Ended, NotQuerying, Querying
  <2>3. query.sent = query.want
    BY <1>1, <1>4, <1>5 DEF Progress
  <2>4. TypeOK'
    BY <1>1, <2>1, <2>2 DEF TypeOK
  <2>5. Progress'
    BY <2>2, <2>3 DEF Progress
  <2> QED
    BY <1>2, <2>4, <2>5
<1>6. CASE ~(query.at > query.finish)
  <2>1. query' = [query EXCEPT !.sought = TRUE] /\ fpos' = index[query.at].off
    BY <1>6 DEF GetSeek
  <2>2. /\ query' \in Querying /\ query'.at = query.at /\ query'.finish = query.finish
        /\ query'.want = query.want /\ query'.sent = query.sent /\ query'.on
    BY <1>1, <1>3, <2>1 DEF Querying
  <2>3. fpos' \in Nat
    BY <1>1, <2>1 DEF Progress, Stored, TypeOK, Keys, Prec
  <2>4. TypeOK'
    BY <1>1, <2>2, <2>3 DEF TypeOK
  <2>5. query.at <= query.finish
    BY <1>4, <1>6
  <2>6. Progress'
    BY <1>1, <2>1, <2>2, <2>5 DEF Progress
  <2> QED
    BY <1>2, <2>4, <2>6
<1> QED
  BY <1>5, <1>6

(* Reading hands over the message of the current number and goes on to the *)
(* least number above it.                                                  *)
LEMMA GetReadAgrees ==
    ASSUME FilesAgree, GetRead
    PROVE  FilesAgree' /\ got' = <<query.at, Found(query.at)>>
<1> USE DEF FilesAgree
<1> DEFINE size == index[query.at].size
           text == ReadAt(dat, fpos, size)
<1>1. /\ query.on /\ query.sought /\ ~writer.on
      /\ idx' = idx /\ dat' = dat /\ index' = index /\ writer' = writer
      /\ Stored' = Stored
  BY DEF GetRead, Appending, Stored
<1>2. Records' /\ Indexed' /\ Kept' /\ Appending'
  BY <1>1 DEF Records, Indexed, Kept, Appending
<1>3. query \in Querying
  BY <1>1 DEF TypeOK, NotQuerying
<1>4. /\ query.at \in Nat /\ query.finish \in Nat /\ query.want \subseteq Nat
      /\ query.at \in Stored /\ Stored \subseteq SeqNums /\ Stored \subseteq Nat
      /\ query.at <= query.finish /\ fpos = index[query.at].off
      /\ query.at \in query.want
  <2>1. query.at \in Stored /\ query.at <= query.finish /\ fpos = index[query.at].off
    BY <1>1 DEF Progress
  <2>2. Stored \subseteq SeqNums /\ SeqNums \subseteq Nat
    BY PersisterAssumption DEF Stored
  <2>3. query.at \in Nat /\ query.finish \in Nat /\ query.want \subseteq SeqNums
    BY <1>3, <2>2 DEF Querying
  <2>4. query.at \in query.want
    BY <1>1, <2>1, <2>3 DEF Progress
  <2> QED
    BY <2>1, <2>2, <2>3, <2>4
<1>5. text = Found(query.at) /\ text # None
  BY <1>4, ReadBack, PersisterAssumption
<1>6. /\ got' = <<query.at, text>> /\ fpos' = fpos + size
      /\ \/ Later = {} /\ query' = Ended(Told)
         \/ \E next \in Later : Least(next, Later) /\ query' = [Told EXCEPT !.at = next]
  BY <1>5 DEF GetRead
<1>7. fpos' \in Nat
  BY <1>4, <1>6 DEF Stored, TypeOK, Keys, Prec
<1>8. /\ Told \in Querying /\ Told.on /\ ~Told.sought /\ Told.at = query.at
      /\ Told.finish = query.finish /\ Told.want = query.want
      /\ Told.sent = query.sent \cup {query.at}
  BY <1>1, <1>3, <1>4 DEF Told, Querying
<1>9. Told.sent = {q \in query.want : q <= query.at}
  BY <1>1, <1>4, <1>8 DEF Progress
<1>10. ASSUME Later = {}, query' = Ended(Told)
       PROVE  FilesAgree'
  <2>1. /\ query' \in NotQuerying /\ ~query'.on /\ query'.want = query.want
        /\ query'.sent = Told.sent
    BY <1>8, <1>10 DEF Ended, NotQuerying, Querying
  <2>2. \A q \in query.want : q <= query.at
    BY <1>1, <1>4, <1>10 DEF Later, Progress
  <2>3. Told.sent = query.want
    BY <1>9, <2>2
  <2>4. TypeOK'
    BY <1>1, <1>7, <2>1 DEF TypeOK
  <2>5. Progress'
    BY <2>1, <2>3 DEF Progress
  <2> QED
    BY <1>2, <2>4, <2>5
<1>11. ASSUME NEW next \in Later, Least(next, Later), query' = [Told EXCEPT !.at = next]
       PROVE  FilesAgree'
  <2>1. next \in Stored /\ next \in SeqNums /\ next \in Nat /\ next > query.at
    BY <1>4 DEF Later
  <2>2. /\ query' \in Querying /\ query'.on /\ query'.at = next /\ query'.finish = query.finish
        /\ query'.want = query.want /\ query'.sent = Told.sent /\ ~query'.sought
    BY <1>8, <1>11, <2>1 DEF Querying
  <2>3. query.want \subseteq Stored
    BY <1>1 DEF Progress
  <2>4. \A q \in query.want : q < next <=> q <= query.at
    BY <1>4, <1>11, <2>1, <2>3 DEF Later, Least
  <2>5. Told.sent = {q \in query.want : q < next}
    BY <1>9, <2>4
  <2>6. TypeOK'
    BY <1>1, <1>7, <2>2 DEF TypeOK
  <2>7. \A q \in Stored : next <= q /\ q <= query.finish => q \in query.want
    BY <1>1, <1>4, <2>1 DEF Progress
  <2>8. \A q \in query.want : q <= query.finish
    BY <1>1 DEF Progress
  <2>9. Progress'
    BY <1>1, <2>1, <2>2, <2>3, <2>5, <2>7, <2>8 DEF Progress
  <2> QED
    BY <1>2, <2>6, <2>9
<1> QED
  BY <1>5, <1>6, <1>10, <1>11

(* Every step keeps the files, the index and the operations in agreement.  *)
LEMMA StepAgrees ==
    ASSUME Sequential, FilesAgree, [Next]_vars
    PROVE  FilesAgree'
<1>1. CASE \E purge \in BOOLEAN : initialise(purge)
  BY <1>1, InitialiseAgrees
<1>2. CASE \E snd, rcv \in Numbers : put_control(snd, rcv)
  BY <1>2, PutControlAgrees
<1>3. CASE \E q \in SeqNums, t \in Texts : PutIndex(q, t)
  BY <1>3, PutIndexAgrees
<1>4. CASE PutData
  BY <1>4, PutDataAgrees
<1>5. CASE \E from \in SeqNums, to \in Keys : GetStart(from, to)
  BY <1>5, GetStartAgrees
<1>6. CASE GetSeek
  BY <1>6, GetSeekAgrees
<1>7. CASE GetRead
  BY <1>7, GetReadAgrees
<1>8. CASE UNCHANGED vars
  BY <1>8 DEF vars, FilesAgree, TypeOK, Records, Indexed, Kept, Appending, Progress, Stored
<1> QED
  BY <1>1, <1>2, <1>3, <1>4, <1>5, <1>6, <1>7, <1>8 DEF Next

(* The invariant holds in every reachable state.                           *)
LEMMA FilesStayAgreed ==
    ASSUME Sequential
    PROVE  Spec => []FilesAgree
<1>1. FilesAgree /\ [Next]_vars => FilesAgree'
  BY StepAgrees
<1> QED
  BY InitAgrees, <1>1, PTL DEF Spec

(* Whatever was put, a restart between operations reads the same index     *)
(* from the file that the process had in memory (initialise, put).         *)
THEOREM RestartLosesNothing ==
    ASSUME Sequential
    PROVE  Spec => []Recoverable
<1>1. FilesAgree => Recoverable
  BY LoadSame DEF FilesAgree, Recoverable
<1> QED
  BY FilesStayAgreed, <1>1, PTL

(* A range query hands over exactly the messages stored in its range, for  *)
(* any range and any gaps in the numbers (get, find_nearest_highest_seqnum).*)
THEOREM RangeIsComplete ==
    ASSUME Sequential
    PROVE  Spec => []RangeComplete
<1>1. FilesAgree => RangeComplete
  BY DEF FilesAgree, RangeComplete, Progress
<1> QED
  BY FilesStayAgreed, <1>1, PTL

(* At a place of the file stands at most one text.                         *)
LEMMA OneText ==
    ASSUME NEW d, NEW p \in Nat, NEW x \in Texts, NEW y \in Texts,
           Holds(d, p, x), Holds(d, p, y)
    PROVE  x = y
<1>1. 1 \in 1 .. x.size /\ 1 \in 1 .. y.size
  BY PersisterAssumption
<1>2. d[p + 1] = <<x, 1>> /\ d[p + 1] = <<y, 1>>
  BY <1>1 DEF Holds
<1> QED
  BY <1>2

(* What is found under a number does not change when the files do not.     *)
LEMMA FoundSame ==
    ASSUME NEW q \in SeqNums, index'[q] = index[q], dat' = dat
    PROVE  Found(q)' = Found(q)
BY DEF Found

(* A text that stands at a place is what read() returns there.             *)
LEMMA ReadText ==
    ASSUME NEW d, NEW p \in Nat, NEW x \in Texts, Len(d) \in Nat, Holds(d, p, x)
    PROVE  ReadAt(d, p, x.size) = x
<1>1. x.size \in Nat /\ ~(p + x.size > Len(d))
  BY PersisterAssumption DEF Holds
<1>2. \A y \in Texts : y.size = x.size /\ Holds(d, p, y) => y = x
  BY OneText
<1> QED
  BY <1>1, <1>2 DEF ReadAt

(* The data written by a put is what is found under its number from then   *)
(* on; every other number keeps its message.                               *)
LEMMA PutDataFound ==
    ASSUME FilesAgree, PutData, NEW s, NEW t, s = writer.seq, t = writer.text
    PROVE  /\ s \in SeqNums /\ t \in Texts
           /\ Found(s) = None
           /\ Found(s)' = t
           /\ \A q \in SeqNums : q # s => Found(q)' = Found(q)
           /\ index'[0] = index[0]
<1>1. /\ writer.on /\ dat' = Written(fpos, t)
      /\ index' = [index EXCEPT ![s] = [off |-> writer.off, size |-> t.size]]
  BY DEF PutData
<1>2. writer \in Writing
  BY <1>1 DEF FilesAgree, TypeOK, Idle
<1>3. /\ t \in Texts /\ s \in SeqNums /\ s \in Keys /\ s # 0 /\ 0 \in Keys
      /\ writer.off \in Nat /\ t.size \in Nat
  BY <1>2, PersisterAssumption DEF Writing, Keys
<1>4. writer.off = Len(dat) /\ fpos = Len(dat) /\ index[s] = None /\ Len(dat) \in Nat
  BY <1>1 DEF FilesAgree, Appending, TypeOK
<1>5. /\ Len(dat') = Len(dat) + t.size
      /\ \A i \in 1 .. Len(dat) : dat'[i] = dat[i]
      /\ \A k \in 1 .. t.size : dat'[Len(dat) + k] = <<t, k>>
  BY <1>1, <1>3, <1>4, AppendText DEF FilesAgree, TypeOK
<1>6. Len(dat') \in Nat
  BY <1>3, <1>4, <1>5
<1>7. /\ index'[s] = [off |-> writer.off, size |-> t.size]
      /\ \A q \in Keys : q # s => index'[q] = index[q]
  BY <1>1, <1>3 DEF FilesAgree, TypeOK
<1>8. Found(s)' = t
  <2>1. index'[s].off = Len(dat) /\ index'[s].size = t.size /\ index'[s] # None
    <3>1. [off |-> writer.off, size |-> t.size] \in [off: Nat, size: Nat]
      BY <1>3
    <3> QED
      BY <1>4, <1>7, <3>1, PersisterAssumption
  <2>2. Holds(dat', Len(dat), t)
    BY <1>3, <1>4, <1>5 DEF Holds
  <2>3. ReadAt(dat', Len(dat), t.size) = t
    BY <1>3, <1>4, <1>6, <2>2, ReadText
  <2> QED
    BY <2>1, <2>3 DEF Found
<1>9. ASSUME NEW q \in SeqNums, q # s
      PROVE  Found(q)' = Found(q)
  <2>1. q \in Keys /\ index'[q] = index[q]
    BY <1>7, <1>9 DEF Keys
  <2>2. CASE index[q] = None
    BY <2>1, <2>2 DEF Found
  <2>3. CASE index[q] # None
    <3> DEFINE x == Found(q)
               p == index[q].off
    <3>1. x \in Texts /\ x.size = index[q].size /\ Holds(dat, p, x)
      BY <2>3, ReadBack DEF FilesAgree, Stored
    <3>2. p \in Nat
      BY <2>1, <2>3 DEF FilesAgree, TypeOK, Prec
    <3> HIDE DEF x, p
    <3>3. Holds(dat', p, x)
      BY <1>3, <1>4, <1>5, <3>1, <3>2, HoldsLonger
    <3>4. ReadAt(dat', p, x.size) = x
      BY <1>6, <3>1, <3>2, <3>3, ReadText
    <3>5. Found(q)' = ReadAt(dat', p, x.size)
      BY <2>1, <2>3, <3>1 DEF Found, p
    <3> QED
      BY <3>4, <3>5 DEF x
  <2> QED
    BY <2>2, <2>3
<1>10. Found(s) = None
  BY <1>4 DEF Found
<1> QED
  BY <1>3, <1>7, <1>8, <1>9, <1>10

(* Every step of the file persister is a step of the contract.             *)
LEMMA StepRefines ==
    ASSUME Sequential, FilesAgree, FilesAgree', [Next]_vars
    PROVE  [Contract!Next]_(Contract!vars)
<1> DEFINE stored == [q \in SeqNums |-> Found(q)]
<1>0. 0 \in Keys /\ SeqNums \subseteq Keys
  BY DEF Keys
<1>1. ASSUME dat' = dat, \A q \in SeqNums : index'[q] = index[q]
      PROVE  stored' = stored
  BY <1>1, FoundSame
<1>2. ASSUME index' = index PROVE ControlRecord' = ControlRecord
  BY <1>2 DEF ControlRecord
<1>3. CASE \E purge \in BOOLEAN : initialise(purge)
  <2>1. PICK purge \in BOOLEAN : initialise(purge)
    BY <1>3
  <2>2. CASE purge
    <3>1. idx' = <<>> /\ DOMAIN idx' = {} /\ got' = None
      BY <2>1, <2>2 DEF initialise
    <3>2. index' = [q \in Keys |-> None]
      BY <2>1, <3>1 DEF initialise, Load
    <3>3. \A q \in SeqNums : Found(q)' = None
      BY <1>0, <3>2 DEF Found
    <3>4. stored' = Contract!Empty /\ ControlRecord' = None
      BY <1>0, <3>2, <3>3 DEF Contract!Empty, ControlRecord
    <3> QED
      BY <3>1, <3>4 DEF Contract!Next, Contract!Purge
  <2>3. CASE ~purge
    <3>1. idx' = idx /\ dat' = dat /\ index' = Load(idx) /\ got' = got /\ ~writer.on
      BY <2>1, <2>3 DEF initialise, Sequential
    <3>2. index' = index
      BY <3>1, LoadSame DEF FilesAgree
    <3> QED
      BY <1>1, <1>2, <3>1, <3>2 DEF Contract!vars
  <2> QED
    BY <2>2, <2>3
<1>4. CASE \E snd, rcv \in Numbers : put_control(snd, rcv)
  <2>1. PICK snd \in Numbers, rcv \in Numbers : put_control(snd, rcv)
    BY <1>4
  <2>2. /\ index' = [index EXCEPT ![0] = [off |-> snd, size |-> rcv]]
        /\ dat' = dat /\ got' = got
    BY <2>1 DEF put_control
  <2>3. 0 \notin SeqNums /\ snd \in Nat /\ rcv \in Nat
    BY PersisterAssumption
  <2>4. stored' = stored
    BY <1>0, <1>1, <2>2, <2>3 DEF FilesAgree, TypeOK
  <2>5. ControlRecord' = <<snd, rcv>>
    <3>1. [off |-> snd, size |-> rcv] # None
      BY <2>3, PersisterAssumption
    <3>2. index'[0] = [off |-> snd, size |-> rcv]
      BY <1>0, <2>2 DEF FilesAgree, TypeOK
    <3> QED
      BY <3>1, <3>2 DEF ControlRecord
  <2> QED
    BY <2>2, <2>3, <2>4, <2>5 DEF Contract!Next, Contract!PutControl
<1>5. CASE \E q \in SeqNums, t \in Texts : PutIndex(q, t)
  BY <1>1, <1>2, <1>5 DEF PutIndex, Contract!vars
<1>6. CASE PutData
  <2>0. PICK s, t : s = writer.seq /\ t = writer.text
    OBVIOUS
  <2>1. /\ s \in SeqNums /\ t \in Texts /\ Found(s) = None /\ Found(s)' = t
        /\ \A q \in SeqNums : q # s => Found(q)' = Found(q)
        /\ index'[0] = index[0]
    BY <1>6, <2>0, PutDataFound
  <2>2. got' = got
    BY <1>6 DEF PutData
  <2>3. ControlRecord' = ControlRecord
    BY <2>1 DEF ControlRecord
  <2>4. stored' = [stored EXCEPT ![s] = t]
    BY <2>1
  <2>5. stored[s] = None
    BY <2>1
  <2> QED
    BY <2>1, <2>2, <2>3, <2>4, <2>5 DEF Contract!Next, Contract!Put
<1>7. CASE \E from \in SeqNums, to \in Keys : GetStart(from, to)
  <2>1. dat' = dat /\ index' = index /\ got' = got
    BY <1>7 DEF GetStart
  <2> QED
    BY <1>1, <1>2, <2>1 DEF Contract!vars
<1>8. CASE GetSeek
  <2>1. dat' = dat /\ index' = index /\ got' = got
    BY <1>8 DEF GetSeek
  <2> QED
    BY <1>1, <1>2, <2>1 DEF Contract!vars
<1>9. CASE GetRead
  <2>1. dat' = dat /\ index' = index /\ query.on
    BY <1>9 DEF GetRead
  <2>2. got' = <<query.at, Found(query.at)>>
    BY <1>9, GetReadAgrees
  <2>3. query.at \in Stored /\ query.at \in SeqNums
    BY <2>1 DEF FilesAgree, Progress, Stored
  <2>4. Found(query.at) # None
    BY <2>3, ReadBack, PersisterAssumption DEF FilesAgree
  <2>5. stored[query.at] = Found(query.at)
    BY <2>3
  <2> QED
    BY <1>1, <1>2, <2>1, <2>2, <2>3, <2>4, <2>5 DEF Contract!Next, Contract!Get
<1>10. CASE UNCHANGED vars
  BY <1>1, <1>2, <1>10 DEF vars, Contract!vars
<1> QED
  BY <1>3, <1>4, <1>5, <1>6, <1>7, <1>8, <1>9, <1>10 DEF Next

(* The file persister implements the contract of class Persister: for all  *)
(* messages, numbers and restarts, what is stored under a number stays     *)
(* there until a purge and is what a query hands over.                     *)
THEOREM FilePersisterImplements ==
    ASSUME Sequential
    PROVE  Spec => KeepsContract
<1>1. Init => Contract!Init
  BY DEF Init, Contract!Init, Contract!Empty, Found, ControlRecord, Keys
<1>2. FilesAgree /\ FilesAgree' /\ [Next]_vars => [Contract!Next]_(Contract!vars)
  BY StepRefines
<1> QED
  BY FilesStayAgreed, <1>1, <1>2, PTL DEF Spec, KeepsContract, Contract!Spec

(* A step takes a number's place only at the end of the data file.         *)
LEMMA StepDisjoint ==
    ASSUME Sequential, FilesAgree, Disjoint, [Next]_vars
    PROVE  Disjoint'
<1>1. ASSUME index' = index PROVE Disjoint'
  BY <1>1 DEF Disjoint, Stored
<1>2. CASE \E purge \in BOOLEAN : initialise(purge)
  <2>1. PICK purge \in BOOLEAN : initialise(purge)
    BY <1>2
  <2>2. CASE purge
    <3>1. idx' = <<>> /\ DOMAIN idx' = {}
      BY <2>1, <2>2 DEF initialise
    <3>2. index' = [q \in Keys |-> None]
      BY <2>1, <3>1 DEF initialise, Load
    <3> QED
      BY <3>2 DEF Disjoint, Stored, Keys
  <2>3. CASE ~purge
    BY <1>1, <2>1, <2>3, LoadSame DEF initialise, Sequential, FilesAgree
  <2> QED
    BY <2>2, <2>3
<1>3. CASE \E snd, rcv \in Numbers : put_control(snd, rcv)
  <2>1. \A q \in SeqNums : index'[q] = index[q]
    BY <1>3, PersisterAssumption DEF put_control, FilesAgree, TypeOK, Keys
  <2> QED
    BY <2>1 DEF Disjoint, Stored
<1>4. CASE PutData
  <2>0. PICK s, t : s = writer.seq /\ t = writer.text
    OBVIOUS
  <2>1. /\ writer.on
        /\ index' = [index EXCEPT ![s] = [off |-> writer.off, size |-> t.size]]
    BY <1>4, <2>0 DEF PutData
  <2>2. writer \in Writing
    BY <2>1 DEF FilesAgree, TypeOK, Idle
  <2>3. s \in SeqNums /\ s \in Keys /\ writer.off = Len(dat)
    BY <2>0, <2>1, <2>2 DEF Writing, Keys, FilesAgree, Appending
  <2>4. /\ index'[s].off = Len(dat)
        /\ \A q \in SeqNums : q # s => index'[q] = index[q]
    BY <2>1, <2>3 DEF FilesAgree, TypeOK, Keys
  <2>5. \A q \in Stored : index[q].off + index[q].size <= Len(dat)
    BY ReadBack DEF FilesAgree, Holds
  <2>6. \A q \in Stored' : q # s => q \in Stored /\ index'[q] = index[q]
    BY <2>4 DEF Stored
  <2>7. ASSUME NEW p \in Stored', NEW q \in Stored', p # q
        PROVE  \/ index'[p].off + index'[p].size <= index'[q].off
               \/ index'[q].off + index'[q].size <= index'[p].off
    <3>1. CASE p = s
      BY <2>4, <2>5, <2>6, <2>7, <3>1
    <3>2. CASE q = s
      BY <2>4, <2>5, <2>6, <2>7, <3>2
    <3>3. CASE p # s /\ q # s
      BY <2>6, <2>7, <3>3 DEF Disjoint
    <3> QED
      BY <3>1, <3>2, <3>3
  <2> QED
    BY <2>7 DEF Disjoint
<1>5. CASE \/ \E q \in SeqNums, t \in Texts : PutIndex(q, t)
           \/ \E from \in SeqNums, to \in Keys : GetStart(from, to)
           \/ GetSeek \/ GetRead \/ UNCHANGED vars
  BY <1>1, <1>5 DEF PutIndex, GetStart, GetSeek, GetRead, vars
<1> QED
  BY <1>2, <1>3, <1>4, <1>5 DEF Next

(* Every number in the index has a message of its own in the data file: it *)
(* reads back as a message, and from bytes no other number shares.         *)
THEOREM EveryNumberItsMessage ==
    ASSUME Sequential
    PROVE  Spec => [](Readable /\ Disjoint)
<1>1. Init => Disjoint
  BY DEF Init, Disjoint, Stored, Keys
<1>2. FilesAgree /\ Disjoint /\ [Next]_vars => Disjoint'
  BY StepDisjoint
<1>3. FilesAgree => Readable
  BY ReadBack DEF FilesAgree, Readable
<1> QED
  BY FilesStayAgreed, <1>1, <1>2, <1>3, PTL DEF Spec

=============================================================================
