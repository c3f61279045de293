----------------------- MODULE QueuedPersisterProofs -----------------------
(***************************************************************************)
(* What the persisters without files promise, for every bound on numbers,  *)
(* queries, restarts and crashes: a stopped store holds all that was put   *)
(* in it, a killed one a control record that covers its messages, and a    *)
(* query gives back what was stored when it began.                         *)
(***************************************************************************)
EXTENDS QueuedPersister, FiniteSetTheorems, WellFoundedInduction, SequenceTheorems, TLAPS

Positive == Nat \ {0}

MessageRecs == {Record(k, Message(n)) : k \in Positive, n \in Positive}
ControlRecs == {Record(0, Control(s, r)) : s \in Positive, r \in Positive}
Recs == MessageRecs \cup ControlRecs

(* The parts of the state the put path reads and writes.                   *)
PutTypeOK ==
    /\ kind \in {"memory", "bdb", "memcached", "redis"}
    /\ role \in {"initiator", "acceptor"} /\ ended \in {"no", "stopped", "killed"}
    /\ due \in {"none", "logon", "message"}
    /\ up \in BOOLEAN /\ worker \in BOOLEAN /\ counts \in BOOLEAN /\ bytewise \in BOOLEAN
    /\ db \subseteq Recs /\ accepted \subseteq Recs
    /\ queue \in Seq(Recs \cup {None})
    /\ half = None \/ \E s, r \in Positive : half = Control(s, r)
    /\ snd \in Positive /\ rcv \in Positive /\ text \in Nat

(* The shape of a record, as the provers need it.                          *)
LEMMA RecShape ==
    /\ \A k, n \in Positive : Record(k, Message(n)) \in MessageRecs
    /\ \A s, r \in Positive : Record(0, Control(s, r)) \in ControlRecs
    /\ \A x \in MessageRecs : /\ x[1] \in Positive
                              /\ x[2][1] \in Positive
                              /\ x[2] = <<x[2][1]>>
                              /\ x = <<x[1], x[2]>>
    /\ \A x \in ControlRecs : /\ x[1] = 0
                              /\ x[2][1] \in Positive
                              /\ x[2][2] \in Positive
                              /\ x[2] = <<x[2][1], x[2][2]>>
                              /\ x = <<x[1], x[2]>>
  BY DEF MessageRecs, ControlRecs, Record, Message, Control, Positive

(* A record is not the empty buffer, and tells its sort by its key.        *)
LEMMA RecSort ==
    /\ None \notin Recs
    /\ \A x \in Recs : x[1] \in Nat
    /\ \A x \in Recs : x[1] = 0 <=> x \in ControlRecs
    /\ \A x \in Recs : x[1] # 0 <=> x \in MessageRecs
    /\ \A n, s, r \in Positive : Message(n) # Control(s, r)
    /\ \A s, r \in Positive : Control(s, r) # None
<1>1. \A a, b : <<a, b>> # <<>>
  <2> SUFFICES ASSUME NEW a, NEW b PROVE <<a, b>> # <<>>
    OBVIOUS
  <2>1. Len(<<a, b>>) = 2 /\ Len(<<>>) = 0
    OBVIOUS
  <2> QED
    BY <2>1
<1>2. \A n, s, r : <<n>> # <<s, r>>
  <2> SUFFICES ASSUME NEW n, NEW s, NEW r PROVE <<n>> # <<s, r>>
    OBVIOUS
  <2>1. Len(<<n>>) = 1 /\ Len(<<s, r>>) = 2
    OBVIOUS
  <2> QED
    BY <2>1
<1>3. None \notin Recs
  BY <1>1 DEF Recs, MessageRecs, ControlRecs, Record, None
<1>4. /\ \A n, s, r \in Positive : Message(n) # Control(s, r)
      /\ \A s, r \in Positive : Control(s, r) # None
  BY <1>1, <1>2 DEF Message, Control, None
<1>5. ASSUME NEW x \in MessageRecs PROVE x[1] \in Nat /\ x[1] # 0
  BY RecShape DEF Positive
<1>6. ASSUME NEW x \in ControlRecs PROVE x[1] = 0 /\ x[1] \in Nat
  <2>1. x[1] = 0
    BY RecShape
  <2> QED
    BY <2>1
<1>7. ASSUME NEW x \in Recs
      PROVE  /\ x[1] \in Nat
             /\ x[1] = 0 <=> x \in ControlRecs
             /\ x[1] # 0 <=> x \in MessageRecs
  BY <1>5, <1>6 DEF Recs
<1> QED
  BY <1>3, <1>4, <1>7

-----------------------------------------------------------------------------
(* What the worker will have written *)

(* The record at place i of q is the last one of its key.                  *)
LastOfKey(q, i) ==
    q[i] # None /\ \A j \in DOMAIN q : i < j /\ q[j] # None => q[j][1] # q[i][1]

(* The database d once every record of q is written to it.                 *)
Written(d, q) ==
    {x \in d : \A i \in DOMAIN q : q[i] # None => q[i][1] # x[1]}
        \cup {q[i] : i \in {j \in DOMAIN q : LastOfKey(q, j)}}

(* The same as a condition on one record.                                  *)
LEMMA InWritten ==
    ASSUME NEW d, NEW q, NEW x
    PROVE  x \in Written(d, q) <=>
              \/ x \in d /\ \A i \in DOMAIN q : q[i] # None => q[i][1] # x[1]
              \/ \E i \in DOMAIN q : LastOfKey(q, i) /\ x = q[i]
  BY DEF Written

(* Nothing queued, nothing to write: an empty buffer writes nothing.       *)
LEMMA WrittenEmpty ==
    ASSUME NEW d
    PROVE  Written(d, <<>>) = d /\ Written(d, <<None>>) = d
<1>1. ASSUME NEW q, \A i \in DOMAIN q : q[i] = None PROVE Written(d, q) = d
  BY <1>1 DEF Written, LastOfKey
<1>2. \A i \in DOMAIN <<>> : <<>>[i] = None
  OBVIOUS
<1>3. \A i \in DOMAIN <<None>> : <<None>>[i] = None
  OBVIOUS
<1> QED
  BY <1>1, <1>2, <1>3

(* The buffer that ends the worker adds nothing.                           *)
LEMMA WrittenEnd ==
    ASSUME NEW d \in SUBSET Recs, NEW q \in Seq(Recs \cup {None})
    PROVE  Written(d, Append(q, None)) = Written(d, q)
<1> DEFINE a == Append(q, None)
           n == Len(q)
<1>1. /\ n \in Nat /\ DOMAIN q = 1 .. n /\ DOMAIN a = 1 .. n + 1
      /\ a[n + 1] = None /\ \A i \in 1 .. n : a[i] = q[i]
  OBVIOUS
<1> HIDE DEF a, n
<1>2. \A i \in 1 .. n : LastOfKey(a, i) <=> LastOfKey(q, i)
  BY <1>1 DEF LastOfKey
<1>3. ~LastOfKey(a, n + 1)
  BY <1>1 DEF LastOfKey
<1>4. ASSUME NEW x PROVE x \in Written(d, a) <=> x \in Written(d, q)
  <2>1. x \in Written(d, a) <=>
           \/ x \in d /\ \A i \in 1 .. n + 1 : a[i] # None => a[i][1] # x[1]
           \/ \E i \in 1 .. n + 1 : LastOfKey(a, i) /\ x = a[i]
    BY InWritten, <1>1
  <2>2. (\A i \in 1 .. n + 1 : a[i] # None => a[i][1] # x[1])
            <=> (\A i \in 1 .. n : q[i] # None => q[i][1] # x[1])
    BY <1>1
  <2>3. (\E i \in 1 .. n + 1 : LastOfKey(a, i) /\ x = a[i])
            <=> \E i \in 1 .. n : LastOfKey(q, i) /\ x = q[i]
    BY <1>1, <1>2, <1>3
  <2>4. x \in Written(d, q) <=>
           \/ x \in d /\ \A i \in 1 .. n : q[i] # None => q[i][1] # x[1]
           \/ \E i \in 1 .. n : LastOfKey(q, i) /\ x = q[i]
    BY InWritten, <1>1
  <2> QED
    BY <2>1, <2>2, <2>3, <2>4
<1> QED
  BY <1>4 DEF a

(* What a put leaves in each of the stores.                                *)
LEMMA StoredCases ==
    ASSUME NEW d, NEW r
    PROVE  /\ kind = "memory" => Stored(d, r) = IF r[1] \in KeysOf(d) THEN d ELSE d \cup {r}
           /\ kind = "redis" => Stored(d, r) = {x \in d : x[2] # r[2]} \cup {r}
           /\ kind = "bdb" => Stored(d, r) = {x \in d : x[1] # r[1]} \cup {r}
           /\ kind = "memcached" => Stored(d, r) = {x \in d : x[1] # r[1]} \cup {r}
<1> DEFINE A == IF r[1] \in KeysOf(d) THEN d ELSE d \cup {r}
           B == {x \in d : x[2] # r[2]} \cup {r}
           C == {x \in d : x[1] # r[1]} \cup {r}
<1>1. Stored(d, r) = CASE kind = "memory" -> A [] kind = "redis" -> B
                       [] kind \in {"bdb", "memcached"} -> C
  BY DEF Stored
<1> HIDE DEF A, B, C
<1>2. /\ kind = "memory" => Stored(d, r) = A
      /\ kind = "redis" => Stored(d, r) = B
      /\ kind = "bdb" => Stored(d, r) = C
      /\ kind = "memcached" => Stored(d, r) = C
  BY <1>1
<1> QED
  BY <1>2 DEF A, B, C

(* A record queued behind the others is written over them.                 *)
LEMMA WrittenAppend ==
    ASSUME kind = "bdb", NEW d \in SUBSET Recs, NEW q \in Seq(Recs \cup {None}), NEW r \in Recs
    PROVE  Written(d, Append(q, r)) = Stored(Written(d, q), r)
<1> DEFINE a == Append(q, r)
           n == Len(q)
<1>1. /\ n \in Nat /\ DOMAIN q = 1 .. n /\ DOMAIN a = 1 .. n + 1
      /\ a[n + 1] = r /\ \A i \in 1 .. n : a[i] = q[i]
  OBVIOUS
<1>2. r # None
  BY RecSort
<1> HIDE DEF a, n
<1>3. \A i \in 1 .. n : LastOfKey(a, i) <=> LastOfKey(q, i) /\ q[i][1] # r[1]
  <2> SUFFICES ASSUME NEW i \in 1 .. n
               PROVE  LastOfKey(a, i) <=> LastOfKey(q, i) /\ q[i][1] # r[1]
    OBVIOUS
  <2>1. n + 1 \in DOMAIN a /\ i < n + 1 /\ i \in DOMAIN a /\ i \in DOMAIN q
    BY <1>1
  <2>2. \A j \in DOMAIN a : j = n + 1 \/ j \in DOMAIN q
    BY <1>1
  <2>3. \A j \in DOMAIN q : j \in DOMAIN a /\ j # n + 1
    BY <1>1
  <2> QED
    BY <2>1, <2>2, <2>3, <1>1, <1>2 DEF LastOfKey
<1>4. LastOfKey(a, n + 1)
  BY <1>1, <1>2 DEF LastOfKey
<1>5. ASSUME NEW x PROVE x \in Written(d, a) <=> x \in Stored(Written(d, q), r)
  <2>1. x \in Written(d, a) <=>
           \/ x \in d /\ \A i \in 1 .. n + 1 : a[i] # None => a[i][1] # x[1]
           \/ \E i \in 1 .. n + 1 : LastOfKey(a, i) /\ x = a[i]
    BY InWritten, <1>1
  <2>2. (\A i \in 1 .. n + 1 : a[i] # None => a[i][1] # x[1])
            <=> (\A i \in 1 .. n : q[i] # None => q[i][1] # x[1]) /\ r[1] # x[1]
    BY <1>1, <1>2
  <2>3. (\E i \in 1 .. n + 1 : LastOfKey(a, i) /\ x = a[i])
            <=> x = r \/ \E i \in 1 .. n : LastOfKey(q, i) /\ q[i][1] # r[1] /\ x = q[i]
    BY <1>1, <1>3, <1>4
  <2>4. x \in Written(d, q) <=>
           \/ x \in d /\ \A i \in 1 .. n : q[i] # None => q[i][1] # x[1]
           \/ \E i \in 1 .. n : LastOfKey(q, i) /\ x = q[i]
    BY InWritten, <1>1
  <2>5. x \in Stored(Written(d, q), r) <=> x = r \/ (x \in Written(d, q) /\ x[1] # r[1])
    BY StoredCases
  <2> QED
    BY <2>1, <2>2, <2>3, <2>4, <2>5
<1> QED
  BY <1>5 DEF a

(* Writing the oldest record leaves what will have been written as it is.  *)
LEMMA WrittenHead ==
    ASSUME kind = "bdb", NEW d \in SUBSET Recs, NEW q \in Seq(Recs \cup {None}),
           q # <<>>, Head(q) # None
    PROVE  Written(Stored(d, Head(q)), Tail(q)) = Written(d, q)
<1> DEFINE t == Tail(q)
           n == Len(q)
           r == Head(q)
<1>1. /\ n \in Nat /\ n >= 1 /\ DOMAIN q = 1 .. n /\ DOMAIN t = 1 .. n - 1
      /\ r = q[1] /\ \A i \in 1 .. n - 1 : t[i] = q[i + 1]
  OBVIOUS
<1>2. r # None
  OBVIOUS
<1> HIDE DEF t, n, r
<1>3. \A i \in 2 .. n : i - 1 \in 1 .. n - 1 /\ t[i - 1] = q[i]
  BY <1>1
<1>4. \A i \in 1 .. n - 1 : LastOfKey(t, i) <=> LastOfKey(q, i + 1)
  <2> SUFFICES ASSUME NEW i \in 1 .. n - 1 PROVE LastOfKey(t, i) <=> LastOfKey(q, i + 1)
    OBVIOUS
  <2>1. ASSUME LastOfKey(t, i) PROVE LastOfKey(q, i + 1)
    <3> SUFFICES ASSUME NEW j \in 1 .. n, i + 1 < j, q[j] # None PROVE q[j][1] # q[i + 1][1]
      BY <1>1, <2>1 DEF LastOfKey
    <3>1. j - 1 \in 1 .. n - 1 /\ i < j - 1 /\ t[j - 1] = q[j]
      BY <1>1, <1>3
    <3> QED
      BY <1>1, <2>1, <3>1 DEF LastOfKey
  <2>2. ASSUME LastOfKey(q, i + 1) PROVE LastOfKey(t, i)
    <3> SUFFICES ASSUME NEW j \in 1 .. n - 1, i < j, t[j] # None PROVE t[j][1] # t[i][1]
      BY <1>1, <2>2 DEF LastOfKey
    <3>1. j + 1 \in 1 .. n /\ i + 1 < j + 1 /\ t[j] = q[j + 1]
      BY <1>1
    <3> QED
      BY <1>1, <2>2, <3>1 DEF LastOfKey
  <2> QED
    BY <2>1, <2>2
<1>5. LastOfKey(q, 1) <=> \A j \in 1 .. n - 1 : t[j] # None => t[j][1] # r[1]
  <2>1. ASSUME LastOfKey(q, 1), NEW j \in 1 .. n - 1, t[j] # None PROVE t[j][1] # r[1]
    <3>1. j + 1 \in 1 .. n /\ 1 < j + 1 /\ t[j] = q[j + 1]
      BY <1>1
    <3> QED
      BY <1>1, <2>1, <3>1 DEF LastOfKey
  <2>2. ASSUME \A j \in 1 .. n - 1 : t[j] # None => t[j][1] # r[1] PROVE LastOfKey(q, 1)
    <3> SUFFICES ASSUME NEW j \in 1 .. n, 1 < j, q[j] # None PROVE q[j][1] # q[1][1]
      BY <1>1, <1>2 DEF LastOfKey
    <3>1. j - 1 \in 1 .. n - 1 /\ t[j - 1] = q[j]
      BY <1>1, <1>3
    <3> QED
      BY <1>1, <2>2, <3>1
  <2> QED
    BY <2>1, <2>2
<1>6. ASSUME NEW x PROVE x \in Written(Stored(d, r), t) <=> x \in Written(d, q)
  <2> DEFINE Free == \A i \in 1 .. n - 1 : t[i] # None => t[i][1] # x[1]
             Kept == \E i \in 1 .. n - 1 : LastOfKey(t, i) /\ x = t[i]
  <2>1. x \in Written(Stored(d, r), t) <=> (x \in Stored(d, r) /\ Free) \/ Kept
    BY InWritten, <1>1
  <2>2. x \in Written(d, q) <=>
           \/ x \in d /\ \A i \in 1 .. n : q[i] # None => q[i][1] # x[1]
           \/ \E i \in 1 .. n : LastOfKey(q, i) /\ x = q[i]
    BY InWritten, <1>1
  <2>3. (\A i \in 1 .. n : q[i] # None => q[i][1] # x[1]) <=> Free /\ r[1] # x[1]
    <3>1. ASSUME \A i \in 1 .. n : q[i] # None => q[i][1] # x[1] PROVE Free /\ r[1] # x[1]
      BY <1>1, <1>2, <3>1
    <3>2. ASSUME Free, r[1] # x[1], NEW i \in 1 .. n, q[i] # None PROVE q[i][1] # x[1]
      <4>1. i = 1 \/ i \in 2 .. n
        BY <1>1
      <4> QED
        BY <1>1, <1>3, <3>2, <4>1
    <3> QED
      BY <3>1, <3>2
  <2>4. (\E i \in 1 .. n : LastOfKey(q, i) /\ x = q[i]) <=> Kept \/ (x = r /\ Free)
    <3>1. ASSUME Kept PROVE \E i \in 1 .. n : LastOfKey(q, i) /\ x = q[i]
      <4>1. PICK i \in 1 .. n - 1 : LastOfKey(t, i) /\ x = t[i]
        BY <3>1
      <4>2. i + 1 \in 1 .. n
        BY <1>1
      <4> QED
        BY <1>1, <1>4, <4>1, <4>2
    <3>2. ASSUME x = r, Free PROVE \E i \in 1 .. n : LastOfKey(q, i) /\ x = q[i]
      <4>1. LastOfKey(q, 1) /\ 1 \in 1 .. n
        BY <1>1, <1>5, <3>2
      <4> QED
        BY <1>1, <3>2, <4>1
    <3>3. ASSUME NEW i \in 1 .. n, LastOfKey(q, i), x = q[i] PROVE Kept \/ (x = r /\ Free)
      <4>1. CASE i = 1
        BY <1>1, <1>5, <3>3, <4>1
      <4>2. CASE i # 1
        <5>1. i \in 2 .. n /\ (i - 1) + 1 = i
          BY <1>1, <4>2
        <5>2. i - 1 \in 1 .. n - 1 /\ t[i - 1] = q[i]
          BY <1>3, <5>1
        <5>3. LastOfKey(t, i - 1)
          BY <1>4, <3>3, <5>1, <5>2
        <5> QED
          BY <3>3, <5>2, <5>3
      <4> QED
        BY <4>1, <4>2
    <3> QED
      BY <3>1, <3>2, <3>3
  <2>5. x \in Stored(d, r) <=> x = r \/ (x \in d /\ x[1] # r[1])
    BY StoredCases
  <2> HIDE DEF Free, Kept
  <2> QED
    BY <2>1, <2>2, <2>3, <2>4, <2>5
<1> QED
  BY <1>6 DEF t, r

-----------------------------------------------------------------------------
(* Types *)

(* Storing a record keeps a store of records.                              *)
LEMMA StoredType ==
    ASSUME kind \in {"memory", "bdb", "memcached", "redis"}, NEW d \in SUBSET Recs, NEW r \in Recs
    PROVE  Stored(d, r) \subseteq Recs
  BY StoredCases

(* What get() of the control record may return, for a store that keeps it. *)
LEMMA ControlRecordsOf ==
    ASSUME kind \in {"memory", "bdb", "memcached", "redis"}, NEW d \in SUBSET Recs,
           NEW c \in ControlRecords(d)
    PROVE  /\ c[1] \in Positive /\ c[2] \in Positive
           /\ kind # "memory" => \E x \in d : x[1] = 0 /\ c = x[2]
<1> DEFINE z == {x \in d : x[1] = 0}
           M == {Control(s, r) : s \in 1 .. MaxSeq + 1, r \in 1 .. MaxRcv}
           T == {x[2] : x \in z}
<1>1. ControlRecords(d) =
         CASE kind = "memory" -> IF z = {} THEN {} ELSE M
           [] kind = "redis"  -> IF Cardinality(z) = 1 THEN T ELSE {}
           [] kind \in {"bdb", "memcached"} -> T
  BY DEF ControlRecords
<1> HIDE DEF M, T, z
<1>2. (kind = "memory" /\ c \in M) \/ (kind # "memory" /\ c \in T)
  BY <1>1
<1>3. CASE kind = "memory" /\ c \in M
  <2>1. MaxSeq \in Nat /\ MaxRcv \in Nat
    BY PersisterAssumption
  <2>2. PICK s \in 1 .. MaxSeq + 1, r \in 1 .. MaxRcv : c = Control(s, r)
    BY <1>3 DEF M
  <2> QED
    BY <1>3, <2>1, <2>2 DEF Control, Positive
<1>4. CASE kind # "memory" /\ c \in T
  <2>1. PICK x \in d : x[1] = 0 /\ c = x[2]
    BY <1>4 DEF T, z
  <2>2. x \in ControlRecs
    BY <2>1, RecSort
  <2> QED
    BY <2>1, <2>2, RecShape
<1> QED
  BY <1>2, <1>3, <1>4

(* recover_seqnums finds two positive numbers in any store.                *)
LEMMA RecoveredType ==
    ASSUME kind \in {"memory", "bdb", "memcached", "redis"}, NEW d \in SUBSET Recs, Recovered(d)
    PROVE  snd' \in Positive /\ rcv' \in Positive
<1>1. CASE ControlRecords(d) = {}
  BY <1>1 DEF Recovered, Positive
<1>2. CASE ControlRecords(d) # {}
  <2>1. PICK c \in ControlRecords(d) : snd' = c[1] /\ rcv' = c[2]
    BY <1>2 DEF Recovered
  <2> QED
    BY <2>1, ControlRecordsOf
<1> QED
  BY <1>1, <1>2

(* The number the sender's last control record told, counted or not.       *)
Reach == IF counts THEN snd + 1 ELSE snd

PutControl == PutSent \/ PutAdmin \/ PutReceived \/ PutRefused

(* A put of the control record, by whichever caller: its send number is    *)
(* the one reached or, in the race with a sender, one lower.               *)
LEMMA PutControlStep ==
    ASSUME PutTypeOK, PutControl
    PROVE  \E s, r \in Positive :
              /\ PutControlAs(s, r) /\ Record(0, Control(s, r)) \in Recs
              /\ s = Reach' \/ (Racing /\ s + 1 = Reach')
              /\ Reach <= Reach' /\ (owes => owes' \/ Reach < Reach')
              /\ counts' \in BOOLEAN /\ due' \in {"none", "logon", "message"}
<1>1. /\ snd \in Nat /\ snd + 1 \in Positive /\ rcv + 1 \in Positive
      /\ snd \in Positive /\ rcv \in Positive
  BY DEF PutTypeOK, Positive
<1>2. \A s, r \in Positive : Record(0, Control(s, r)) \in Recs
  BY RecShape DEF Recs
<1>3. snd' = snd
  BY DEF PutControl, PutSent, PutAdmin, PutReceived, PutRefused, PutControlAs
<1>4. CASE PutSent \/ PutAdmin
  <2>1. /\ PutControlAs(snd + 1, rcv) /\ Reach = snd /\ Reach' = snd + 1 /\ counts' = TRUE
        /\ due' \in {"none", "logon", "message"}
    BY <1>3, <1>4 DEF PutSent, PutAdmin, Reach, PutTypeOK
  <2> QED
    BY <1>1, <1>2, <2>1
<1>5. CASE PutReceived \/ PutRefused
  <2>1. /\ PutControlAs(snd, rcv + 1) /\ due' = due /\ counts' = counts /\ Reach' = Reach
        /\ owes' = owes
    BY <1>3, <1>5 DEF PutReceived, PutRefused, Reach, owes
  <2>2. snd = Reach' \/ (Racing /\ snd + 1 = Reach')
    BY <1>5, <2>1 DEF PutReceived, PutRefused, Reach
  <2>3. Reach <= Reach' /\ (owes => owes' \/ Reach < Reach')
    BY <1>1, <2>1 DEF Reach
  <2>4. counts' \in BOOLEAN /\ due' \in {"none", "logon", "message"}
    BY <2>1 DEF PutTypeOK
  <2> QED
    BY <1>1, <1>2, <2>1, <2>2, <2>3, <2>4
<1> QED
  BY <1>4, <1>5 DEF PutControl

(* The initial state has its type.                                         *)
LEMMA PutTypeInit == Init => PutTypeOK
<1>1. <<>> \in Seq(Recs \cup {None})
  OBVIOUS
<1>2. 1 \in Positive /\ 0 \in Nat
  BY DEF Positive
<1> QED
  BY <1>1, <1>2, PersisterAssumption DEF Init, PutTypeOK

QueryStepTaken == GetStart \/ GetNext \/ GetEnd \/ GetReturns

(* A query changes nothing but the query and what is used of the bounds.   *)
LEMMA QueryFrame ==
    ASSUME QueryStepTaken
    PROVE  /\ UNCHANGED <<kind, up, ended, bytewise, db, queue, worker, half, text, accepted>>
           /\ UNCHANGED <<role, snd, rcv, due, counts>>
<1>1. CASE GetStart
  BY <1>1 DEF GetStart, session
<1>2. CASE GetNext
  BY <1>2 DEF GetNext, session
<1>3. CASE GetEnd
  BY <1>3 DEF GetEnd, session
<1>4. CASE GetReturns
  BY <1>4 DEF GetReturns, session
<1> QED
  BY <1>1, <1>2, <1>3, <1>4 DEF QueryStepTaken

(* Every step keeps the types of the put path.                             *)
LEMMA PutTypeStep == PutTypeOK /\ [Next]_vars => PutTypeOK'
<1> SUFFICES ASSUME PutTypeOK, [Next]_vars PROVE PutTypeOK'
  OBVIOUS
<1>1. ASSUME NEW r \in Recs PROVE Append(queue, r) \in Seq(Recs \cup {None})
  <2>1. r \in Recs \cup {None} /\ queue \in Seq(Recs \cup {None})
    BY DEF PutTypeOK
  <2> QED
    BY <2>1
<1>2. ASSUME NEW r \in Recs PROVE Stored(db, r) \subseteq Recs /\ Stored(accepted, r) \subseteq Recs
  BY StoredType DEF PutTypeOK
<1>3. CASE PutMessage
  <2> DEFINE r == Record(snd, Message(text + 1))
  <2>1. r \in Recs
    <3>1. snd \in Positive /\ text + 1 \in Positive
      BY DEF PutTypeOK, Positive
    <3> QED
      BY <3>1, RecShape DEF Recs
  <2>2. db' \subseteq Recs /\ queue' \in Seq(Recs \cup {None}) /\ half' = half
    BY <1>1, <1>2, <1>3, <2>1 DEF PutMessage, write, PutTypeOK
  <2>3. accepted' \subseteq Recs /\ text' \in Nat
    BY <1>2, <1>3, <2>1 DEF PutMessage, Accept, PutTypeOK
  <2> QED
    BY <1>3, <2>2, <2>3 DEF PutMessage, PutTypeOK
<1>4. CASE PutControl
  <2>1. PICK s, r \in Positive : /\ PutControlAs(s, r) /\ Record(0, Control(s, r)) \in Recs
                                 /\ counts' \in BOOLEAN /\ due' \in {"none", "logon", "message"}
    BY <1>4, PutControlStep
  <2>2. {x \in accepted : kind = "redis" => x[1] # 0} \in SUBSET Recs
    BY DEF PutTypeOK
  <2>3. accepted' \subseteq Recs
    BY <2>1, <2>2, StoredType DEF PutControlAs, Accept, PutTypeOK
  <2>4. db' \subseteq Recs /\ queue' \in Seq(Recs \cup {None})
        /\ (half' = half \/ half' = Control(s, r))
    BY <1>1, <1>2, <2>1 DEF PutControlAs, write, PutTypeOK
  <2> QED
    BY <2>1, <2>3, <2>4 DEF PutControlAs, PutTypeOK
<1>5. CASE ZAdd
  <2>1. Record(0, half) \in Recs
    BY <1>5, RecShape DEF ZAdd, PutTypeOK, Recs
  <2> QED
    BY <1>2, <1>5, <2>1 DEF ZAdd, session, PutTypeOK
<1>6. CASE WorkerWrites
  <2>1. Head(queue) \in Recs \cup {None} /\ Tail(queue) \in Seq(Recs \cup {None})
    BY <1>6 DEF WorkerWrites, PutTypeOK
  <2> QED
    BY <1>2, <1>6, <2>1 DEF WorkerWrites, session, PutTypeOK
<1>7. CASE QueryStepTaken
  BY <1>7, QueryFrame DEF PutTypeOK
<1>8. CASE Open
  <2>1. PICK d \in {{}, db} : db' = d /\ accepted' = d /\ Recovered(d) /\ bytewise' \in BOOLEAN
    BY <1>8 DEF Open
  <2>2. d \in SUBSET Recs
    BY <2>1 DEF PutTypeOK
  <2>3. snd' \in Positive /\ rcv' \in Positive
    BY <2>1, <2>2, RecoveredType DEF PutTypeOK
  <2> QED
    BY <1>8, <2>1, <2>2, <2>3 DEF Open, PutTypeOK
<1>9. CASE Recover
  <2>1. snd' \in Positive /\ rcv' \in Positive
    BY <1>9, RecoveredType DEF Recover, PutTypeOK
  <2> QED
    BY <1>9, <2>1 DEF Recover, PutTypeOK
<1>10. CASE StopBegins \/ SessionStop
  <2>1. Append(queue, None) \in Seq(Recs \cup {None}) /\ <<>> \in Seq(Recs \cup {None})
    BY DEF PutTypeOK
  <2> QED
    BY <1>10, <2>1 DEF StopBegins, SessionStop, session, PutTypeOK
<1>11. CASE Crash
  <2>1. <<>> \in Seq(Recs \cup {None})
    OBVIOUS
  <2> QED
    BY <1>11, <2>1 DEF Crash, PutTypeOK
<1>12. CASE UNCHANGED vars
  BY <1>12 DEF vars, session, PutTypeOK
<1>13. CASE Count
  <2>1. snd + 1 \in Positive
    BY DEF PutTypeOK, Positive
  <2> QED
    BY <1>13, <2>1 DEF Count, PutTypeOK
<1> QED
  BY <1>3, <1>4, <1>5, <1>6, <1>7, <1>8, <1>9, <1>10, <1>11, <1>12, <1>13
     DEF Next, PutControl, QueryStepTaken

-----------------------------------------------------------------------------
(* A stopped store is complete *)

(* A session holds the store and has not told its worker to end.           *)
Serving == up /\ ended = "no"

(* The buffer that ends the worker is the last one queued, and only a      *)
(* store that is closing, or whose session stops, has queued it; redis     *)
(* alone writes in two steps.                                              *)
QueueShape ==
    /\ kind # "bdb" => queue = <<>> /\ ~worker
    /\ kind = "bdb" /\ Serving => worker
    /\ Serving => \A i \in DOMAIN queue : queue[i] # None
    /\ worker /\ ~Serving => /\ queue # <<>>
                             /\ \A i \in DOMAIN queue : queue[i] = None <=> i = Len(queue)
    /\ ~up /\ ~worker => queue = <<>>
    /\ up => ended # "killed"
    /\ ended = "stopped" => role = "acceptor"
    /\ half # None => up /\ kind = "redis"

(* What was accepted is what the store holds once the worker has drained   *)
(* the queue and the second redis command is done.                         *)
Agree ==
    ended # "killed" =>
        accepted = IF kind = "bdb" THEN IF worker THEN Written(db, queue) ELSE db
                   ELSE IF half = None THEN db ELSE Stored(db, Record(0, half))

DrainInv == PutTypeOK /\ QueueShape /\ Agree

(* A session keeps the persister it has.                                   *)
LEMMA KindKept == [Next]_vars => kind' = kind
<1>1. PutControl => kind' = kind
  BY DEF PutControl, PutSent, PutAdmin, PutReceived, PutRefused, PutControlAs
<1>2. QueryStepTaken => kind' = kind
  BY QueryFrame
<1>3. PutMessage \/ Count \/ ZAdd \/ WorkerWrites => kind' = kind
  BY DEF PutMessage, Count, ZAdd, WorkerWrites
<1>4. Open \/ Recover \/ SessionStop \/ StopBegins \/ Crash => kind' = kind
  BY DEF Open, Recover, SessionStop, StopBegins, Crash
<1>5. UNCHANGED vars => kind' = kind
  BY DEF vars
<1> QED
  BY <1>1, <1>2, <1>3, <1>4, <1>5 DEF Next, PutControl, QueryStepTaken

(* An empty store has accepted nothing.                                    *)
LEMMA DrainInit == Init => DrainInv
  BY PutTypeInit DEF Init, DrainInv, QueueShape, Agree, Serving

(* The queue behind a put, and the store without one.                      *)
LEMMA WriteAgrees ==
    ASSUME DrainInv, half = None, up, ended = "stopped" => ~worker, NEW r \in Recs, write(r),
           Accept(accepted, r), up' = up, ended' = ended, worker' = worker, kind' = kind,
           role' = role
    PROVE  QueueShape' /\ Agree'
<1>1. ended \in {"no", "stopped"}
  BY DEF DrainInv, PutTypeOK, QueueShape
<1>2. CASE kind = "bdb" /\ ended = "no"
  <2>1. /\ queue \in Seq(Recs \cup {None}) /\ db \in SUBSET Recs /\ queue' = Append(queue, r)
        /\ db' = db /\ half' = half /\ worker /\ accepted' = Stored(accepted, r)
    BY <1>2 DEF DrainInv, PutTypeOK, QueueShape, Serving, write, Accept, Deaf
  <2>2. Written(db, queue') = Stored(Written(db, queue), r)
    BY <1>2, <2>1, WrittenAppend
  <2>3. r # None
    BY RecSort
  <2>4. \A i \in DOMAIN queue' : queue'[i] # None
    BY <1>2, <2>1, <2>3 DEF DrainInv, QueueShape, Serving
  <2>5. accepted = Written(db, queue)
    BY <1>2, <2>1 DEF DrainInv, Agree
  <2> QED
    BY <1>2, <2>1, <2>2, <2>4, <2>5 DEF DrainInv, QueueShape, Agree, Serving
<1>3. CASE kind = "bdb" /\ ended = "stopped"
  <2>1. db' = db /\ half' = half /\ ~worker /\ accepted' = accepted
    BY <1>3 DEF write, Accept, Deaf
  <2> QED
    BY <1>3, <2>1 DEF DrainInv, QueueShape, Agree, Serving
<1>4. CASE kind # "bdb"
  <2>1. db' = Stored(db, r) /\ queue' = queue /\ half' = half /\ accepted' = Stored(accepted, r)
    BY <1>4 DEF write, Accept, Deaf
  <2> QED
    BY <1>1, <1>4, <2>1 DEF DrainInv, QueueShape, Agree, Serving
<1> QED
  BY <1>1, <1>2, <1>3, <1>4

(* The empty buffer is queued last, and adds nothing to what is written.   *)
LEMMA EndQueued ==
    ASSUME DrainInv, kind = "bdb", worker, Serving, queue' = Append(queue, None),
           UNCHANGED <<kind, db, worker, half, accepted>>, ~Serving',
           up' => up, ended' \in {"no", "stopped"}, ended' = "stopped" => role' = "acceptor"
    PROVE  QueueShape' /\ Agree'
<1>1. queue \in Seq(Recs \cup {None}) /\ db \in SUBSET Recs
  BY DEF DrainInv, PutTypeOK
<1>2. /\ Len(queue) \in Nat /\ Len(queue') = Len(queue) + 1
      /\ DOMAIN queue = 1 .. Len(queue) /\ DOMAIN queue' = 1 .. Len(queue) + 1
      /\ queue'[Len(queue) + 1] = None /\ \A i \in 1 .. Len(queue) : queue'[i] = queue[i]
  BY <1>1
<1>3. \A i \in 1 .. Len(queue) : queue[i] # None
  BY <1>2 DEF DrainInv, QueueShape
<1>4. \A i \in DOMAIN queue' : queue'[i] = None <=> i = Len(queue')
  BY <1>2, <1>3
<1>5. queue' # <<>>
  BY <1>2
<1>6. Written(db, queue') = Written(db, queue)
  BY <1>1, WrittenEnd
<1>7. accepted = Written(db, queue)
  BY DEF DrainInv, Agree, Serving
<1>8. half = None
  BY DEF DrainInv, QueueShape
<1> QED
  BY <1>4, <1>5, <1>6, <1>7, <1>8 DEF QueueShape, Agree

(* Every step of the session, the worker, a kill or a start keeps it.      *)
LEMMA DrainStep == DrainInv /\ [Next]_vars => DrainInv'
<1> SUFFICES ASSUME DrainInv, [Next]_vars PROVE DrainInv'
  OBVIOUS
<1>1. PutTypeOK'
  BY PutTypeStep DEF DrainInv
<1> SUFFICES QueueShape' /\ Agree'
  BY <1>1 DEF DrainInv
<1>2. CASE PutMessage
  <2>1. Record(snd, Message(text + 1)) \in Recs
    <3>1. snd \in Positive /\ text + 1 \in Positive
      BY DEF DrainInv, PutTypeOK, Positive
    <3> QED
      BY <3>1, RecShape DEF Recs
  <2> QED
    BY <1>2, <2>1, WriteAgrees DEF PutMessage, MayPut
<1>3. CASE PutControl
  <2>1. PICK s, r \in Positive : PutControlAs(s, r) /\ Record(0, Control(s, r)) \in Recs
    BY <1>3, PutControlStep DEF DrainInv
  <2>2. CASE kind = "redis"
    <3>1. /\ db' = {x \in db : x[1] # 0} /\ half' = Control(s, r) /\ half = None
          /\ UNCHANGED <<queue, kind, role, up, ended, worker>> /\ up
          /\ accepted' = Stored({x \in accepted : x[1] # 0}, Record(0, Control(s, r)))
      BY <2>1, <2>2 DEF PutControlAs, MayPut, Accept, Deaf
    <3>2. accepted = db
      BY <2>2, <3>1 DEF DrainInv, Agree, QueueShape
    <3>3. half' # None
      BY <3>1, RecSort
    <3>4. accepted' = Stored(db, Record(0, half))'
      <4>1. {x \in accepted : x[1] # 0} = db'
        BY <3>1, <3>2
      <4>2. accepted' = {x \in db' : x[2] # Record(0, half')[2]} \cup {Record(0, half')}
        BY <2>2, <3>1, <4>1, StoredCases
      <4> QED
        BY <2>2, <3>1, <4>2 DEF Stored
    <3>5. Agree'
      BY <2>2, <3>1, <3>3, <3>4 DEF Agree
    <3>6. QueueShape'
      BY <2>2, <3>1 DEF QueueShape, Serving, DrainInv
    <3> QED
      BY <3>5, <3>6
  <2>3. CASE kind # "redis"
    <3>1. {x \in accepted : kind = "redis" => x[1] # 0} = accepted
      BY <2>3
    <3>2. /\ write(Record(0, Control(s, r))) /\ half = None /\ up
          /\ ended = "stopped" => ~worker
          /\ Accept(accepted, Record(0, Control(s, r)))
          /\ up' = up /\ ended' = ended /\ worker' = worker /\ kind' = kind /\ role' = role
      BY <2>1, <2>3, <3>1 DEF PutControlAs, MayPut
    <3> QED
      BY <2>1, <3>2, WriteAgrees
  <2> QED
    BY <2>2, <2>3
<1>4. CASE ZAdd
  BY <1>4 DEF ZAdd, session, DrainInv, QueueShape, Serving, Agree
<1>5. CASE WorkerWrites
  <2>1. /\ kind = "bdb" /\ kind' = kind /\ half = None /\ half' = half /\ up' = up
        /\ ended' = ended /\ role' = role
        /\ queue \in Seq(Recs \cup {None}) /\ queue # <<>> /\ db \in SUBSET Recs
        /\ queue' = Tail(queue) /\ worker /\ accepted' = accepted
        /\ ended # "killed" => accepted = Written(db, queue)
    BY <1>5 DEF WorkerWrites, session, DrainInv, QueueShape, Agree, PutTypeOK
  <2>2. /\ Len(queue) \in Nat \ {0} /\ DOMAIN queue = 1 .. Len(queue)
        /\ Head(queue) = queue[1]
        /\ Len(queue') = Len(queue) - 1 /\ DOMAIN queue' = 1 .. Len(queue) - 1
        /\ \A i \in 1 .. Len(queue) - 1 : queue'[i] = queue[i + 1]
    BY <2>1
  <2>3. CASE Head(queue) = None
    <3>1. ~Serving /\ Len(queue) = 1
      BY <2>1, <2>2, <2>3 DEF DrainInv, QueueShape
    <3>2. queue = <<None>> /\ queue' = <<>>
      <4>1. queue = <<queue[1]>>
        BY <2>1, <3>1
      <4>2. queue' \in Seq(Recs \cup {None}) /\ Len(queue') = 0
        BY <2>1, <2>2, <3>1
      <4> QED
        BY <2>2, <2>3, <4>1, <4>2
    <3>3. worker' = FALSE /\ db' = db
      BY <1>5, <2>3 DEF WorkerWrites
    <3>4. Agree'
      BY <2>1, <3>2, <3>3, WrittenEmpty DEF Agree
    <3>5. QueueShape'
      BY <2>1, <3>1, <3>2, <3>3 DEF DrainInv, QueueShape, Serving
    <3> QED
      BY <3>4, <3>5
  <2>4. CASE Head(queue) # None
    <3>1. worker' = TRUE /\ db' = Stored(db, Head(queue))
      BY <1>5, <2>4 DEF WorkerWrites
    <3>2. Written(db', queue') = Written(db, queue)
      BY <2>1, <2>4, <3>1, WrittenHead
    <3>3. Agree'
      BY <2>1, <3>1, <3>2 DEF Agree
    <3>4. CASE Serving
      <4>1. \A i \in DOMAIN queue' : queue'[i] # None
        BY SMTT(30), <2>2, <3>4 DEF DrainInv, QueueShape
      <4>2. QueueShape'
        BY <2>1, <3>1, <3>4, <4>1 DEF DrainInv, QueueShape, Serving
      <4> QED
        BY <3>3, <4>2
    <3>5. CASE ~Serving
      <4>1. \A i \in 1 .. Len(queue) : queue[i] = None <=> i = Len(queue)
        BY <2>1, <2>2, <3>5 DEF DrainInv, QueueShape
      <4>2. Len(queue) > 1
        <5>1. 1 \in 1 .. Len(queue) /\ queue[1] # None
          BY <2>2, <2>4
        <5>2. 1 # Len(queue)
          BY <4>1, <5>1
        <5> QED
          BY <2>2, <5>2
      <4>3. queue' # <<>>
        BY <2>2, <4>2
      <4>4. ASSUME NEW i \in DOMAIN queue' PROVE queue'[i] = None <=> i = Len(queue')
        <5>1. i + 1 \in 1 .. Len(queue) /\ queue'[i] = queue[i + 1]
          BY <2>2
        <5>2. queue[i + 1] = None <=> i + 1 = Len(queue)
          BY <4>1, <5>1
        <5>3. i + 1 = Len(queue) <=> i = Len(queue')
          BY <2>2
        <5> QED
          BY <5>1, <5>2, <5>3
      <4>5. QueueShape'
        BY <2>1, <3>1, <3>5, <4>3, <4>4 DEF DrainInv, QueueShape, Serving
      <4> QED
        BY <3>3, <4>5
    <3> QED
      BY <3>4, <3>5
  <2> QED
    BY <2>3, <2>4
<1>6. CASE QueryStepTaken \/ Count \/ Recover
  <2>1. UNCHANGED <<kind, role, up, ended, db, queue, worker, half, accepted>>
    BY <1>6, QueryFrame DEF Count, Recover
  <2> QED
    BY <2>1 DEF DrainInv, QueueShape, Serving, Agree, Stored
<1>7. CASE Open
  <2>1. db' = accepted' /\ kind' = kind /\ queue' = queue /\ half' = half /\ up'
        /\ ended' = "no" /\ worker' = (kind = "bdb") /\ ~up /\ ~worker
    BY <1>7 DEF Open
  <2>2. queue = <<>> /\ half = None
    BY <2>1 DEF DrainInv, QueueShape
  <2>3. Written(db', <<>>) = db'
    BY WrittenEmpty
  <2>4. Agree'
    <3>1. CASE kind = "bdb"
      <4>1. worker' = TRUE /\ queue' = <<>> /\ Written(db', queue') = db'
        BY <2>1, <2>2, <2>3, <3>1
      <4> QED
        BY <2>1, <3>1, <4>1 DEF Agree
    <3>2. CASE kind # "bdb"
      BY <2>1, <2>2, <3>2 DEF Agree
    <3> QED
      BY <3>1, <3>2
  <2>5. QueueShape'
    <3>1. (kind = "bdb" => worker' = TRUE) /\ (kind # "bdb" => worker' = FALSE)
      BY <2>1
    <3>2. \A i \in DOMAIN <<>> : <<>>[i] # None
      OBVIOUS
    <3> QED
      BY <2>1, <2>2, <3>1, <3>2 DEF QueueShape, Serving
  <2> QED
    BY <2>4, <2>5
<1>8. CASE SessionStop
  <2>1. /\ up /\ Serving /\ half = None /\ ended' = "stopped" /\ ~Serving' /\ up' = up
        /\ UNCHANGED <<kind, db, worker, half, accepted>> /\ role' = "acceptor"
        /\ queue' = IF kind = "bdb" THEN Append(queue, None) ELSE queue
    BY <1>8 DEF SessionStop, session, Serving
  <2>2. CASE kind = "bdb"
    <3>1. worker
      BY <2>1, <2>2 DEF DrainInv, QueueShape
    <3> QED
      BY <2>1, <2>2, <3>1, EndQueued
  <2>3. CASE kind # "bdb"
    BY <2>1, <2>3 DEF DrainInv, QueueShape, Serving, Agree
  <2> QED
    BY <2>2, <2>3
<1>9. CASE StopBegins
  <2>1. /\ up /\ half = None /\ ~up' /\ UNCHANGED <<kind, role, ended, db, worker, half, accepted>>
        /\ queue' = IF worker THEN Append(queue, None) ELSE <<>>
        /\ ended = "stopped" => ~worker
        /\ ended \in {"no", "stopped"}
    BY <1>9 DEF StopBegins, session, DrainInv, PutTypeOK, QueueShape
  <2>2. CASE worker
    <3>1. kind = "bdb" /\ Serving /\ ~Serving' /\ ended' = "no"
      BY <2>1, <2>2 DEF DrainInv, QueueShape, Serving
    <3> QED
      BY <2>1, <2>2, <3>1, EndQueued
  <2>3. CASE ~worker
    BY <2>1, <2>3 DEF DrainInv, QueueShape, Serving, Agree
  <2> QED
    BY <2>2, <2>3
<1>10. CASE Crash
  BY <1>10 DEF Crash, QueueShape, Serving, Agree
<1>11. CASE UNCHANGED vars
  BY <1>11 DEF vars, session, DrainInv, QueueShape, Serving, Agree, Stored
<1> QED
  BY <1>2, <1>3, <1>4, <1>5, <1>6, <1>7, <1>8, <1>9, <1>10, <1>11
     DEF Next, PutControl, QueryStepTaken

(* Hence it always holds, whatever the flags: database, queue and the put  *)
(* in the worker's hands are together what was accepted.                   *)
LEMMA DrainAlways == Spec => []DrainInv
<1>1. Init => DrainInv
  BY DrainInit
<1>2. DrainInv /\ [Next]_vars => DrainInv'
  BY DrainStep
<1> QED
  BY <1>1, <1>2, PTL DEF Spec

(* Whichever persister the session uses, once its destructor is through    *)
(* the store is exactly what was put before the session stopped: the       *)
(* worker wrote all that BDBPersister::stop found in its queue, whether an *)
(* acceptor's Session::stop called it or the destructor.                   *)
THEOREM StopLosesNothing == Spec => []StopDrains
<1>1. DrainInv => StopDrains
  BY DEF DrainInv, QueueShape, Agree, StopDrains
<1> QED
  BY <1>1, DrainAlways, PTL

-----------------------------------------------------------------------------
(* The control record covers the messages *)

(* The records stored or still queued.                                     *)
Queued == {queue[i] : i \in DOMAIN queue} \ {None}
Held == db \cup Queued

IsControl(x) == x[1] = 0

(* A store keeps one control record, and redis none while it is replaced.  *)
OneControl ==
    /\ \A x, y \in db : IsControl(x) /\ IsControl(y) => x = y
    /\ half # None => \A x \in db : ~IsControl(x)

(* No record is ahead of the session, and no message is at the number the  *)
(* session sends next, but for the one whose control record it owes.       *)
Bounded ==
    up => /\ \A x \in Held : IsControl(x) => x[2][1] <= Reach
          /\ \A x \in Held : ~IsControl(x) => x[1] <= Reach /\ (owes \/ x[1] < Reach)
          /\ half # None => half = Control(Reach, rcv)

(* Control records are queued in the order of their numbers.               *)
Rising ==
    /\ \A x \in db, i \in DOMAIN queue :
          IsControl(x) /\ queue[i] # None /\ IsControl(queue[i]) => x[2][1] <= queue[i][2][1]
    /\ \A i, j \in DOMAIN queue :
          i < j /\ queue[i] # None /\ IsControl(queue[i]) /\ queue[j] # None /\ IsControl(queue[j])
             => queue[i][2][1] <= queue[j][2][1]

(* Each message was put behind a control record that covers it.            *)
Covered ==
    worker =>
        \A i \in DOMAIN queue :
            queue[i] # None /\ ~IsControl(queue[i]) =>
                \/ \E x \in db : IsControl(x) /\ queue[i][1] <= x[2][1]
                \/ \E j \in DOMAIN queue : /\ j < i /\ queue[j] # None /\ IsControl(queue[j])
                                           /\ queue[i][1] <= queue[j][2][1]

(* A send number in the control record of a session that has reached n: in *)
(* the race with a sender the record may be one behind.                    *)
Told(s, n) == s = n \/ (Racing /\ s + 1 = n)

(* What was accepted last is the numbers the session has.                  *)
Current ==
    up /\ ~owes /\ ~Deaf =>
        \E s \in Positive : Told(s, Reach) /\ Record(0, Control(s, rcv)) \in accepted

NumbersInv == kind # "memory" => OneControl /\ Current

CoverInv == kind # "memory" => Bounded /\ Rising /\ Covered /\ ControlCovers

(* What recover_seqnums finds in a store with one control record.          *)
LEMMA RecoveredNumbers ==
    ASSUME kind \in {"bdb", "memcached", "redis"}, NEW d \in SUBSET Recs,
           \A x, y \in d : IsControl(x) /\ IsControl(y) => x = y,
           Recovered(d)
    PROVE  \/ /\ \A x \in d : ~IsControl(x)
              /\ snd' = 1 /\ rcv' = 1
           \/ \E x \in d : IsControl(x) /\ snd' = x[2][1] /\ rcv' = x[2][2]
<1>1. CASE ControlRecords(d) = {}
  <2>1. ASSUME NEW x \in d, IsControl(x) PROVE FALSE
    <3> DEFINE z == {y \in d : y[1] = 0}
               T == {y[2] : y \in z}
    <3>1. z = {x}
      BY <2>1 DEF IsControl
    <3>2. Cardinality(z) = 1
      BY <3>1, FS_Singleton
    <3>3. x[2] \in T
      BY <3>1
    <3> HIDE DEF T
    <3>4. ControlRecords(d) = T
      BY <3>2 DEF ControlRecords, T
    <3> QED
      BY <1>1, <3>3, <3>4
  <2> QED
    BY <1>1, <2>1 DEF Recovered
<1>2. CASE ControlRecords(d) # {}
  <2>1. PICK c \in ControlRecords(d) : snd' = c[1] /\ rcv' = c[2]
    BY <1>2 DEF Recovered
  <2>2. \E x \in d : x[1] = 0 /\ c = x[2]
    BY <2>1, ControlRecordsOf
  <2> QED
    BY <2>1, <2>2 DEF IsControl
<1> QED
  BY <1>1, <1>2

(* The numbers of a record, by its sort.                                   *)
LEMMA HeldRecs ==
    ASSUME PutTypeOK
    PROVE  /\ Queued \subseteq Recs /\ Held \subseteq Recs
           /\ \A x \in Recs : IsControl(x) => x[2][1] \in Nat
           /\ \A x \in Recs : x[1] \in Nat
           /\ \A i \in DOMAIN queue : queue[i] # None => queue[i] \in Recs
<1>1. \A i \in DOMAIN queue : queue[i] # None => queue[i] \in Recs
  BY DEF PutTypeOK
<1>2. Queued \subseteq Recs
  BY <1>1 DEF Queued
<1>3. Held \subseteq Recs
  BY <1>2 DEF Held, PutTypeOK
<1>4. \A x \in Recs : x[1] \in Nat
  BY RecSort
<1>5. \A x \in Recs : IsControl(x) => x[2][1] \in Nat
  BY RecSort, RecShape DEF IsControl, Positive
<1> QED
  BY <1>1, <1>2, <1>3, <1>4, <1>5

(* A put adds its record, and the worker only moves one.                   *)
LEMMA HeldAfter ==
    ASSUME DrainInv
    PROVE  /\ \A r \in Recs : half = None /\ write(r) => Held' \subseteq Held \cup {r}
           /\ WorkerWrites => Held' \subseteq Held
<1>1. ASSUME NEW r \in Recs, write(r), half = None PROVE Held' \subseteq Held \cup {r}
  <2>1. CASE kind = "bdb"
    <3>1. queue' = Append(queue, r) /\ db' = db /\ queue \in Seq(Recs \cup {None})
      BY <1>1, <2>1 DEF write, DrainInv, PutTypeOK
    <3>2. \A i \in DOMAIN queue' : queue'[i] = r \/ (i \in DOMAIN queue /\ queue'[i] = queue[i])
      BY <3>1
    <3> QED
      BY <3>1, <3>2 DEF Held, Queued
  <2>2. CASE kind # "bdb"
    <3>1. db' = Stored(db, r) /\ queue' = queue
      BY <1>1, <2>2 DEF write
    <3>2. db' \subseteq db \cup {r}
      BY <3>1, <2>2, StoredCases DEF DrainInv, PutTypeOK
    <3> QED
      BY <3>1, <3>2 DEF Held, Queued
  <2> QED
    BY <2>1, <2>2
<1>2. ASSUME WorkerWrites PROVE Held' \subseteq Held
  <2>1. /\ queue \in Seq(Recs \cup {None}) /\ queue # <<>> /\ queue' = Tail(queue)
        /\ db' = IF Head(queue) = None THEN db ELSE Stored(db, Head(queue))
        /\ kind = "bdb"
    BY <1>2 DEF WorkerWrites, DrainInv, PutTypeOK, QueueShape
  <2>2. /\ Head(queue) = queue[1] /\ 1 \in DOMAIN queue
        /\ \A i \in DOMAIN queue' : i + 1 \in DOMAIN queue /\ queue'[i] = queue[i + 1]
    BY <2>1
  <2>3. db' \subseteq db \cup (IF Head(queue) = None THEN {} ELSE {queue[1]})
    BY <2>1, <2>2, StoredCases
  <2>4. Queued' \subseteq Queued
    BY <2>2 DEF Queued
  <2> QED
    BY <2>2, <2>3, <2>4 DEF Held, Queued
<1> QED
  BY <1>1, <1>2

(* The numbers the session has are in the store, or in its queue.          *)
LEMMA CurrentHeld ==
    ASSUME DrainInv, Current, up, ~owes, ~Deaf, half = None
    PROVE  \E s \in Positive :
              /\ Told(s, Reach)
              /\ \/ Record(0, Control(s, rcv)) \in db
                 \/ kind = "bdb" /\ \E j \in DOMAIN queue : queue[j] = Record(0, Control(s, rcv))
<1>1. PICK s \in Positive : Told(s, Reach) /\ Record(0, Control(s, rcv)) \in accepted
  BY DEF Current
<1>2. ended # "killed" /\ (kind = "bdb" => worker)
  BY DEF DrainInv, PutTypeOK, QueueShape, Serving, Deaf
<1>3. CASE kind = "bdb"
  BY <1>1, <1>2, <1>3, InWritten DEF DrainInv, Agree
<1>4. CASE kind # "bdb"
  BY <1>1, <1>2, <1>4 DEF DrainInv, Agree
<1> QED
  BY <1>3, <1>4

(* No step leaves two control records, or a record of other numbers than   *)
(* the session's, however its threads interleave and whenever it dies.     *)
LEMMA NumbersStep == DrainInv /\ NumbersInv /\ [Next]_vars => NumbersInv'
<1> SUFFICES ASSUME DrainInv, NumbersInv, [Next]_vars, kind # "memory"
             PROVE  kind' = kind /\ OneControl' /\ Current'
  <2>1. ASSUME kind = "memory", [Next]_vars PROVE kind' = kind
    BY <2>1, KindKept
  <2> QED
    BY <2>1 DEF NumbersInv
<1>1. kind' = kind
  BY KindKept
<1>2. OneControl /\ Current
  BY DEF NumbersInv
<1>3. CASE PutMessage
  <2> DEFINE r == Record(snd, Message(text + 1))
  <2>1. half = None /\ half' = half /\ owes' /\ write(r)
    BY <1>3 DEF PutMessage, MayPut, write, owes
  <2>2. ~IsControl(r)
    BY DEF IsControl, Record, DrainInv, PutTypeOK, Positive
  <2> HIDE DEF r
  <2>3. db' \subseteq db \cup {r}
    <3>1. db' = db \/ db' = Stored(db, r)
      BY <2>1 DEF write
    <3> QED
      BY <3>1, StoredCases DEF DrainInv, PutTypeOK
  <2>4. OneControl'
    BY <1>2, <2>1, <2>2, <2>3 DEF OneControl
  <2> QED
    BY <1>1, <2>1, <2>4 DEF Current
<1>4. CASE PutControl
  <2>1. PICK s, t \in Positive : PutControlAs(s, t) /\ Told(s, Reach')
    BY <1>4, PutControlStep DEF DrainInv, Told
  <2> DEFINE c == Record(0, Control(s, t))
  <2>2. half = None /\ rcv' = t /\ kind' = kind /\ ended' = ended
    BY <2>1 DEF PutControlAs, MayPut
  <2>3. IsControl(c)
    BY DEF IsControl, Record
  <2>4. Current'
    <3> SUFFICES ASSUME ~Deaf PROVE c \in accepted'
      BY <2>1, <2>2 DEF Current, Deaf
    <3>1. accepted' = Stored({x \in accepted : kind = "redis" => x[1] # 0}, c)
      BY <2>1 DEF PutControlAs, Accept
    <3>2. kind \in {"bdb", "memcached", "redis"}
      BY DEF DrainInv, PutTypeOK
    <3> HIDE DEF c
    <3> QED
      BY <3>1, <3>2, StoredCases
  <2>5. OneControl'
    <3>1. CASE kind = "redis"
      BY <2>1, <3>1 DEF PutControlAs, OneControl, IsControl
    <3>2. CASE kind # "redis"
      <4>1. half' = None /\ (db' = db \/ db' = Stored(db, c))
        BY <2>1, <2>2, <3>2 DEF PutControlAs, write
      <4>2. kind \in {"bdb", "memcached"}
        BY <3>2 DEF DrainInv, PutTypeOK
      <4>3. c[1] = 0
        BY DEF Record
      <4> HIDE DEF c
      <4>4. db' = db \/ db' = {x \in db : x[1] # 0} \cup {c}
        BY <4>1, <4>2, <4>3, StoredCases
      <4> QED
        BY <1>2, <4>1, <4>4 DEF OneControl, IsControl
    <3> QED
      BY <3>1, <3>2
  <2> QED
    BY <1>1, <2>4, <2>5
<1>5. CASE ZAdd
  <2> DEFINE c == Record(0, half)
  <2>1. kind = "redis" /\ half # None /\ half' = None /\ db' = Stored(db, c)
    BY <1>5 DEF ZAdd, DrainInv, QueueShape
  <2> HIDE DEF c
  <2>2. db' \subseteq db \cup {c}
    BY <2>1, StoredCases
  <2>3. OneControl'
    BY <1>2, <2>1, <2>2 DEF OneControl
  <2>4. Current'
    BY <1>2, <1>5 DEF ZAdd, session, Current, Reach, owes, Deaf
  <2> QED
    BY <1>1, <2>3, <2>4
<1>6. CASE WorkerWrites
  <2> DEFINE r == Head(queue)
  <2>1. kind = "bdb" /\ half = None /\ half' = None /\ (db' = db \/ db' = Stored(db, r))
    BY <1>6 DEF WorkerWrites, DrainInv, QueueShape
  <2> HIDE DEF r
  <2>2. db' = db \/ db' = {x \in db : x[1] # r[1]} \cup {r}
    BY <2>1, StoredCases
  <2>3. OneControl'
    BY <1>2, <2>1, <2>2 DEF OneControl, IsControl
  <2>4. Current'
    BY <1>2, <1>6 DEF WorkerWrites, session, Current, Reach, owes, Deaf
  <2> QED
    BY <1>1, <2>3, <2>4
<1>7. CASE QueryStepTaken
  BY <1>2, <1>7, QueryFrame DEF OneControl, Current, Reach, owes, Deaf
<1>8. CASE Count
  <2>1. Reach' = Reach /\ UNCHANGED <<kind, up, ended, db, half, rcv, due, accepted>>
    BY <1>8 DEF Count, Reach
  <2> QED
    BY <1>2, <2>1 DEF OneControl, Current, owes, Deaf
<1>9. CASE Open
  <2>1. db' \subseteq db /\ half' = half /\ owes' /\ ~up
    BY <1>9 DEF Open, owes
  <2>2. half = None
    BY <2>1 DEF DrainInv, QueueShape
  <2> QED
    BY <1>1, <1>2, <2>1, <2>2 DEF OneControl, Current
<1>10. CASE Recover
  <2>1. db' = db /\ half' = half /\ owes'
    BY <1>10 DEF Recover, owes
  <2> QED
    BY <1>1, <1>2, <2>1 DEF OneControl, Current
<1>11. CASE SessionStop
  <2>1. UNCHANGED <<kind, up, db, half, accepted>> /\ UNCHANGED <<role, snd, rcv, due, counts>>
        /\ ended = "no"
    BY <1>11 DEF SessionStop, session
  <2>2. ~Deaf
    BY <2>1 DEF Deaf
  <2> QED
    BY <1>2, <2>1, <2>2 DEF OneControl, Current, Reach, owes
<1>12. CASE StopBegins \/ Crash
  <2>1. db' = db /\ ~up' /\ (half' = half \/ half' = None)
    BY <1>12 DEF StopBegins, Crash
  <2> QED
    BY <1>1, <1>2, <2>1 DEF OneControl, Current
<1>13. CASE UNCHANGED vars
  BY <1>2, <1>13 DEF vars, session, OneControl, Current, Reach, owes, Deaf
<1> QED
  BY <1>3, <1>4, <1>5, <1>6, <1>7, <1>8, <1>9, <1>10, <1>11, <1>12, <1>13
     DEF Next, PutControl, QueryStepTaken

(* An empty store has no control record.                                   *)
LEMMA NumbersInit == Init => NumbersInv
  BY DEF Init, NumbersInv, OneControl, Current

CoverParts == Bounded /\ Rising /\ Covered /\ ControlCovers

(* A put of a message finds the session's control record before it.        *)
LEMMA PutMessageCovers ==
    ASSUME DrainInv, OneControl, Current, CoverParts, PutMessage, kind # "memory", ~Racing
    PROVE  CoverParts'
<1> DEFINE r == Record(snd, Message(text + 1))
           c == Record(0, Control(snd, rcv))
<1>1. /\ up /\ half = None /\ ~owes /\ owes' /\ up' = up
      /\ Reach = snd /\ Reach' = snd
      /\ half' = half /\ write(r) /\ kind' = kind /\ worker' = worker
      /\ ended = "stopped" => ~worker
  BY DEF PutMessage, MayPut, write, owes, Reach
<1>2. snd \in Positive /\ text + 1 \in Positive /\ rcv \in Positive
  BY DEF DrainInv, PutTypeOK, Positive
<1>3. /\ r \in Recs /\ r \in MessageRecs /\ r[1] = snd /\ ~IsControl(r) /\ r # None
      /\ r[2] = Message(text + 1)
  <2>1. r \in MessageRecs /\ r \in Recs
    BY <1>2, RecShape DEF Recs
  <2>2. r[1] = snd /\ r[2] = Message(text + 1)
    BY DEF Record
  <2> QED
    BY <1>2, <2>1, <2>2, RecSort DEF IsControl, Positive
<1>4. /\ c \in Recs /\ IsControl(c) /\ c[2][1] = snd /\ c[2] = Control(snd, rcv)
      /\ c[2] # r[2]
  <2>1. c \in Recs
    BY <1>2, RecShape DEF Recs
  <2>2. c[1] = 0 /\ c[2] = Control(snd, rcv) /\ c[2][1] = snd
    BY DEF Record, Control
  <2> QED
    BY <1>2, <1>3, <2>1, <2>2, RecSort DEF IsControl
<1> HIDE DEF r, c
<1>5. Bounded'
  <2>1. Held' \subseteq Held \cup {r}
    BY <1>1, <1>3, HeldAfter
  <2>2. snd <= snd
    BY <1>2 DEF Positive
  <2> QED
    BY <1>1, <1>3, <2>1, <2>2 DEF CoverParts, Bounded
<1>6. ~Deaf => c \in db \/ (kind = "bdb" /\ \E j \in DOMAIN queue : queue[j] = c)
  BY <1>1, CurrentHeld DEF Told, c
<1>7. CASE kind = "bdb"
  <2>1. queue' = Append(queue, r) /\ db' = db /\ queue \in Seq(Recs \cup {None})
    BY <1>1, <1>7 DEF write, DrainInv, PutTypeOK
  <2> DEFINE n == Len(queue)
  <2>2. /\ n \in Nat /\ DOMAIN queue = 1 .. n /\ DOMAIN queue' = 1 .. n + 1
        /\ queue'[n + 1] = r /\ \A i \in 1 .. n : queue'[i] = queue[i]
    BY <2>1
  <2> HIDE DEF n
  <2>3. ControlCovers'
    BY <1>1, <2>1 DEF CoverParts, ControlCovers
  <2>4. Rising'
    BY <1>3, <2>1, <2>2 DEF CoverParts, Rising
  <2>5. Covered'
    <3> SUFFICES ASSUME worker PROVE Covered'
      BY <1>1 DEF Covered
    <3>1. c \in db \/ \E j \in DOMAIN queue : queue[j] = c
      BY <1>1, <1>6 DEF Deaf
    <3>2. snd <= snd /\ c # None
      BY <1>2, <1>4, RecSort DEF Positive
    <3>3. ASSUME NEW i \in 1 .. n + 1, i = n + 1
          PROVE  \/ \E x \in db : IsControl(x) /\ r[1] <= x[2][1]
                 \/ \E j \in 1 .. n : /\ queue[j] # None /\ IsControl(queue[j])
                                      /\ r[1] <= queue[j][2][1]
      BY <1>3, <1>4, <2>2, <3>1, <3>2
    <3>4. \A i \in 1 .. n : i \in DOMAIN queue' /\ i < n + 1
      BY <2>2
    <3> SUFFICES ASSUME NEW i \in DOMAIN queue', queue'[i] # None, ~IsControl(queue'[i])
                 PROVE  \/ \E x \in db : IsControl(x) /\ queue'[i][1] <= x[2][1]
                        \/ \E j \in DOMAIN queue' : /\ j < i /\ queue'[j] # None
                                                    /\ IsControl(queue'[j])
                                                    /\ queue'[i][1] <= queue'[j][2][1]
      BY <2>1 DEF Covered
    <3>5. CASE i = n + 1
      BY <2>2, <3>3, <3>4, <3>5
    <3>6. CASE i # n + 1
      <4>1. i \in DOMAIN queue /\ queue'[i] = queue[i]
        BY <2>2, <3>6
      <4> QED
        BY <2>2, <3>4, <4>1 DEF CoverParts, Covered
    <3> QED
      BY <3>5, <3>6
  <2> QED
    BY <1>5, <2>3, <2>4, <2>5 DEF CoverParts
<1>8. CASE kind # "bdb"
  <2>1. queue' = queue /\ queue = <<>> /\ db' = Stored(db, r)
    BY <1>1, <1>8 DEF write, DrainInv, QueueShape
  <2>2. Rising' /\ Covered'
    BY <2>1 DEF Rising, Covered
  <2>3. c \in db
    BY <1>6, <1>8 DEF Deaf
  <2>4. c[1] # r[1]
    BY <1>3, <1>4, <1>2 DEF IsControl, Positive
  <2>5. db' \subseteq db \cup {r} /\ c \in db'
    BY <1>4, <1>8, <2>1, <2>3, <2>4, StoredCases DEF DrainInv, PutTypeOK
  <2>7. ControlCovers'
    <3> SUFFICES ASSUME NEW x \in db', ~IsControl(x) PROVE x[1] <= c[2][1]
      BY <1>4, <2>5 DEF ControlCovers, KeysOf, IsControl
    <3>1. CASE x = r
      BY <1>2, <1>3, <1>4, <3>1 DEF Positive
    <3>2. CASE x # r
      <4>1. x \in db /\ x[1] \in KeysOf(db) \ {0}
        BY <2>5, <3>2 DEF KeysOf, IsControl
      <4>2. PICK y \in db : y[1] = 0 /\ x[1] <= y[2][1]
        BY <1>1, <4>1 DEF CoverParts, ControlCovers
      <4> QED
        BY <1>4, <2>3, <4>2 DEF OneControl, IsControl
    <3> QED
      BY <3>1, <3>2
  <2> QED
    BY <1>5, <2>2, <2>7 DEF CoverParts
<1> QED
  BY <1>7, <1>8

(* A put of the control record follows all that it covers.                 *)
LEMMA PutControlCovers ==
    ASSUME DrainInv, OneControl, CoverParts, PutControl, kind # "memory", ~Racing
    PROVE  CoverParts'
<1>1. PICK s, t \in Positive : /\ PutControlAs(s, t) /\ s = Reach'
                               /\ Reach <= Reach' /\ (owes => owes' \/ Reach < Reach')
                               /\ Record(0, Control(s, t)) \in Recs
  BY PutControlStep DEF DrainInv
<1> DEFINE c == Record(0, Control(s, t))
<1>2. /\ up /\ half = None /\ up' = up /\ kind' = kind /\ worker' = worker /\ rcv' = t
      /\ c \in Recs
  BY <1>1 DEF PutControlAs, MayPut
<1>3. c[1] = 0 /\ c[2] = Control(s, t) /\ c[2][1] = Reach' /\ IsControl(c) /\ c # None
  <2>1. c[1] = 0 /\ c[2] = Control(s, t) /\ c[2][1] = Reach'
    BY <1>1 DEF Record, Control
  <2> QED
    BY <1>2, <2>1, RecSort DEF IsControl
<1>4. Reach \in Nat /\ Reach' \in Nat /\ Reach <= Reach' /\ Reach' <= Reach'
  <2>1. Reach \in Nat
    BY DEF DrainInv, PutTypeOK, Positive, Reach
  <2> QED
    BY <1>1, <2>1 DEF Positive
<1> HIDE DEF c
<1>5. /\ \A x \in Held : IsControl(x) => x[2][1] <= Reach' /\ x[2][1] \in Nat
      /\ \A x \in Held :
            ~IsControl(x) => x[1] \in Nat /\ x[1] <= Reach' /\ (owes' \/ x[1] < Reach')
  <2>1. ASSUME NEW x \in Held PROVE IsControl(x) => x[2][1] <= Reach' /\ x[2][1] \in Nat
    <3>1. IsControl(x) => x[2][1] <= Reach /\ x[2][1] \in Nat
      BY <1>2, HeldRecs DEF CoverParts, Bounded, DrainInv
    <3> QED
      BY <1>4, <3>1
  <2>2. ASSUME NEW x \in Held
        PROVE  ~IsControl(x) => x[1] \in Nat /\ x[1] <= Reach' /\ (owes' \/ x[1] < Reach')
    <3>1. ~IsControl(x) => x[1] <= Reach /\ (owes \/ x[1] < Reach) /\ x[1] \in Nat
      BY <1>2, HeldRecs DEF CoverParts, Bounded, DrainInv
    <3>2. owes => owes' \/ Reach < Reach'
      BY <1>1
    <3> QED
      BY <1>4, <3>1, <3>2
  <2> QED
    BY <2>1, <2>2
<1>7. CASE kind = "redis"
  <2>1. /\ db' = {x \in db : x[1] # 0} /\ half' = Control(s, t) /\ queue' = queue
        /\ queue = <<>>
    BY <1>1, <1>7 DEF PutControlAs, DrainInv, QueueShape
  <2>2. half' # None
    BY <1>1, <2>1, RecSort
  <2>3. Rising' /\ Covered' /\ ControlCovers'
    BY <2>1, <2>2 DEF Rising, Covered, ControlCovers, IsControl
  <2>4. Held' \subseteq Held
    BY <2>1 DEF Held, Queued
  <2>5. Bounded'
    <3>1. ASSUME NEW x \in Held' PROVE /\ IsControl(x) => x[2][1] <= Reach'
                                       /\ ~IsControl(x) => x[1] <= Reach' /\ (owes' \/ x[1] < Reach')
      <4>1. x \in Held
        BY <2>4
      <4>2. IsControl(x) => x[2][1] <= Reach'
        BY <1>5, <4>1
      <4>3. ~IsControl(x) => x[1] <= Reach' /\ (owes' \/ x[1] < Reach')
        BY <1>4, <1>5, <4>1
      <4> QED
        BY <4>2, <4>3
    <3>2. \A x \in Held' : IsControl(x) => x[2][1] <= Reach'
      BY <3>1
    <3>3. \A x \in Held' : ~IsControl(x) => x[1] <= Reach' /\ (owes' \/ x[1] < Reach')
      BY <3>1
    <3>4. half' = Control(Reach', rcv')
      BY <1>1, <1>2, <2>1
    <3> QED
      BY <3>2, <3>3, <3>4 DEF Bounded, IsControl, Control
  <2> QED
    BY <2>3, <2>5 DEF CoverParts
<1>8. CASE kind # "redis"
  <2>1. write(c) /\ half' = half
    BY <1>1, <1>8 DEF PutControlAs, c, write
  <2>2. Bounded'
    <3>1. Held' \subseteq Held \cup {c}
      BY <1>2, <2>1, HeldAfter
    <3>2. ASSUME NEW x \in Held' PROVE /\ IsControl(x) => x[2][1] <= Reach'
                                       /\ ~IsControl(x) => x[1] <= Reach' /\ (owes' \/ x[1] < Reach')
      <4>1. CASE x = c
        BY <1>3, <1>4, <4>1
      <4>2. CASE x \in Held
        <5>1. IsControl(x) => x[2][1] <= Reach'
          BY <1>5, <4>2
        <5>2. ~IsControl(x) => x[1] <= Reach' /\ (owes' \/ x[1] < Reach')
          BY <1>4, <1>5, <4>2
        <5> QED
          BY <5>1, <5>2
      <4> QED
        BY <3>1, <4>1, <4>2
    <3>3. \A x \in Held' : IsControl(x) => x[2][1] <= Reach'
      BY <3>2
    <3>4. \A x \in Held' : ~IsControl(x) => x[1] <= Reach' /\ (owes' \/ x[1] < Reach')
      BY <3>2
    <3>5. half' = None
      BY <1>2, <2>1
    <3> QED
      BY <3>3, <3>4, <3>5 DEF Bounded, IsControl
  <2>3. CASE kind = "bdb"
    <3>1. queue' = Append(queue, c) /\ db' = db /\ queue \in Seq(Recs \cup {None})
      BY <2>1, <2>3 DEF write, DrainInv, PutTypeOK
    <3> DEFINE n == Len(queue)
    <3>2. /\ n \in Nat /\ DOMAIN queue = 1 .. n /\ DOMAIN queue' = 1 .. n + 1
          /\ queue'[n + 1] = c /\ \A i \in 1 .. n : queue'[i] = queue[i]
      BY <3>1
    <3> HIDE DEF n
    <3>3. ControlCovers'
      BY <1>2, <2>1, <3>1 DEF CoverParts, ControlCovers
    <3>4. \A i \in DOMAIN queue : queue[i] # None => queue[i] \in Held
      BY DEF Held, Queued
    <3>5. db \subseteq Held
      BY DEF Held
    <3>6. Rising'
      <4>1. ASSUME NEW x \in db', NEW i \in DOMAIN queue',
                   IsControl(x), queue'[i] # None, IsControl(queue'[i])
            PROVE  x[2][1] <= queue'[i][2][1]
        <5>1. CASE i = n + 1
          BY <1>3, <1>5, <3>1, <3>2, <3>5, <4>1, <5>1
        <5>2. CASE i # n + 1
          BY <3>1, <3>2, <4>1, <5>2 DEF CoverParts, Rising
        <5> QED
          BY <5>1, <5>2
      <4>2. ASSUME NEW i \in DOMAIN queue', NEW j \in DOMAIN queue', i < j,
                   queue'[i] # None, IsControl(queue'[i]),
                   queue'[j] # None, IsControl(queue'[j])
            PROVE  queue'[i][2][1] <= queue'[j][2][1]
        <5>1. i \in DOMAIN queue /\ queue'[i] = queue[i]
          BY <3>2, <4>2
        <5>2. CASE j = n + 1
          BY <1>3, <1>5, <3>2, <3>4, <4>2, <5>1, <5>2
        <5>3. CASE j # n + 1
          <6>1. j \in DOMAIN queue /\ queue'[j] = queue[j]
            BY <3>2, <4>2, <5>3
          <6> QED
            BY <4>2, <5>1, <6>1 DEF CoverParts, Rising
        <5> QED
          BY <5>2, <5>3
      <4> QED
        BY <4>1, <4>2 DEF Rising
    <3>7. Covered'
      <4> SUFFICES ASSUME worker PROVE Covered'
        BY <1>2 DEF Covered
      <4> SUFFICES ASSUME NEW i \in DOMAIN queue', queue'[i] # None, ~IsControl(queue'[i])
                   PROVE  \/ \E x \in db : IsControl(x) /\ queue'[i][1] <= x[2][1]
                          \/ \E j \in DOMAIN queue' : /\ j < i /\ queue'[j] # None
                                                      /\ IsControl(queue'[j])
                                                      /\ queue'[i][1] <= queue'[j][2][1]
        BY <1>2, <3>1 DEF Covered
      <4>1. i \in DOMAIN queue /\ queue'[i] = queue[i]
        BY <1>3, <3>2
      <4>2. \A j \in DOMAIN queue : j \in DOMAIN queue' /\ queue'[j] = queue[j]
        BY <3>2
      <4> QED
        BY <4>1, <4>2 DEF CoverParts, Covered
    <3> QED
      BY <2>2, <3>3, <3>6, <3>7 DEF CoverParts
  <2>4. CASE kind = "memcached"
    <3>1. queue' = queue /\ queue = <<>> /\ db' = {x \in db : x[1] # 0} \cup {c}
      BY <1>3, <2>1, <2>4, StoredCases DEF write, DrainInv, QueueShape
    <3>2. Rising' /\ Covered'
      BY <3>1 DEF Rising, Covered
    <3>4. ControlCovers'
      <4> SUFFICES ASSUME NEW x \in db', ~IsControl(x) PROVE x[1] <= c[2][1]
        BY <1>3, <3>1 DEF ControlCovers, KeysOf, IsControl
      <4>1. x \in Held
        BY <1>3, <3>1 DEF Held
      <4>2. x[1] <= Reach' /\ x[1] \in Nat
        BY <1>5, <4>1
      <4> QED
        BY <1>3, <1>4, <4>2
    <3> QED
      BY <2>2, <3>2, <3>4 DEF CoverParts
  <2> QED
    BY <1>8, <2>3, <2>4 DEF DrainInv, PutTypeOK
<1> QED
  BY <1>7, <1>8

(* The second redis command brings the control record of the session.      *)
LEMMA ZAddCovers ==
    ASSUME DrainInv, OneControl, CoverParts, ZAdd
    PROVE  CoverParts'
<1> DEFINE c == Record(0, Control(Reach, rcv))
<1>1. /\ kind = "redis" /\ up /\ half # None /\ half = Control(Reach, rcv) /\ queue = <<>>
      /\ \A x \in db : ~IsControl(x)
  BY DEF ZAdd, DrainInv, QueueShape, CoverParts, Bounded, OneControl
<1>2. /\ db' = Stored(db, c) /\ half' = None
      /\ UNCHANGED <<kind, up, worker, queue, Reach, rcv, owes>>
  BY <1>1 DEF ZAdd, session, Reach, owes
<1>3. c[1] = 0 /\ c[2][1] = Reach
  BY DEF Record, Control
<1> HIDE DEF c
<1>4. db' \subseteq db \cup {c} /\ c \in db'
  BY <1>1, <1>2, StoredCases
<1>5. Reach <= Reach
  BY DEF DrainInv, PutTypeOK, Positive, Reach
<1>6. Bounded'
  <2>1. Held' \subseteq Held \cup {c}
    BY <1>2, <1>4 DEF Held, Queued
  <2> QED
    BY <1>2, <1>3, <1>5, <2>1 DEF CoverParts, Bounded, IsControl
<1>8. Rising' /\ Covered'
  BY <1>1, <1>2 DEF Rising, Covered
<1>10. ControlCovers'
  <2> SUFFICES ASSUME NEW x \in db', ~IsControl(x) PROVE x[1] <= c[2][1]
    BY <1>3, <1>4 DEF ControlCovers, KeysOf, IsControl
  <2>1. x \in Held
    BY <1>3, <1>4 DEF Held, IsControl
  <2> QED
    BY <1>1, <1>3, <2>1 DEF CoverParts, Bounded
<1> QED
  BY <1>6, <1>8, <1>10 DEF CoverParts

(* The worker writes the records in the order of their puts.               *)
LEMMA WorkerCovers ==
    ASSUME DrainInv, OneControl, CoverParts, WorkerWrites
    PROVE  CoverParts'
<1> DEFINE n == Len(queue)
           r == Head(queue)
<1>1. /\ kind = "bdb" /\ half = None /\ worker
      /\ UNCHANGED <<kind, half, up, owes, Reach, rcv>>
      /\ queue \in Seq(Recs \cup {None}) /\ queue # <<>> /\ queue' = Tail(queue)
      /\ db' = IF r = None THEN db ELSE Stored(db, r)
  BY DEF WorkerWrites, DrainInv, QueueShape, PutTypeOK, session, Reach, owes
<1>2. /\ n \in Nat /\ n >= 1 /\ DOMAIN queue = 1 .. n /\ DOMAIN queue' = 1 .. n - 1
      /\ r = queue[1] /\ \A i \in 1 .. n - 1 : queue'[i] = queue[i + 1]
  BY <1>1
<1> HIDE DEF n, r
<1>3. Bounded'
  <2>1. Held' \subseteq Held
    BY <1>1, HeldAfter
  <2> QED
    BY <1>1, <2>1 DEF CoverParts, Bounded
<1>5. \A i \in DOMAIN queue' : i + 1 \in DOMAIN queue /\ queue'[i] = queue[i + 1] /\ 1 < i + 1
  BY <1>2
<1>6. 1 \in DOMAIN queue /\ r = queue[1]
  BY <1>2
<1>7. CASE r = None
  <2>1. db' = db
    BY <1>1, <1>7
  <2>2. ControlCovers'
    BY <1>1, <2>1 DEF CoverParts, ControlCovers
  <2>3. Rising'
    <3>1. \A i, j \in DOMAIN queue' : i < j => i + 1 < j + 1
      BY <1>2
    <3> QED
      BY <1>5, <2>1, <3>1 DEF CoverParts, Rising
  <2>4. Covered'
    <3>1. queue' = <<>>
      <4>1. n = 1
        <5>1. \A i \in DOMAIN queue : queue[i] = None <=> (~Serving /\ i = n)
          BY <1>1 DEF DrainInv, QueueShape, n
        <5> QED
          BY <1>6, <1>7, <5>1
      <4> QED
        BY <1>1, <4>1 DEF n
    <3> QED
      BY <3>1 DEF Covered
  <2> QED
    BY <1>3, <2>2, <2>3, <2>4 DEF CoverParts
<1>8. CASE r # None /\ IsControl(r)
  <2>1. db' = {x \in db : ~IsControl(x)} \cup {r}
    BY <1>1, <1>8, StoredCases DEF IsControl
  <2>3. r[2][1] \in Nat /\ r[2][1] <= r[2][1]
    BY <1>6, <1>8, HeldRecs DEF DrainInv
  <2>4. \A x \in db : IsControl(x) => x[2][1] <= r[2][1] /\ x[2][1] \in Nat
    <3>1. \A x \in db : IsControl(x) => x[2][1] <= r[2][1]
      BY <1>6, <1>8 DEF CoverParts, Rising
    <3>2. \A x \in db : IsControl(x) => x[2][1] \in Nat
      BY HeldRecs DEF DrainInv, PutTypeOK
    <3> QED
      BY <3>1, <3>2
  <2>5. \A i \in DOMAIN queue' : queue'[i] # None /\ IsControl(queue'[i]) => r[2][1] <= queue'[i][2][1]
    BY <1>5, <1>6, <1>8 DEF CoverParts, Rising
  <2>6. Rising'
    <3>1. \A i, j \in DOMAIN queue' : i < j => i + 1 < j + 1
      BY <1>2
    <3> QED
      BY <1>5, <2>1, <2>5, <3>1 DEF CoverParts, Rising
  <2>7. Covered'
    <3> SUFFICES ASSUME NEW i \in DOMAIN queue', queue'[i] # None, ~IsControl(queue'[i])
                 PROVE  \/ queue'[i][1] <= r[2][1]
                        \/ \E j \in DOMAIN queue' : /\ j < i /\ queue'[j] # None
                                                    /\ IsControl(queue'[j])
                                                    /\ queue'[i][1] <= queue'[j][2][1]
      BY <1>8, <2>1 DEF Covered
    <3>1. queue'[i] = queue[i + 1] /\ i + 1 \in DOMAIN queue /\ queue[i + 1][1] \in Nat
      BY <1>5, HeldRecs DEF DrainInv
    <3>2. CASE \E x \in db : IsControl(x) /\ queue[i + 1][1] <= x[2][1]
      BY <2>3, <2>4, <3>1, <3>2
    <3>3. CASE \E j \in DOMAIN queue : /\ j < i + 1 /\ queue[j] # None /\ IsControl(queue[j])
                                       /\ queue[i + 1][1] <= queue[j][2][1]
      <4>1. PICK j \in DOMAIN queue : /\ j < i + 1 /\ queue[j] # None /\ IsControl(queue[j])
                                      /\ queue[i + 1][1] <= queue[j][2][1]
        BY <3>3
      <4>2. CASE j = 1
        BY <1>6, <3>1, <4>1, <4>2
      <4>3. CASE j # 1
        <5>1. j - 1 \in DOMAIN queue' /\ j - 1 < i /\ queue'[j - 1] = queue[j]
          BY <1>2, <4>1, <4>3
        <5> QED
          BY <3>1, <4>1, <5>1
      <4> QED
        BY <4>2, <4>3
    <3> QED
      BY <1>1, <3>1, <3>2, <3>3 DEF CoverParts, Covered
  <2>8. ControlCovers'
    <3> SUFFICES ASSUME NEW x \in db', ~IsControl(x) PROVE x[1] <= r[2][1]
      BY <1>8, <2>1 DEF ControlCovers, KeysOf, IsControl
    <3>1. x \in db /\ x[1] \in KeysOf(db) \ {0} /\ x[1] \in Nat
      BY <1>8, <2>1, HeldRecs DEF KeysOf, IsControl, DrainInv, PutTypeOK
    <3>2. PICK y \in db : y[1] = 0 /\ x[1] <= y[2][1]
      BY <1>1, <3>1 DEF CoverParts, ControlCovers
    <3> QED
      BY <2>3, <2>4, <3>1, <3>2 DEF IsControl
  <2> QED
    BY <1>3, <2>6, <2>7, <2>8 DEF CoverParts
<1>9. CASE r # None /\ ~IsControl(r)
  <2>1. db' = {x \in db : x[1] # r[1]} \cup {r}
    BY <1>1, <1>9, StoredCases
  <2>2. \A x \in Recs : IsControl(x) => (x \in db' <=> x \in db)
    BY <1>9, <2>1 DEF IsControl
  <2>3. db \subseteq Recs /\ db' \subseteq Recs /\ r \in Recs /\ r[1] \in Nat
    BY <1>6, <1>9, <2>1, HeldRecs DEF DrainInv, PutTypeOK
  <2>5. Rising'
    <3>1. \A i, j \in DOMAIN queue' : i < j => i + 1 < j + 1
      BY <1>2
    <3> QED
      BY <1>5, <2>2, <2>3, <3>1 DEF CoverParts, Rising
  <2>6. Covered'
    <3> SUFFICES ASSUME NEW i \in DOMAIN queue', queue'[i] # None, ~IsControl(queue'[i])
                 PROVE  \/ \E x \in db' : IsControl(x) /\ queue'[i][1] <= x[2][1]
                        \/ \E j \in DOMAIN queue' : /\ j < i /\ queue'[j] # None
                                                    /\ IsControl(queue'[j])
                                                    /\ queue'[i][1] <= queue'[j][2][1]
      BY DEF Covered
    <3>1. queue'[i] = queue[i + 1] /\ i + 1 \in DOMAIN queue
      BY <1>5
    <3>2. CASE \E x \in db : IsControl(x) /\ queue[i + 1][1] <= x[2][1]
      BY <2>2, <2>3, <3>1, <3>2
    <3>3. CASE \E j \in DOMAIN queue : /\ j < i + 1 /\ queue[j] # None /\ IsControl(queue[j])
                                       /\ queue[i + 1][1] <= queue[j][2][1]
      <4>1. PICK j \in DOMAIN queue : /\ j < i + 1 /\ queue[j] # None /\ IsControl(queue[j])
                                      /\ queue[i + 1][1] <= queue[j][2][1]
        BY <3>3
      <4>2. j # 1
        BY <1>6, <1>9, <4>1
      <4>3. j - 1 \in DOMAIN queue' /\ j - 1 < i /\ queue'[j - 1] = queue[j]
        BY <1>2, <4>1, <4>2
      <4> QED
        BY <3>1, <4>1, <4>3
    <3> QED
      BY <1>1, <3>1, <3>2, <3>3 DEF CoverParts, Covered
  <2>7. ControlCovers'
    <3> SUFFICES ASSUME NEW x \in db', ~IsControl(x)
                 PROVE  \E y \in db' : IsControl(y) /\ x[1] <= y[2][1]
      BY DEF ControlCovers, KeysOf, IsControl
    <3>1. \E y \in db : IsControl(y) /\ x[1] <= y[2][1]
      <4>1. CASE x = r
        <5>1. ~\E j \in DOMAIN queue : j < 1
          BY <1>2
        <5> QED
          BY <1>1, <1>6, <1>9, <4>1, <5>1 DEF CoverParts, Covered
      <4>2. CASE x # r
        <5>1. x \in db /\ x[1] \in KeysOf(db) \ {0}
          BY <2>1, <4>2 DEF KeysOf, IsControl
        <5> QED
          BY <1>1, <5>1 DEF CoverParts, ControlCovers, IsControl
      <4> QED
        BY <4>1, <4>2
    <3> QED
      BY <2>2, <2>3, <3>1
  <2> QED
    BY <1>3, <2>5, <2>6, <2>7 DEF CoverParts
<1> QED
  BY <1>7, <1>8, <1>9

(* A session that opens the store takes up the numbers it finds.           *)
LEMMA OpenCovers ==
    ASSUME DrainInv, OneControl, CoverParts, Open, kind # "memory"
    PROVE  CoverParts'
<1>1. PICK d \in {{}, db} : db' = d /\ accepted' = d /\ Recovered(d)
  BY DEF Open
<1>2. /\ kind' = kind /\ owes' /\ up' /\ queue' = queue /\ half' = half /\ ~up /\ ~worker
      /\ Reach' = snd'
  BY DEF Open, owes, Reach
<1>3. queue = <<>> /\ half = None
  BY <1>2 DEF DrainInv, QueueShape
<1>4. d \subseteq db /\ (d = {} \/ d = db) /\ d \subseteq Recs
  BY <1>1 DEF DrainInv, PutTypeOK
<1>5. \A x, y \in d : IsControl(x) /\ IsControl(y) => x = y
  BY <1>4 DEF OneControl
<1>6. Rising' /\ Covered'
  BY <1>2, <1>3 DEF Rising, Covered
<1>7. \A k \in KeysOf(d) \ {0} : \E x \in d : x[1] = 0 /\ k <= x[2][1]
  BY <1>3, <1>4 DEF CoverParts, ControlCovers, KeysOf
<1>8. ControlCovers'
  BY <1>1, <1>7 DEF ControlCovers
<1>9. Bounded'
  <2>1. Held' = d
    BY <1>1, <1>2, <1>3 DEF Held, Queued
  <2>2. half' = None
    BY <1>2, <1>3
  <2>3. ASSUME NEW x \in d, ~IsControl(x)
        PROVE  \E y \in d : IsControl(y) /\ x[1] <= y[2][1]
    BY <1>7, <2>3 DEF KeysOf, IsControl
  <2>4. CASE \A x \in d : ~IsControl(x)
    <3>1. d = {}
      BY <2>3, <2>4
    <3> QED
      BY <2>1, <2>2, <3>1 DEF Bounded
  <2>5. CASE \E x \in d : IsControl(x) /\ snd' = x[2][1] /\ rcv' = x[2][2]
    <3>1. PICK c \in d : IsControl(c) /\ snd' = c[2][1]
      BY <2>5
    <3>2. snd' \in Nat /\ snd' <= snd'
      BY <1>4, <3>1, HeldRecs DEF DrainInv
    <3>3. \A x \in d : IsControl(x) => x[2][1] <= snd'
      BY <1>5, <3>1, <3>2
    <3>4. \A x \in d : ~IsControl(x) => x[1] <= snd'
      BY <1>5, <2>3, <3>1
    <3> QED
      BY <1>2, <2>1, <2>2, <3>3, <3>4 DEF Bounded
  <2> QED
    BY <1>1, <1>4, <1>5, <2>4, <2>5, RecoveredNumbers DEF DrainInv, PutTypeOK
<1> QED
  BY <1>6, <1>8, <1>9 DEF CoverParts

(* A session that starts again over its open store, with an empty queue,   *)
(* reads back the numbers it has.                                          *)
LEMMA RecoverKeepsNumbers ==
    ASSUME DrainInv, NumbersInv, Recover, ~Overtaking, kind # "memory"
    PROVE  /\ rcv' = rcv
           /\ snd' \in Nat /\ Told(snd', snd)
           /\ Reach = snd /\ Reach' = snd'
<1>1. /\ queue = <<>> /\ up /\ ~owes /\ ~counts /\ counts' = counts /\ half = None /\ Recovered(db)
      /\ ended = "no"
  <2>1. role = "initiator" /\ queue = <<>> /\ up /\ ~owes /\ ~counts /\ half = None
        /\ Recovered(db) /\ counts' = counts
    BY DEF Recover
  <2>2. ended \in {"no", "stopped", "killed"} /\ ended # "killed" /\ ended # "stopped"
    BY <2>1 DEF DrainInv, PutTypeOK, QueueShape
  <2> QED
    BY <2>1, <2>2
<1>2. ~Deaf
  BY <1>1 DEF Deaf
<1>3. Reach = snd /\ Reach' = snd'
  BY <1>1 DEF Reach
<1>4. \A j \in DOMAIN queue : FALSE
  BY <1>1
<1>5. OneControl /\ Current
  BY DEF NumbersInv
<1>6. PICK s \in Positive : Told(s, snd) /\ Record(0, Control(s, rcv)) \in db
  BY <1>1, <1>2, <1>3, <1>4, <1>5, CurrentHeld
<1> DEFINE c == Record(0, Control(s, rcv))
<1>7. c[1] = 0 /\ c[2][1] = s /\ c[2][2] = rcv /\ c \in db
  BY <1>6 DEF Record, Control
<1> HIDE DEF c
<1>8. \A x, y \in db : IsControl(x) /\ IsControl(y) => x = y
  BY <1>5 DEF OneControl
<1>9. kind \in {"bdb", "memcached", "redis"} /\ db \in SUBSET Recs
  BY DEF DrainInv, PutTypeOK
<1>10. \E x \in db : IsControl(x) /\ snd' = x[2][1] /\ rcv' = x[2][2]
  BY <1>1, <1>7, <1>8, <1>9, RecoveredNumbers DEF IsControl
<1>11. rcv' = rcv /\ snd' = s
  BY <1>7, <1>8, <1>10 DEF IsControl
<1> QED
  BY <1>3, <1>6, <1>11 DEF Positive

(* An empty store has nothing to cover.                                    *)
LEMMA CoverInit == Init => CoverInv
  BY DEF Init, CoverInv, Bounded, Rising, Covered, ControlCovers, KeysOf

(* Every step keeps the control record at or above the messages.           *)
LEMMA CoverStep ==
    ASSUME ~Tearing, ~Overtaking, ~Racing
    PROVE  DrainInv /\ NumbersInv /\ CoverInv /\ [Next]_vars => CoverInv'
<1> SUFFICES ASSUME DrainInv, NumbersInv, CoverInv, [Next]_vars PROVE CoverInv'
  OBVIOUS
<1>1. kind' = kind
  BY KindKept
<1> SUFFICES ASSUME kind # "memory" PROVE CoverParts'
  BY <1>1 DEF CoverInv, CoverParts
<1>2. OneControl /\ Current /\ CoverParts
  BY DEF NumbersInv, CoverInv, CoverParts
<1>3. CASE PutMessage
  BY <1>2, <1>3, PutMessageCovers
<1>4. CASE PutControl
  BY <1>2, <1>4, PutControlCovers
<1>5. CASE ZAdd
  BY <1>2, <1>5, ZAddCovers
<1>6. CASE WorkerWrites
  BY <1>2, <1>6, WorkerCovers
<1>7. CASE QueryStepTaken \/ Count
  <2>1. UNCHANGED <<kind, up, db, queue, worker, half, rcv>> /\ Reach' = Reach /\ owes' = owes
    BY <1>7, QueryFrame DEF Count, Reach, owes
  <2> QED
    BY <1>2, <2>1 DEF CoverParts, Bounded, Held, Queued, Rising, Covered, ControlCovers
<1>8. CASE Open
  BY <1>2, <1>8, OpenCovers
<1>9. CASE Recover
  <2>1. UNCHANGED <<kind, up, db, queue, worker, half, rcv>> /\ Reach' = Reach /\ owes'
    BY <1>9, RecoverKeepsNumbers DEF Recover, Told, owes
  <2> QED
    BY <1>2, <2>1 DEF CoverParts, Bounded, Held, Queued, Rising, Covered, ControlCovers
<1>10. CASE SessionStop \/ StopBegins
  <2>1. /\ UNCHANGED <<kind, db, worker, half>> /\ queue \in Seq(Recs \cup {None})
        /\ queue' \in {queue, Append(queue, None), <<>>}
        /\ ~up' \/ (up' = up /\ Reach' = Reach /\ owes' = owes /\ rcv' = rcv)
        /\ queue' = <<>> => queue = <<>> \/ ~worker
    <3>1. queue \in Seq(Recs \cup {None})
      BY DEF DrainInv, PutTypeOK
    <3>2. CASE SessionStop
      <4>1. /\ UNCHANGED <<kind, up, db, worker, half>> /\ UNCHANGED <<role, snd, rcv, due, counts>>
            /\ queue' \in {queue, Append(queue, None)}
        BY <3>2 DEF SessionStop, session
      <4>2. Append(queue, None) # <<>>
        BY <3>1
      <4> QED
        BY <3>1, <4>1, <4>2 DEF Reach, owes
    <3>3. CASE StopBegins
      <4>1. /\ ~up' /\ UNCHANGED <<kind, db, worker, half>>
            /\ queue' = IF worker THEN Append(queue, None) ELSE <<>>
        BY <3>3 DEF StopBegins
      <4>2. Append(queue, None) # <<>>
        BY <3>1
      <4> QED
        BY <3>1, <4>1, <4>2
    <3> QED
      BY <1>10, <3>2, <3>3
  <2>2. \A i \in DOMAIN queue' : queue'[i] # None => i \in DOMAIN queue /\ queue'[i] = queue[i]
    BY <2>1
  <2>3. Held' \subseteq Held
    BY <2>1, <2>2 DEF Held, Queued
  <2>4. Bounded'
    <3>1. CASE ~up'
      BY <3>1 DEF Bounded
    <3>2. CASE up'
      <4>1. up /\ Reach' = Reach /\ owes' = owes /\ rcv' = rcv /\ half' = half
        BY <2>1, <3>2
      <4> QED
        BY <1>2, <2>3, <4>1 DEF CoverParts, Bounded, IsControl
    <3> QED
      BY <3>1, <3>2
  <2>5. Rising' /\ ControlCovers'
    BY <1>2, <2>1, <2>2 DEF CoverParts, Rising, ControlCovers
  <2>6. Covered'
    <3> SUFFICES ASSUME worker, queue' # <<>> PROVE Covered'
      BY <2>1 DEF Covered
    <3>1. queue' = queue \/ queue' = Append(queue, None)
      BY <2>1
    <3>2. \A i \in DOMAIN queue : i \in DOMAIN queue' /\ queue'[i] = queue[i]
      BY <2>1, <3>1
    <3> QED
      BY <1>2, <2>1, <2>2, <3>2 DEF CoverParts, Covered
  <2> QED
    BY <2>4, <2>5, <2>6 DEF CoverParts
<1>11. CASE Crash
  <2>1. half = None /\ half' = None /\ db' = db /\ queue' = <<>> /\ ~up'
    BY <1>11 DEF Crash
  <2> QED
    BY <1>1, <1>2, <2>1 DEF CoverParts, Bounded, Rising, Covered, ControlCovers
<1>12. CASE UNCHANGED vars
  BY <1>2, <1>12 DEF vars, session, CoverParts, Bounded, Held, Queued, Rising, Covered, ControlCovers,
      Reach, owes
<1> QED
  BY <1>3, <1>4, <1>5, <1>6, <1>7, <1>8, <1>9, <1>10, <1>11, <1>12
     DEF Next, PutControl, QueryStepTaken

(* These hold whatever the flags.                                          *)
LEMMA NumbersAlways == Spec => [](DrainInv /\ NumbersInv)
<1>1. Init => DrainInv /\ NumbersInv
  BY DrainInit, NumbersInit
<1>2. DrainInv /\ NumbersInv /\ [Next]_vars => (DrainInv /\ NumbersInv)'
  BY DrainStep, NumbersStep
<1> QED
  BY <1>1, <1>2, PTL DEF Spec

(* Unless redis is killed between its two commands, a session starts over  *)
(* a queue, or a receipt is recorded between the put and the count of a    *)
(* message sent, the control record a killed process leaves is at or above *)
(* the number of every message it leaves: the order of the puts is the     *)
(* order of the writes.                                                    *)
THEOREM ControlAlwaysCovers ==
    ASSUME ~Tearing, ~Overtaking, ~Racing
    PROVE  Spec => []ControlCovers
<1>1. Init => DrainInv /\ NumbersInv /\ CoverInv
  BY DrainInit, NumbersInit, CoverInit
<1>2. DrainInv /\ NumbersInv /\ CoverInv /\ [Next]_vars => (DrainInv /\ NumbersInv /\ CoverInv)'
  BY DrainStep, NumbersStep, CoverStep
<1>3. CoverInv => ControlCovers
  BY DEF CoverInv, ControlCovers
<1> QED
  BY <1>1, <1>2, <1>3, PTL DEF Spec

(* The bounds are counted where Init put them.                             *)
Counted == used \in [{"queries", "crashes", "opens", "recovers"} -> Nat]

(* Only a session that starts again counts as one.                         *)
LEMMA RecoversCounted ==
    ASSUME Counted, [Next]_vars
    PROVE  Counted' /\ (used'["recovers"] # used["recovers"] => Recover)
<1>1. CASE UNCHANGED used
  BY <1>1 DEF Counted
<1>2. ASSUME NEW c \in {"queries", "crashes", "opens", "recovers"}, NEW max, Use(c, max)
      PROVE  Counted' /\ (used'["recovers"] # used["recovers"] => c = "recovers")
  BY <1>2 DEF Use, Counted
<1>3. CASE GetStart \/ Open \/ Crash
  BY <1>2, <1>3 DEF GetStart, Open, Crash
<1>4. CASE Recover
  BY <1>2, <1>4 DEF Recover
<1>5. CASE PutMessage \/ Count \/ ZAdd \/ WorkerWrites \/ GetNext
  BY <1>1, <1>5 DEF PutMessage, Count, ZAdd, WorkerWrites, GetNext
<1>6. CASE PutControl
  BY <1>1, <1>6 DEF PutControl, PutSent, PutAdmin, PutReceived, PutRefused, PutControlAs
<1>7. CASE GetEnd \/ GetReturns \/ SessionStop \/ StopBegins \/ UNCHANGED vars
  BY <1>1, <1>7 DEF GetEnd, GetReturns, SessionStop, StopBegins, vars
<1> QED
  BY <1>3, <1>4, <1>5, <1>6, <1>7 DEF Next, PutControl

(* They stay counted.                                                      *)
LEMMA CountedAlways == Spec => []Counted
<1>1. Init => Counted
  BY DEF Init, Counted
<1>2. Counted /\ [Next]_vars => Counted'
  BY RecoversCounted
<1> QED
  BY <1>1, <1>2, PTL DEF Spec

(* A session that starts again over its open persister, once the queue is  *)
(* drained, goes on with the numbers it had: the expected number exactly,  *)
(* the send number at worst one lower, and that only if a receipt may be   *)
(* recorded between the put and the count of a message sent.  It may be    *)
(* any of the four persisters but memory, killed anywhere before.          *)
THEOREM RecoverFindsItsNumbers ==
    ASSUME ~Overtaking
    PROVE  Spec => RecoversItsNumbers
<1> DEFINE A == kind # "memory" /\ used'["recovers"] # used["recovers"]
                   => /\ rcv' = rcv
                      /\ snd' = snd \/ (Racing /\ snd' = snd - 1)
<1>1. Counted /\ DrainInv /\ NumbersInv /\ [Next]_vars => [A]_vars
  <2> SUFFICES ASSUME Counted, DrainInv, NumbersInv, [Next]_vars, kind # "memory",
                      used'["recovers"] # used["recovers"]
               PROVE  rcv' = rcv /\ (snd' = snd \/ (Racing /\ snd' = snd - 1))
    BY DEF vars
  <2>1. Recover
    BY RecoversCounted
  <2>2. rcv' = rcv /\ snd' \in Nat /\ Told(snd', snd)
    BY <2>1, RecoverKeepsNumbers
  <2>3. snd \in Nat
    BY DEF DrainInv, PutTypeOK, Positive
  <2>4. ASSUME NEW a \in Nat, NEW b \in Nat, a + 1 = b PROVE a = b - 1
    BY <2>4
  <2>5. snd' + 1 = snd => snd' = snd - 1
    BY <2>2, <2>3, <2>4
  <2> QED
    BY <2>2, <2>5 DEF Told
<1>2. Spec => [][A]_vars
  BY <1>1, CountedAlways, NumbersAlways, PTL DEF Spec
<1> QED
  BY <1>2 DEF RecoversItsNumbers

-----------------------------------------------------------------------------
(* A query is complete *)

DistinctKeys(d) == \A x, y \in d : x[1] = y[1] => x = y

QueryTypeOK ==
    /\ kind \in Kinds
    /\ query \in [on : BOOLEAN, from : Nat, finish : Nat, pos : Nat \X Nat, snap : SUBSET Recs,
                  given : Seq(MessageRecs), want : SUBSET MessageRecs, told : BOOLEAN]

(* A key is stored once, below the bound, under a text given out before;   *)
(* only a Berkeley database opened for a purge compares keys bytewise.     *)
KeysApart ==
    /\ DistinctKeys(db)
    /\ \A x \in Held : x[1] <= MaxSeq /\ (~IsControl(x) => x[2][1] <= text)
    /\ bytewise => kind = "bdb"

(* The place a query has reached is a key the session has left behind, and *)
(* no record of that key is still to come.                                 *)
Reached ==
    /\ query.given = <<>> => query.pos[2] = 0
    /\ query.given # <<>> =>
         /\ query.pos[1] # 0
         /\ kind \notin {"memory", "redis"} =>
               query.pos[1] <= Reach /\ (owes \/ query.pos[1] < Reach)
         /\ \A x \in (IF kind = "redis" THEN query.snap ELSE Held) :
               x[1] = query.pos[1] => x[2][1] <= query.pos[2]
    /\ kind = "bdb" => query.pos[1] <= MaxSeq

(* What was handed over ascends to that place.                             *)
Ascending ==
    /\ \A i, j \in DOMAIN query.given : i < j => query.given[i][1] < query.given[j][1]
    /\ \A i \in DOMAIN query.given : query.given[i][1] <= query.pos[1]

Given(k) == \E i \in DOMAIN query.given : query.given[i][1] = k

(* A key in the range that was not handed over is still ahead.             *)
Remaining ==
    \A k \in KeysOf(query.want) :
        \/ Given(k)
        \/ /\ ~query.told /\ k # 0 /\ k \in KeysOf(View) /\ k <= query.finish
           /\ query.pos[1] < k \/ (query.pos[1] = k /\ query.given = <<>>)

Walking ==
    query.on => /\ up /\ DistinctKeys(View)
                /\ Reached /\ Ascending /\ Remaining

QueryInv == QueryTypeOK /\ KeysApart /\ Walking

(* Every set of numbers has a least one, and a bounded one a largest.      *)
LEMMA LeastNumber ==
    ASSUME NEW S \in SUBSET Nat, S # {}
    PROVE  \E m \in S : \A n \in S : m <= n
<1>1. PICK m \in S : \A n \in S : ~(<<n, m>> \in OpToRel(<, Nat))
  BY NatLessThanWellFounded, WFMin
<1>2. \A n \in S : ~(n < m)
  BY <1>1 DEF OpToRel
<1> QED
  BY <1>2

(* The largest one of a bounded set.                                       *)
LEMMA LargestNumber ==
    ASSUME NEW b \in Nat, NEW S \in SUBSET Nat, S # {}, \A n \in S : n <= b
    PROVE  \E m \in S : \A n \in S : n <= m
<1> DEFINE T == {b - n : n \in S}
<1>1. T \in SUBSET Nat /\ T # {}
  <2>1. ASSUME NEW n \in S PROVE b - n \in Nat
    <3>1. n \in Nat /\ n <= b
      OBVIOUS
    <3> QED
      BY <3>1
  <2> QED
    BY <2>1
<1>2. PICK t \in T : \A u \in T : t <= u
  BY <1>1, LeastNumber
<1>3. PICK m \in S : t = b - m
  BY <1>2
<1>4. ASSUME NEW n \in S PROVE n <= m
  <2>1. b - n \in T
    OBVIOUS
  <2>2. b - m <= b - n
    BY <1>2, <1>3, <2>1
  <2>3. m \in Nat /\ n \in Nat
    OBVIOUS
  <2> QED
    BY <2>2, <2>3
<1> QED
  BY <1>4

(* The first byte of a key that fits one is the key.                       *)
LEMMA SmallRemainder ==
    ASSUME NEW R \in Nat \ {0}, NEW a \in Nat, a < R
    PROVE  a % R = a /\ a \div R = 0
  OBVIOUS

(* As long as a key fits a byte, both orders of the keys agree.            *)
LEMMA KeyOrder ==
    ASSUME bytewise => MaxSeq < Radix, NEW a \in Nat, NEW b \in Nat,
           bytewise => a <= MaxSeq /\ b <= MaxSeq
    PROVE  KeyLess(a, b) <=> a < b
<1>1. Radix \in Nat \ {0} /\ MaxSeq \in Nat
  BY PersisterAssumption
<1>2. CASE bytewise
  <2>1. a < Radix /\ b < Radix
    BY <1>1, <1>2
  <2>2. a % Radix = a /\ b % Radix = b /\ a \div Radix = 0 /\ b \div Radix = 0
    BY <1>1, <2>1, SmallRemainder
  <2> QED
    BY <1>2, <2>2 DEF KeyLess
<1>3. CASE ~bytewise
  BY <1>3 DEF KeyLess
<1> QED
  BY <1>2, <1>3

(* A put of a new key, or over the old record of its key, keeps keys apart.*)
LEMMA StoredDistinct ==
    ASSUME kind \in {"memory", "bdb", "memcached", "redis"}, NEW d, NEW r, DistinctKeys(d),
           kind = "redis" => \A x \in d : x[1] # r[1]
    PROVE  /\ DistinctKeys(Stored(d, r))
           /\ KeysOf(d) \subseteq KeysOf(Stored(d, r)) \/ kind = "redis"
<1>1. CASE kind = "memory"
  BY <1>1, StoredCases DEF DistinctKeys, KeysOf
<1>2. CASE kind \in {"bdb", "memcached"}
  <2>1. Stored(d, r) = {x \in d : x[1] # r[1]} \cup {r}
    BY <1>2, StoredCases
  <2> QED
    BY <2>1 DEF DistinctKeys, KeysOf
<1>3. CASE kind = "redis"
  BY <1>3, StoredCases DEF DistinctKeys
<1> QED
  BY <1>1, <1>2, <1>3

(* What a put of a control record leaves in the store and the queue.       *)
LEMMA PutControlKeeps ==
    ASSUME DrainInv, PutControl, DistinctKeys(db)
    PROVE  /\ \A x \in Held' : x \in Held \/ (x[1] = 0 /\ x \in Recs)
           /\ DistinctKeys(db')
           /\ KeysOf(db) \ {0} \subseteq KeysOf(db')
           /\ up /\ up' = up /\ kind' = kind /\ query' = query /\ bytewise' = bytewise
           /\ text' = text /\ half = None /\ (kind = "memory" => ~query.on)
           /\ Reach <= Reach' /\ (owes => owes' \/ Reach < Reach')
<1>1. PICK s, t \in Positive : /\ PutControlAs(s, t)
                               /\ Record(0, Control(s, t)) \in Recs
  BY PutControlStep DEF DrainInv
<1> DEFINE c == Record(0, Control(s, t))
<1>2. /\ up /\ half = None /\ up' = up /\ kind' = kind
      /\ query' = query /\ bytewise' = bytewise /\ text' = text
      /\ (kind = "memory" => ~query.on)
  BY <1>1 DEF PutControlAs, MayPut
<1>3. c[1] = 0 /\ c \in Recs
  BY <1>1 DEF Record
<1>4. Reach <= Reach' /\ (owes => owes' \/ Reach < Reach')
  BY PutControlStep DEF DrainInv
<1> HIDE DEF c
<1>5. CASE kind = "redis"
  <2>1. db' = {x \in db : x[1] # 0} /\ queue' = queue
    BY <1>1, <1>5 DEF PutControlAs
  <2>2. Held' \subseteq Held
    BY <2>1 DEF Held, Queued
  <2>3. DistinctKeys(db') /\ KeysOf(db) \ {0} \subseteq KeysOf(db')
    BY <2>1 DEF DistinctKeys, KeysOf
  <2> QED
    BY <1>2, <1>4, <2>2, <2>3
<1>6. CASE kind # "redis"
  <2>1. write(c)
    BY <1>1, <1>6 DEF PutControlAs, c
  <2>2. Held' \subseteq Held \cup {c}
    BY <1>2, <1>3, <2>1, HeldAfter
  <2>3. db' = db \/ db' = Stored(db, c)
    BY <2>1 DEF write
  <2>4. kind \in {"memory", "bdb", "memcached", "redis"}
    BY DEF DrainInv, PutTypeOK
  <2>5. DistinctKeys(db') /\ KeysOf(db) \subseteq KeysOf(db')
    <3>1. CASE db' = db
      BY <3>1
    <3>2. CASE db' = Stored(db, c)
      BY <1>6, <2>4, <3>2, StoredDistinct
    <3> QED
      BY <2>3, <3>1, <3>2
  <2> QED
    BY <1>2, <1>3, <1>4, <2>2, <2>5
<1> QED
  BY <1>5, <1>6

(* The same of a message, whose key is new unless the store is a map.      *)
LEMMA PutMessageKeeps ==
    ASSUME DrainInv, CoverInv, PutMessage, DistinctKeys(db)
    PROVE  /\ \A x \in Held' : x \in Held \/ (x[1] = snd /\ x[2][1] = text + 1 /\ x \in MessageRecs)
           /\ kind # "memory" => \A x \in Held : x[1] < snd
           /\ DistinctKeys(db')
           /\ KeysOf(db) \subseteq KeysOf(db') \/ kind = "redis"
<1> DEFINE r == Record(snd, Message(text + 1))
<1>1. up /\ ~owes /\ half = None /\ write(r) /\ Reach = snd
  BY DEF PutMessage, MayPut, Reach
<1>2. snd \in Positive /\ text + 1 \in Positive
  BY DEF DrainInv, PutTypeOK, Positive
<1>3. r \in MessageRecs /\ r \in Recs
  BY <1>2, RecShape DEF Recs
<1>4. r[1] = snd /\ r[2][1] = text + 1
  BY DEF Record, Message
<1> HIDE DEF r
<1>5. kind # "memory" => \A x \in Held : x[1] < snd
  <2> SUFFICES ASSUME kind # "memory", NEW x \in Held PROVE x[1] < snd
    OBVIOUS
  <2>1. CASE IsControl(x)
    BY <1>2, <2>1 DEF IsControl, Positive
  <2>2. CASE ~IsControl(x)
    BY <1>1, <2>2 DEF CoverInv, Bounded
  <2> QED
    BY <2>1, <2>2
<1>6. kind = "redis" => \A x \in db : x[1] # r[1]
  <2> SUFFICES ASSUME kind = "redis", NEW x \in db PROVE x[1] # snd
    BY <1>4
  <2>1. x[1] < snd /\ x[1] \in Nat
    BY <1>5, HeldRecs DEF Held, DrainInv
  <2> QED
    BY <1>2, <2>1 DEF Positive
<1>7. DistinctKeys(db') /\ (KeysOf(db) \subseteq KeysOf(db') \/ kind = "redis")
  <2>1. db' = db \/ db' = Stored(db, r)
    BY <1>1 DEF write
  <2>2. kind \in {"memory", "bdb", "memcached", "redis"}
    BY DEF DrainInv, PutTypeOK
  <2> QED
    BY <1>6, <2>1, <2>2, StoredDistinct
<1>8. Held' \subseteq Held \cup {r}
  BY <1>1, <1>3, HeldAfter
<1> QED
  BY <1>3, <1>4, <1>5, <1>7, <1>8

(* The worker puts a queued record in the place of the old one.            *)
LEMMA WorkerKeeps ==
    ASSUME DrainInv, WorkerWrites, DistinctKeys(db)
    PROVE  /\ Held' \subseteq Held
           /\ DistinctKeys(db')
           /\ KeysOf(db) \subseteq KeysOf(db')
           /\ kind = "bdb"
<1>1. kind = "bdb"
  BY DEF WorkerWrites, DrainInv, QueueShape
<1>2. db' = db \/ db' = Stored(db, Head(queue))
  BY DEF WorkerWrites
<1>3. DistinctKeys(db') /\ KeysOf(db) \subseteq KeysOf(db')
  BY <1>1, <1>2, StoredDistinct
<1> QED
  BY <1>1, <1>3, HeldAfter

(* ZADD brings back a control record where there was none.                 *)
LEMMA ZAddKeeps ==
    ASSUME DrainInv, NumbersInv, ZAdd, DistinctKeys(db)
    PROVE  /\ \A x \in Held' : x \in Held \/ (x[1] = 0 /\ x \in Recs)
           /\ DistinctKeys(db')
           /\ kind = "redis"
<1> DEFINE c == Record(0, half)
<1>1. /\ kind = "redis" /\ half # None /\ \A x \in db : ~IsControl(x)
      /\ db' = Stored(db, c) /\ queue' = queue
  BY DEF ZAdd, DrainInv, QueueShape, NumbersInv, OneControl
<1>2. c[1] = 0 /\ c \in Recs
  <2>1. c \in Recs
    BY <1>1, RecShape DEF DrainInv, PutTypeOK, Recs
  <2> QED
    BY <2>1 DEF Record
<1> HIDE DEF c
<1>3. DistinctKeys(db')
  BY <1>1, <1>2, StoredDistinct DEF IsControl
<1>4. db' \subseteq db \cup {c}
  BY <1>1, StoredCases
<1> QED
  BY <1>1, <1>2, <1>3, <1>4 DEF Held, Queued

(* No step puts two records under one key.                                 *)
LEMMA KeysApartStep ==
    ASSUME DrainInv, NumbersInv, CoverInv, KeysApart, [Next]_vars
    PROVE  KeysApart'
<1>1. MaxSeq \in Nat /\ text \in Nat /\ snd \in Nat
  BY PersisterAssumption DEF DrainInv, PutTypeOK, Positive
<1>2. DistinctKeys(db)
  BY DEF KeysApart
<1>3. CASE PutMessage
  <2>1. /\ \A x \in Held' : x \in Held \/ (x[1] = snd /\ x[2][1] = text + 1 /\ x \in MessageRecs)
        /\ DistinctKeys(db')
    BY <1>2, <1>3, PutMessageKeeps
  <2>2. snd <= MaxSeq /\ text' = text + 1 /\ bytewise' = bytewise /\ kind' = kind
    BY <1>3 DEF PutMessage
  <2>3. ASSUME NEW x \in Held' PROVE x[1] <= MaxSeq /\ (~IsControl(x) => x[2][1] <= text')
    <3>1. CASE x \in Held
      <4>1. x[1] <= MaxSeq /\ (~IsControl(x) => x[2][1] <= text)
        BY <3>1 DEF KeysApart
      <4>2. ~IsControl(x) => x[2][1] \in Nat
        BY <3>1, HeldRecs, RecSort, RecShape DEF DrainInv, IsControl, Positive
      <4> QED
        BY <1>1, <2>2, <4>1, <4>2
    <3>2. CASE x[1] = snd /\ x[2][1] = text + 1
      BY <1>1, <2>2, <3>2
    <3> QED
      BY <2>1, <3>1, <3>2
  <2> QED
    BY <2>1, <2>2, <2>3 DEF KeysApart
<1>4. CASE PutControl
  <2>1. /\ \A x \in Held' : x \in Held \/ (x[1] = 0 /\ x \in Recs)
        /\ DistinctKeys(db') /\ text' = text /\ bytewise' = bytewise /\ kind' = kind
    BY <1>2, <1>4, PutControlKeeps
  <2> QED
    BY <1>1, <2>1 DEF KeysApart, IsControl
<1>5. CASE ZAdd
  <2>1. /\ \A x \in Held' : x \in Held \/ (x[1] = 0 /\ x \in Recs)
        /\ DistinctKeys(db')
    BY <1>2, <1>5, ZAddKeeps
  <2>2. text' = text /\ bytewise' = bytewise /\ kind' = kind
    BY <1>5 DEF ZAdd
  <2> QED
    BY <1>1, <2>1, <2>2 DEF KeysApart, IsControl
<1>6. CASE WorkerWrites
  <2>1. Held' \subseteq Held /\ DistinctKeys(db')
    BY <1>2, <1>6, WorkerKeeps
  <2>2. text' = text /\ bytewise' = bytewise /\ kind' = kind
    BY <1>6 DEF WorkerWrites
  <2> QED
    BY <2>1, <2>2 DEF KeysApart
<1>7. CASE QueryStepTaken \/ Count \/ Recover \/ UNCHANGED vars
  <2>1. UNCHANGED <<db, queue, text, bytewise, kind>>
    BY <1>7, QueryFrame DEF Count, Recover, vars
  <2> QED
    BY <2>1 DEF KeysApart, Held, Queued
<1>8. CASE Open
  <2>1. db' \subseteq db /\ queue' = queue /\ text' = text /\ kind' = kind /\ (bytewise' => kind = "bdb")
    BY <1>8 DEF Open
  <2> QED
    BY <2>1 DEF KeysApart, DistinctKeys, Held, Queued
<1>9. CASE SessionStop \/ StopBegins
  <2>1. UNCHANGED <<db, text, bytewise, kind>> /\ queue \in Seq(Recs \cup {None})
        /\ queue' \in {queue, Append(queue, None), <<>>}
    BY <1>9 DEF SessionStop, StopBegins, DrainInv, PutTypeOK
  <2>2. \A i \in DOMAIN queue' : queue'[i] # None => i \in DOMAIN queue /\ queue'[i] = queue[i]
    BY <2>1
  <2>3. Queued' \subseteq Queued
    BY <2>2 DEF Queued
  <2>4. Held' \subseteq Held
    BY <2>1, <2>3 DEF Held
  <2> QED
    BY <2>1, <2>4 DEF KeysApart
<1>10. CASE Crash
  <2>1. UNCHANGED <<db, text, bytewise, kind>> /\ queue' = <<>>
    BY <1>10 DEF Crash
  <2>2. Held' \subseteq Held
    BY <2>1 DEF Held, Queued
  <2> QED
    BY <2>1, <2>2 DEF KeysApart
<1> QED
  BY <1>3, <1>4, <1>5, <1>6, <1>7, <1>8, <1>9, <1>10 DEF Next, PutControl, QueryStepTaken

(* A step that leaves the query where it is, and the messages in the store.*)
LEMMA KeptWalks ==
    ASSUME QueryTypeOK, Walking, query' = query, kind' = kind, up' = up,
           query.on => /\ kind # "memory"
                       /\ kind # "redis" =>
                             /\ DistinctKeys(db') /\ KeysOf(db) \ {0} \subseteq KeysOf(db')
                             /\ query.given # <<>> =>
                                  /\ \A x \in Held' : x \in Held \/ x[1] # query.pos[1]
                                  /\ query.pos[1] <= Reach'
                                  /\ owes' \/ query.pos[1] < Reach'
    PROVE  Walking'
<1> SUFFICES ASSUME query.on
             PROVE  /\ up' /\ DistinctKeys(View)' /\ Reached' /\ Ascending' /\ Remaining'
  BY DEF Walking
<1>1. up /\ DistinctKeys(View) /\ Reached /\ Ascending /\ Remaining
  BY DEF Walking
<1>2. DistinctKeys(View)' /\ KeysOf(View) \ {0} \subseteq KeysOf(View')
  BY <1>1 DEF View, DistinctKeys
<1>3. Reached'
  BY <1>1 DEF Reached
<1>4. Ascending'
  BY <1>1 DEF Ascending
<1>5. Remaining'
  BY <1>1, <1>2 DEF Remaining, Given, KeysOf
<1> QED
  BY <1>1, <1>2, <1>3, <1>4, <1>5

(* get_last_seqnum is at or above every message in the store.              *)
LEMMA LastCovers ==
    ASSUME DrainInv, CoverInv, KeysApart, bytewise => MaxSeq < Radix
    PROVE  /\ LastSeqnum(db) \in Nat
           /\ \A x \in db : x[1] # 0 => x[1] <= LastSeqnum(db)
<1> DEFINE z == ControlRecords(db)
           last == LastSeqnum(db)
<1>1. kind \in {"memory", "bdb", "memcached", "redis"} /\ db \in SUBSET Recs
  BY DEF DrainInv, PutTypeOK
<1>2. CASE kind = "memcached"
  <2>1. last = IF z = {} THEN 0 ELSE (CHOOSE c \in z : TRUE)[1]
    BY <1>2 DEF LastSeqnum
  <2>2. half = None
    BY <1>2 DEF DrainInv, QueueShape
  <2>3. ASSUME NEW x \in db, x[1] # 0
        PROVE  \E y \in db : y[1] = 0 /\ x[1] <= y[2][1]
    BY <1>2, <2>2, <2>3 DEF CoverInv, ControlCovers, KeysOf
  <2>4. \A y \in db : y[1] = 0 => y[2] \in z
    BY <1>2 DEF ControlRecords
  <2>5. CASE z = {}
    BY <2>1, <2>3, <2>4, <2>5
  <2>6. CASE z # {}
    <3>1. PICK c \in z : last = c[1]
      BY <2>1, <2>6
    <3>2. c[1] \in Positive /\ \E x \in db : x[1] = 0 /\ c = x[2]
      BY <1>1, <1>2, <3>1, ControlRecordsOf
    <3>3. PICK w \in db : w[1] = 0 /\ c = w[2]
      BY <3>2
    <3>4. \A y \in db : y[1] = 0 => y = w
      BY <3>3 DEF KeysApart, DistinctKeys
    <3>5. last \in Nat
      BY <3>1, <3>2 DEF Positive
    <3>6. ASSUME NEW x \in db, x[1] # 0 PROVE x[1] <= last
      BY <2>3, <3>1, <3>3, <3>4, <3>6
    <3> QED
      BY <3>5, <3>6
  <2> QED
    BY <2>5, <2>6
<1>3. CASE kind # "memcached" /\ db = {}
  BY <1>3 DEF LastSeqnum
<1>4. CASE kind # "memcached" /\ db # {}
  <2> DEFINE K == KeysOf(db)
  <2>1. K \in SUBSET Nat /\ K # {} /\ \A k \in K : k <= MaxSeq
    <3>1. \A x \in db : x[1] \in Nat /\ x[1] <= MaxSeq
      BY <1>1, RecSort DEF KeysApart, Held
    <3> QED
      BY <1>4, <3>1 DEF KeysOf
  <2>2. \A j, k \in K : KeyLess(j, k) <=> j < k
    BY <2>1, KeyOrder
  <2>3. PICK m \in K : \A n \in K : n <= m
    BY <2>1, LargestNumber, PersisterAssumption
  <2>4. \A n \in K : n = m \/ KeyLess(n, m)
    BY <2>1, <2>2, <2>3
  <2>5. last = CHOOSE k \in K : \A j \in K : j = k \/ KeyLess(j, k)
    BY <1>4 DEF LastSeqnum
  <2>6. last \in K /\ \A j \in K : j = last \/ KeyLess(j, last)
    BY <2>4, <2>5
  <2> HIDE DEF last
  <2>7. last \in Nat /\ \A j \in K : j <= last
    BY <2>1, <2>2, <2>6
  <2> QED
    BY <2>7 DEF KeysOf, last
<1> QED
  BY <1>2, <1>3, <1>4

(* find_nearest_highest_seqnum returns the least key of its range, or 0.   *)
LEMMA NearestIsLeast ==
    ASSUME NEW d \in SUBSET Recs, NEW from \in Nat, NEW last \in Nat
    PROVE  LET n == find_nearest_highest_seqnum(from, last, d)
           IN  /\ n \in Nat
               /\ n \in KeysOf(d) \/ n = 0
               /\ \A x \in d : from <= x[1] /\ x[1] <= last => n <= x[1] /\ (n = 0 \/ from <= n)
                                                               /\ (from # 0 => n # 0)
<1> DEFINE F == {k \in KeysOf(d) : from <= k /\ k <= last}
           n == find_nearest_highest_seqnum(from, last, d)
<1>1. n = IF F = {} THEN 0 ELSE CHOOSE k \in F : \A j \in F : k <= j
  BY DEF find_nearest_highest_seqnum
<1>2. \A x \in d : from <= x[1] /\ x[1] <= last => x[1] \in F
  BY DEF KeysOf
<1>3. F \in SUBSET Nat
  BY RecSort DEF KeysOf
<1> HIDE DEF n
<1>4. CASE F = {}
  BY <1>1, <1>2, <1>4 DEF n
<1>5. CASE F # {}
  <2>1. \E m \in F : \A j \in F : m <= j
    BY <1>3, <1>5, LeastNumber
  <2>2. n \in F /\ \A j \in F : n <= j
    BY <1>1, <1>5, <2>1
  <2>3. n \in Nat /\ n \in KeysOf(d) /\ from <= n
    BY <1>3, <2>2
  <2>4. from # 0 => n # 0
    BY <2>3
  <2> QED
    BY <1>2, <2>2, <2>3, <2>4 DEF n
<1> QED
  BY <1>4, <1>5

(* A query starts at the first record of its range, in every store.        *)
LEMMA StartWalks ==
    ASSUME DrainInv, CoverInv, KeysApart, GetStart, kind \in Kinds,
           bytewise => MaxSeq < Radix
    PROVE  QueryTypeOK' /\ Walking'
<1>1. PICK from \in 1 .. MaxSeq + 1, to \in 0 .. MaxSeq :
         LET last   == LastSeqnum(db)
             start  == IF kind = "redis" THEN from
                       ELSE find_nearest_highest_seqnum(from, last, db)
             finish == IF to = 0 THEN last ELSE to
         IN  query' = [on |-> TRUE, from |-> from,
                       finish |-> IF start = 0 \/ from > finish THEN 0 ELSE finish,
                       pos |-> <<start, 0>>, snap |-> IF kind = "redis" THEN db ELSE {},
                       given |-> <<>>, want |-> InRange(db, from, to), told |-> FALSE]
  BY DEF GetStart
<1> DEFINE last   == LastSeqnum(db)
           start  == IF kind = "redis" THEN from
                     ELSE find_nearest_highest_seqnum(from, last, db)
           finish == IF to = 0 THEN last ELSE to
           ends   == IF start = 0 \/ from > finish THEN 0 ELSE finish
           snap   == IF kind = "redis" THEN db ELSE {}
           want   == InRange(db, from, to)
<1>2. query' = [on |-> TRUE, from |-> from, finish |-> ends, pos |-> <<start, 0>>, snap |-> snap,
                given |-> <<>>, want |-> want, told |-> FALSE]
  BY <1>1
<1>3. up /\ UNCHANGED <<kind, up, bytewise, db, queue, half>>
  BY DEF GetStart
<1>4. /\ MaxSeq \in Nat /\ db \in SUBSET Recs /\ from \in Nat /\ from # 0 /\ to \in Nat
  BY PersisterAssumption DEF DrainInv, PutTypeOK
<1>5. last \in Nat /\ \A x \in db : x[1] # 0 => x[1] <= last
  BY LastCovers
<1> HIDE DEF last
<1>6. start \in Nat /\ (kind # "redis" => start \in KeysOf(db) \/ start = 0)
  BY <1>4, <1>5, NearestIsLeast
<1>7. finish \in Nat /\ ends \in Nat
  BY <1>4, <1>5
<1>8. ASSUME NEW x \in want
      PROVE  /\ x \in db /\ x \in MessageRecs /\ x[1] \in Nat /\ x[1] # 0
             /\ from <= x[1] /\ x[1] <= finish /\ start <= x[1] /\ start # 0
  <2>1. x \in db /\ from <= x[1] /\ x[1] # 0 /\ (to = 0 \/ x[1] <= to)
    BY <1>8 DEF InRange
  <2>2. x[1] \in Nat /\ x \in MessageRecs
    BY <1>4, <2>1, RecSort
  <2>3. x[1] <= last
    BY <1>5, <2>1
  <2>4. start <= x[1] /\ start # 0
    BY <1>4, <1>5, <2>1, <2>2, <2>3, NearestIsLeast
  <2> QED
    BY <2>1, <2>2, <2>3, <2>4
<1> HIDE DEF start, finish, want
<1>9. ASSUME NEW x \in want PROVE x[1] <= ends
  <2>1. ~(from > finish)
    BY <1>4, <1>7, <1>8
  <2> QED
    BY <1>8, <2>1
<1> HIDE DEF ends
<1>10. QueryTypeOK'
  <2>1. want \subseteq MessageRecs /\ snap \subseteq Recs
    BY <1>4, <1>8
  <2>2. <<>> \in Seq(MessageRecs)
    OBVIOUS
  <2> HIDE DEF snap
  <2> QED
    BY <1>2, <1>3, <1>4, <1>6, <1>7, <2>1, <2>2 DEF QueryTypeOK
<1>11. View' = db
  BY <1>2, <1>3 DEF View
<1>12. query'.given = <<>> /\ query'.pos[2] = 0 /\ query'.pos[1] = start /\ query'.want = want
       /\ ~query'.told /\ query'.finish = ends
  BY <1>2
<1>13. Reached'
  <2>1. kind = "bdb" => start <= MaxSeq
    <3>1. \A x \in db : x[1] <= MaxSeq
      BY DEF KeysApart, Held
    <3> QED
      BY <1>4, <1>6, <3>1 DEF KeysOf
  <2> QED
    BY <1>3, <1>12, <2>1 DEF Reached
<1>14. Ascending'
  BY <1>12 DEF Ascending
<1>15. Remaining'
  <2> SUFFICES ASSUME NEW k \in KeysOf(want)
               PROVE  /\ k # 0 /\ k \in KeysOf(db) /\ k <= ends
                      /\ start < k \/ start = k
    BY <1>11, <1>12 DEF Remaining, KeysOf
  <2>1. PICK x \in want : k = x[1]
    BY DEF KeysOf
  <2> QED
    BY <1>6, <1>8, <1>9, <2>1 DEF KeysOf
<1>16. DistinctKeys(View)'
  BY <1>11 DEF KeysApart, DistinctKeys
<1> QED
  BY <1>3, <1>10, <1>13, <1>14, <1>15, <1>16 DEF Walking

(* What a record ahead of a place is, when the orders of the keys agree.   *)
LEMMA AfterMeans ==
    ASSUME DrainInv, KeysApart, QueryTypeOK, bytewise => MaxSeq < Radix,
           NEW p \in Nat \X Nat, kind = "bdb" => p[1] <= MaxSeq, NEW x \in View
    PROVE  /\ x \in Recs /\ x[1] \in Nat
           /\ kind = "bdb" => x[1] <= MaxSeq
           /\ x[1] # 0 => x \in MessageRecs /\ x[2][1] \in Nat /\ x[2][1] > 0
           /\ kind # "redis" /\ x[1] # 0 => x[2][1] <= text
           /\ After(p, x) <=> p[1] < x[1] \/ (p[1] = x[1] /\ x[1] # 0 /\ p[2] < x[2][1])
<1>1. x \in Recs /\ x[1] \in Nat /\ p[1] \in Nat
  BY RecSort DEF View, DrainInv, PutTypeOK, QueryTypeOK
<1>2. x[1] # 0 => x \in MessageRecs /\ x[2][1] \in Nat /\ x[2][1] > 0
  BY <1>1, RecSort, RecShape DEF Positive
<1>3. kind # "redis" => x \in Held
  BY DEF View, Held
<1>4. kind = "bdb" => x[1] <= MaxSeq
  BY <1>3 DEF KeysApart
<1>5. kind # "redis" /\ x[1] # 0 => x[2][1] <= text
  BY <1>3 DEF KeysApart, IsControl
<1>6. KeyLess(p[1], x[1]) <=> p[1] < x[1]
  BY <1>1, <1>4, KeyOrder DEF KeysApart
<1>7. After(p, x) <=> p[1] < x[1] \/ (p[1] = x[1] /\ x[1] # 0 /\ p[2] < x[2][1])
  BY <1>6 DEF After
<1> QED
  BY <1>1, <1>2, <1>4, <1>5, <1>7

(* A step of a query leaves no record of its range behind.                 *)
LEMMA NextWalks ==
    ASSUME DrainInv, CoverInv, KeysApart, QueryTypeOK, Walking, GetNext,
           bytewise => MaxSeq < Radix
    PROVE  QueryTypeOK' /\ Walking'
<1> DEFINE p == query.pos
           g == query.given
<1>1. PICK x \in Ahead :
         /\ NextRecord(x) /\ x[1] # 0 /\ x[1] <= query.finish
         /\ query' = [query EXCEPT !.given = Append(@, x),
                                   !.pos = <<x[1], IF kind = "redis" THEN x[2][1] ELSE text + 1>>]
  BY DEF GetNext
<1>2. /\ query.on /\ ~query.told
      /\ UNCHANGED <<kind, up, bytewise, db, queue, half, text>>
      /\ Reach' = Reach /\ owes' = owes
  BY DEF GetNext, session, Reach, owes
<1>3. up /\ DistinctKeys(View) /\ Reached /\ Ascending /\ Remaining
  BY <1>2 DEF Walking
<1>4. p \in Nat \X Nat /\ g \in Seq(MessageRecs) /\ text \in Nat /\ MaxSeq \in Nat
      /\ (kind = "bdb" => p[1] <= MaxSeq)
  BY <1>3, PersisterAssumption DEF QueryTypeOK, DrainInv, PutTypeOK, Reached
<1>5. x \in View /\ After(p, x)
  BY <1>1 DEF Ahead
<1> DEFINE t == IF kind = "redis" THEN x[2][1] ELSE text + 1
<1>6. /\ x \in MessageRecs /\ x[1] \in Nat /\ x[2][1] \in Nat
      /\ kind = "bdb" => x[1] <= MaxSeq
      /\ p[1] < x[1] \/ (p[1] = x[1] /\ p[2] < x[2][1])
      /\ t \in Nat
  BY <1>1, <1>4, <1>5, AfterMeans
<1>7. /\ query'.given = Append(g, x) /\ query'.pos = <<x[1], t>> /\ query'.snap = query.snap
      /\ query'.want = query.want /\ query'.finish = query.finish /\ query'.on = query.on
      /\ query'.told = query.told
  BY <1>1 DEF QueryTypeOK
<1>8. QueryTypeOK'
  <2>1. Append(g, x) \in Seq(MessageRecs) /\ <<x[1], t>> \in Nat \X Nat
    BY <1>4, <1>6
  <2> HIDE DEF g, t
  <2>2. query' = [query EXCEPT !.given = Append(g, x), !.pos = <<x[1], t>>]
    BY <1>1 DEF g, t
  <2> QED
    BY <1>2, <2>1, <2>2 DEF QueryTypeOK
<1>9. View' = View
  BY <1>2, <1>7 DEF View
<1> DEFINE n == Len(g)
<1>10. /\ n \in Nat /\ DOMAIN g = 1 .. n /\ DOMAIN query'.given = 1 .. n + 1
       /\ query'.given[n + 1] = x /\ \A i \in 1 .. n : query'.given[i] = g[i]
       /\ query'.given # <<>>
  BY <1>4, <1>6, <1>7
<1>11. query'.pos[1] = x[1] /\ query'.pos[2] = t
  BY <1>7
<1>12. g # <<>> => p[1] < x[1]
  <2> SUFFICES ASSUME g # <<>>, p[1] = x[1], p[2] < x[2][1] PROVE FALSE
    BY <1>6
  <2>1. x[2][1] <= p[2]
    BY <1>3, <1>5 DEF Reached, View, Held
  <2> QED
    BY <1>4, <1>6, <2>1
<1>13. \A i \in DOMAIN g : g[i][1] < x[1]
  <2> SUFFICES ASSUME NEW i \in DOMAIN g PROVE g[i][1] < x[1]
    OBVIOUS
  <2>1. g[i][1] <= p[1] /\ g[i][1] \in Nat
    BY <1>3, <1>4, RecShape DEF Ascending, Positive
  <2>2. g # <<>>
    BY <1>4
  <2> QED
    BY <1>4, <1>6, <1>12, <2>1, <2>2
<1> HIDE DEF g, n, p
<1>14. Ascending'
  <2>1. ASSUME NEW i \in DOMAIN query'.given, NEW j \in DOMAIN query'.given, i < j
        PROVE  query'.given[i][1] < query'.given[j][1]
    <3>1. i \in DOMAIN g /\ query'.given[i] = g[i]
      BY <1>10, <2>1
    <3>2. CASE j = n + 1
      BY <1>10, <1>13, <3>1, <3>2
    <3>3. CASE j # n + 1
      <4>1. j \in DOMAIN g /\ query'.given[j] = g[j]
        BY <1>10, <3>3
      <4> QED
        BY <1>3, <2>1, <3>1, <4>1 DEF Ascending, g
    <3> QED
      BY <3>2, <3>3
  <2>2. ASSUME NEW i \in DOMAIN query'.given PROVE query'.given[i][1] <= x[1]
    <3>1. CASE i = n + 1
      BY <1>6, <1>10, <3>1
    <3>2. CASE i # n + 1
      <4>1. i \in DOMAIN g /\ query'.given[i] = g[i]
        BY <1>10, <3>2
      <4>2. g[i] \in MessageRecs
        BY <1>4, <4>1
      <4> QED
        BY <1>6, <1>13, <4>1, <4>2, RecShape DEF Positive
    <3> QED
      BY <3>1, <3>2
  <2> QED
    BY <1>11, <2>1, <2>2 DEF Ascending
<1>15. Reached'
  <2>1. kind \notin {"memory", "redis"} => x[1] <= Reach /\ (owes \/ x[1] < Reach)
    <3> SUFFICES ASSUME kind \notin {"memory", "redis"} PROVE x[1] <= Reach /\ (owes \/ x[1] < Reach)
      OBVIOUS
    <3>1. x \in Held
      BY <1>5 DEF View, Held
    <3> QED
      BY <1>1, <1>3, <3>1 DEF CoverInv, Bounded, IsControl
  <2>2. CASE kind = "redis"
    <3>1. \A y \in query.snap : y[1] = x[1] => y = x
      BY <1>3, <1>5, <2>2 DEF View, DistinctKeys
    <3>2. x[2][1] <= t
      BY <1>6, <2>2
    <3> QED
      BY <1>1, <1>2, <1>7, <1>10, <1>11, <2>2, <3>1, <3>2 DEF Reached
  <2>3. CASE kind # "redis"
    <3>1. ASSUME NEW y \in Held, y[1] = x[1] PROVE y[2][1] <= t
      <4>1. ~IsControl(y) /\ y \in MessageRecs
        BY <1>1, <3>1, HeldRecs, RecSort DEF IsControl, DrainInv
      <4>2. y[2][1] <= text /\ y[2][1] \in Nat
        BY <3>1, <4>1, RecShape DEF KeysApart, Positive
      <4> QED
        BY <1>4, <2>3, <4>2
    <3>2. Held' = Held
      BY <1>2 DEF Held, Queued
    <3>3. \A y \in Held' : y[1] = x[1] => y[2][1] <= t
      BY <3>1, <3>2
    <3> QED
      BY <1>1, <1>2, <1>6, <1>10, <1>11, <2>1, <2>3, <3>3 DEF Reached
  <2> QED
    BY <2>2, <2>3
<1>16. Remaining'
  <2> SUFFICES ASSUME NEW k \in KeysOf(query.want)
               PROVE  \/ Given(k)'
                      \/ /\ ~query.told /\ k # 0 /\ k \in KeysOf(View) /\ k <= query.finish
                         /\ x[1] < k
    BY <1>7, <1>9, <1>11 DEF Remaining, KeysOf
  <2>1. CASE Given(k)
    <3>1. PICK i \in DOMAIN g : g[i][1] = k
      BY <2>1 DEF Given, g
    <3>2. i \in DOMAIN query'.given /\ query'.given[i][1] = k
      BY <1>10, <3>1
    <3> QED
      BY <3>2 DEF Given
  <2>2. CASE /\ ~query.told /\ k # 0 /\ k \in KeysOf(View) /\ k <= query.finish
             /\ p[1] < k \/ (p[1] = k /\ g = <<>>)
    <3>1. PICK z \in View : z[1] = k
      BY <2>2 DEF KeysOf
    <3>2. z[1] \in Nat /\ z[2][1] \in Nat /\ z[2][1] > 0
          /\ (After(p, z) <=> p[1] < z[1] \/ (p[1] = z[1] /\ z[1] # 0 /\ p[2] < z[2][1]))
      BY <1>4, <2>2, <3>1, AfterMeans
    <3>3. z \in Ahead
      <4>1. g = <<>> => p[2] = 0
        BY <1>3 DEF Reached, g, p
      <4> QED
        BY <2>2, <3>1, <3>2, <4>1 DEF Ahead, p
    <3>4. CASE z = x
      <4>1. n + 1 \in DOMAIN query'.given
        BY <1>10
      <4> QED
        BY <1>10, <3>1, <3>4, <4>1 DEF Given
    <3>5. CASE z # x
      <4>1. After(<<x[1], x[2][1]>>, z)
        BY <1>1, <3>3, <3>5 DEF NextRecord
      <4>2. <<x[1], x[2][1]>> \in Nat \X Nat
        BY <1>6
      <4>3. x[1] < z[1] \/ x[1] = z[1]
        BY <1>6, <4>1, <4>2, AfterMeans
      <4>4. x[1] # z[1]
        BY <1>3, <1>5, <3>5 DEF DistinctKeys
      <4> QED
        BY <2>2, <3>1, <4>3, <4>4
    <3> QED
      BY <3>4, <3>5
  <2> QED
    BY <1>3, <2>1, <2>2 DEF Remaining, g, p
<1>17. DistinctKeys(View)'
  BY <1>3, <1>9 DEF DistinctKeys
<1> QED
  BY <1>2, <1>3, <1>8, <1>14, <1>15, <1>16, <1>17 DEF Walking

(* The last callback comes only when nothing in the range is left.         *)
LEMMA EndWalks ==
    ASSUME DrainInv, CoverInv, KeysApart, QueryTypeOK, Walking, GetEnd,
           bytewise => MaxSeq < Radix
    PROVE  QueryTypeOK' /\ Walking'
<1> DEFINE p == query.pos
<1>1. /\ query.on /\ ~query.told /\ query' = [query EXCEPT !.told = TRUE]
      /\ \A x \in Ahead : NextRecord(x) => x[1] = 0 \/ x[1] > query.finish
      /\ UNCHANGED <<kind, up, bytewise, db, queue, half, text>>
      /\ Reach' = Reach /\ owes' = owes
  BY DEF GetEnd, session, Reach, owes
<1>2. up /\ DistinctKeys(View) /\ Reached /\ Ascending /\ Remaining
  BY <1>1 DEF Walking
<1>3. p \in Nat \X Nat /\ (kind = "bdb" => p[1] <= MaxSeq) /\ query.finish \in Nat
  BY <1>2 DEF QueryTypeOK, Reached
<1>4. QueryTypeOK'
  BY <1>1 DEF QueryTypeOK
<1>5. /\ query'.given = query.given /\ query'.pos = query.pos /\ query'.snap = query.snap
      /\ query'.want = query.want /\ query'.finish = query.finish /\ query'.on = query.on
  BY <1>1 DEF QueryTypeOK
<1>6. View' = View /\ Held' = Held
  BY <1>1, <1>5 DEF View, Held, Queued
<1>7. Reached' /\ Ascending' /\ DistinctKeys(View)'
  BY <1>1, <1>2, <1>5, <1>6 DEF Reached, Ascending, DistinctKeys
<1>8. ASSUME NEW k \in KeysOf(query.want), ~Given(k) PROVE FALSE
  <2>1. /\ k # 0 /\ k \in KeysOf(View) /\ k <= query.finish
        /\ p[1] < k \/ (p[1] = k /\ query.given = <<>>)
    BY <1>2, <1>8 DEF Remaining
  <2>2. PICK z \in View : z[1] = k
    BY <2>1 DEF KeysOf
  <2>3. z \in Ahead
    <3>1. z[1] \in Nat /\ z[2][1] \in Nat /\ z[2][1] > 0
          /\ (After(p, z) <=> p[1] < z[1] \/ (p[1] = z[1] /\ z[1] # 0 /\ p[2] < z[2][1]))
      BY <1>3, <2>1, <2>2, AfterMeans
    <3>2. query.given = <<>> => p[2] = 0
      BY <1>2 DEF Reached
    <3> QED
      BY <2>1, <2>2, <3>1, <3>2 DEF Ahead
  <2> DEFINE K == KeysOf(Ahead)
  <2>4. K \in SUBSET Nat /\ K # {}
    <3>1. \A y \in Ahead : y[1] \in Nat
      BY <1>3, AfterMeans DEF Ahead
    <3> QED
      BY <2>3, <3>1 DEF KeysOf
  <2>5. PICK m \in K : \A j \in K : m <= j
    BY <2>4, LeastNumber
  <2>6. PICK y \in Ahead : y[1] = m
    BY <2>5 DEF KeysOf
  <2>7. y \in View /\ After(p, y)
    BY <2>6 DEF Ahead
  <2>8. /\ y[1] \in Nat /\ (kind = "bdb" => y[1] <= MaxSeq)
        /\ y[1] # 0 => y[2][1] \in Nat
        /\ y[1] # 0
    <3>1. /\ y[1] \in Nat /\ (kind = "bdb" => y[1] <= MaxSeq)
          /\ y[1] # 0 => y[2][1] \in Nat
          /\ p[1] < y[1] \/ (p[1] = y[1] /\ y[1] # 0 /\ p[2] < y[2][1])
      BY <1>3, <2>7, AfterMeans
    <3> QED
      BY <1>3, <3>1
  <2>9. NextRecord(y)
    <3> SUFFICES ASSUME NEW w \in Ahead \ {y} PROVE After(<<y[1], y[2][1]>>, w)
      BY <2>6, <2>8 DEF NextRecord
    <3>1. w \in View /\ w[1] \in K
      BY DEF Ahead, KeysOf
    <3>2. w[1] # y[1]
      BY <1>2, <2>7, <3>1 DEF DistinctKeys
    <3>3. y[1] < w[1]
      BY <2>4, <2>5, <2>6, <3>1, <3>2
    <3>4. <<y[1], y[2][1]>> \in Nat \X Nat
      BY <2>8
    <3> QED
      BY <2>8, <3>1, <3>3, <3>4, AfterMeans
  <2>10. y[1] <= k
    BY <2>2, <2>3, <2>5, <2>6 DEF KeysOf
  <2>11. k \in Nat
    BY <2>2, <2>3, <2>4 DEF KeysOf
  <2>12. y[1] > query.finish
    BY <1>1, <2>6, <2>8, <2>9
  <2> QED
    BY <1>3, <2>1, <2>8, <2>10, <2>11, <2>12
<1>9. Remaining'
  BY <1>5, <1>8 DEF Remaining, Given, KeysOf
<1> QED
  BY <1>1, <1>2, <1>4, <1>7, <1>9 DEF Walking

(* Nothing is asked initially.                                             *)
LEMMA QueryInit == Init => QueryInv
<1> SUFFICES ASSUME Init PROVE QueryInv
  OBVIOUS
<1>1. QueryTypeOK
  <2>1. <<>> \in Seq(MessageRecs) /\ <<0, 0>> \in Nat \X Nat
    OBVIOUS
  <2> QED
    BY <2>1 DEF Init, QueryTypeOK, NoQuery
<1>2. KeysApart
  BY DEF Init, KeysApart, DistinctKeys, Held, Queued
<1>3. Walking
  BY DEF Init, Walking, NoQuery
<1> QED
  BY <1>1, <1>2, <1>3 DEF QueryInv

(* Every step keeps what a query in progress has done and has to do.       *)
LEMMA QueryStep ==
    ASSUME "bdb" \in Kinds => MaxSeq < Radix
    PROVE  DrainInv /\ NumbersInv /\ CoverInv /\ QueryInv /\ [Next]_vars => QueryInv'
<1> SUFFICES ASSUME DrainInv, NumbersInv, CoverInv, QueryInv, [Next]_vars PROVE QueryInv'
  OBVIOUS
<1>1. KeysApart'
  BY KeysApartStep DEF QueryInv
<1> SUFFICES QueryTypeOK' /\ Walking'
  BY <1>1 DEF QueryInv
<1>2. QueryTypeOK /\ KeysApart /\ Walking /\ DistinctKeys(db)
      /\ (bytewise => MaxSeq < Radix)
  BY DEF QueryInv, QueryTypeOK, KeysApart
<1>3. snd \in Nat /\ Reach \in Nat /\ (query.on => query.pos[1] \in Nat)
  BY <1>2 DEF DrainInv, PutTypeOK, Positive, QueryTypeOK, Reach
<1>4. CASE PutMessage
  <2>1. query' = query /\ kind' = kind /\ up' = up /\ (kind = "memory" => ~query.on)
        /\ ~owes /\ owes' /\ Reach' = snd /\ Reach = snd
    BY <1>4 DEF PutMessage, MayPut, owes, Reach
  <2>2. /\ \A x \in Held' : x \in Held \/ x[1] = snd
        /\ DistinctKeys(db')
        /\ KeysOf(db) \subseteq KeysOf(db') \/ kind = "redis"
    BY <1>2, <1>4, PutMessageKeeps
  <2>3. query.on /\ kind \notin {"memory", "redis"} /\ query.given # <<>> =>
           query.pos[1] < snd /\ query.pos[1] <= snd /\ query.pos[1] # snd
    <3> SUFFICES ASSUME query.on, kind \notin {"memory", "redis"}, query.given # <<>>
                 PROVE  query.pos[1] < snd /\ query.pos[1] <= snd /\ query.pos[1] # snd
      OBVIOUS
    <3>1. query.pos[1] < snd
      BY <1>2, <2>1 DEF Walking, Reached
    <3> QED
      BY <1>3, <3>1
  <2>4. Walking'
    BY <1>2, <2>1, <2>2, <2>3, KeptWalks
  <2> QED
    BY <1>2, <2>1, <2>4 DEF QueryTypeOK
<1>5. CASE PutControl
  <2>1. /\ \A x \in Held' : x \in Held \/ x[1] = 0
        /\ DistinctKeys(db')
        /\ KeysOf(db) \ {0} \subseteq KeysOf(db')
        /\ up' = up /\ kind' = kind /\ query' = query
        /\ (kind = "memory" => ~query.on)
        /\ Reach <= Reach' /\ (owes => owes' \/ Reach < Reach')
    BY <1>2, <1>5, PutControlKeeps
  <2>2. query.on /\ kind \notin {"memory", "redis"} /\ query.given # <<>> =>
           /\ query.pos[1] <= Reach' /\ (owes' \/ query.pos[1] < Reach')
           /\ query.pos[1] # 0
    <3> SUFFICES ASSUME query.on, kind \notin {"memory", "redis"}, query.given # <<>>
                 PROVE  /\ query.pos[1] <= Reach' /\ (owes' \/ query.pos[1] < Reach')
                        /\ query.pos[1] # 0
      OBVIOUS
    <3>1. query.pos[1] <= Reach /\ (owes \/ query.pos[1] < Reach) /\ query.pos[1] # 0
      BY <1>2 DEF Walking, Reached
    <3>2. Reach' \in Nat
      BY PutTypeStep DEF DrainInv, PutTypeOK, Positive, Reach
    <3> QED
      BY <1>3, <2>1, <3>1, <3>2
  <2>3. Walking'
    BY <1>2, <2>1, <2>2, KeptWalks
  <2> QED
    BY <1>2, <2>1, <2>3 DEF QueryTypeOK
<1>6. CASE ZAdd
  <2>1. kind = "redis" /\ query' = query /\ kind' = kind /\ up' = up
    BY <1>2, <1>6, ZAddKeeps DEF ZAdd
  <2>2. Walking'
    BY <1>2, <2>1, KeptWalks
  <2> QED
    BY <1>2, <2>1, <2>2 DEF QueryTypeOK
<1>7. CASE WorkerWrites
  <2>1. /\ Held' \subseteq Held /\ DistinctKeys(db') /\ KeysOf(db) \subseteq KeysOf(db')
        /\ kind = "bdb"
    BY <1>2, <1>7, WorkerKeeps
  <2>2. UNCHANGED <<query, kind, up>> /\ Reach' = Reach /\ owes' = owes
    BY <1>7 DEF WorkerWrites, session, Reach, owes
  <2>3. query.on /\ query.given # <<>> =>
           query.pos[1] <= Reach' /\ (owes' \/ query.pos[1] < Reach')
    BY <1>2, <2>1, <2>2 DEF Walking, Reached
  <2>4. Walking'
    BY <1>2, <2>1, <2>2, <2>3, KeptWalks
  <2> QED
    BY <1>2, <2>2, <2>4 DEF QueryTypeOK
<1>8. CASE GetStart
  BY <1>2, <1>8, StartWalks DEF QueryTypeOK
<1>9. CASE GetNext
  BY <1>2, <1>9, NextWalks
<1>10. CASE GetEnd
  BY <1>2, <1>10, EndWalks
<1>11. CASE GetReturns \/ Crash
  <2>1. query' = NoQuery /\ kind' = kind
    BY <1>11 DEF GetReturns, Crash
  <2>2. <<>> \in Seq(MessageRecs) /\ <<0, 0>> \in Nat \X Nat
    OBVIOUS
  <2> QED
    BY <1>2, <2>1, <2>2 DEF QueryTypeOK, Walking, NoQuery
<1>12. CASE Open \/ Recover \/ StopBegins
  <2>1. ~query.on /\ query' = query /\ kind' = kind
    BY <1>2, <1>12 DEF Open, Recover, StopBegins, Walking
  <2> QED
    BY <1>2, <2>1 DEF QueryTypeOK, Walking
<1>13. CASE Count \/ SessionStop
  <2>1. /\ UNCHANGED <<query, kind, up, db>> /\ Reach' = Reach /\ owes' = owes
        /\ queue \in Seq(Recs \cup {None}) /\ queue' \in {queue, Append(queue, None)}
    <3>1. CASE Count
      BY <3>1 DEF Count, Reach, owes, DrainInv, PutTypeOK
    <3>2. CASE SessionStop
      BY <3>2 DEF SessionStop, session, Reach, owes, DrainInv, PutTypeOK
    <3> QED
      BY <1>13, <3>1, <3>2
  <2>2. \A i \in DOMAIN queue' : queue'[i] # None => i \in DOMAIN queue /\ queue'[i] = queue[i]
    BY <2>1
  <2>3. Queued' \subseteq Queued
    BY <2>2 DEF Queued
  <2>4. Held' \subseteq Held
    BY <2>1, <2>3 DEF Held
  <2>5. query.on => up /\ DistinctKeys(View)' /\ Ascending' /\ Remaining'
    BY <1>2, <2>1 DEF Walking, View, DistinctKeys, Ascending, Remaining, Given, KeysOf
  <2>6. query.on => Reached'
    BY <1>2, <2>1, <2>4 DEF Walking, Reached
  <2> QED
    BY <1>2, <2>1, <2>5, <2>6 DEF QueryTypeOK, Walking
<1>14. CASE UNCHANGED vars
  BY <1>2, <1>14 DEF vars, session, Reach, owes, QueryTypeOK, Walking, DistinctKeys, View, Reached,
      Held, Queued, Ascending, Remaining, Given
<1> QED
  BY <1>4, <1>5, <1>6, <1>7, <1>8, <1>9, <1>10, <1>11, <1>12, <1>13, <1>14 DEF Next, PutControl

(* While the keys fit a byte, or no Berkeley database is used, a query     *)
(* hands over in ascending order every message the store held when it      *)
(* began, though the session and the worker go on writing under it: the    *)
(* get of each of the four persisters ends only past the last of them.     *)
(* Nothing is killed between two redis commands, no session starts over a  *)
(* queue and no receipt is recorded before a number sent is counted.       *)
THEOREM QueriesAreComplete ==
    ASSUME ~Tearing, ~Overtaking, ~Racing, "bdb" \in Kinds => MaxSeq < Radix
    PROVE  Spec => []QueryComplete
<1>1. Init => DrainInv /\ NumbersInv /\ CoverInv /\ QueryInv
  BY DrainInit, NumbersInit, CoverInit, QueryInit
<1>2. DrainInv /\ NumbersInv /\ CoverInv /\ QueryInv /\ [Next]_vars
         => (DrainInv /\ NumbersInv /\ CoverInv /\ QueryInv)'
  BY DrainStep, NumbersStep, CoverStep, QueryStep
<1>3. QueryInv => QueryComplete
  BY DEF QueryInv, Walking, Ascending, Remaining, Given, QueryComplete
<1> QED
  BY <1>1, <1>2, <1>3, PTL DEF Spec

=============================================================================
