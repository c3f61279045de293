---------------------------- MODULE LoggerProofs ----------------------------
(***************************************************************************)
(* What a logger keeps is in order and told apart, for any threads, any    *)
(* number of lines, rotations and flushes.  The inductive invariant says   *)
(* of every line kept that it is older than the line in hand and than all  *)
(* that is queued, that its number has been given out, and that its        *)
(* thread, while it lives, still has its letter.                           *)
(***************************************************************************)
EXTENDS Logger, WellFoundedInduction, TLAPS

Lines == [tid: Threads, text: Nat, in: BOOLEAN, num: Nat, code: Nat]

LoggerTypeOK ==
    /\ mode \in [sys: {"ff", "tbb"}, buffer: BOOLEAN, append: BOOLEAN,
                 direction: BOOLEAN, rotnum: Nat]
    /\ queue \in Seq(Lines) /\ cur \in Lines
    /\ worker \in {"top", "pop", "stamp", "write", "ended"}
    /\ seqs \in [{1, 2} -> Nat]
    /\ codes \in [Threads -> Nat] /\ alive \subseteq Threads
    /\ buf \in Seq(Lines) /\ flushing \in BOOLEAN
    /\ DOMAIN files \subseteq Nat /\ files \in [DOMAIN files -> Seq(Lines)]
    /\ opened => 0 \in DOMAIN files
    /\ lines \in Nat

(* The counter that numbers a line.                                        *)
Counter(l) == IF mode.direction /\ ~l.in THEN 2 ELSE 1

(* The logging thread has a line in hand.                                  *)
Holding == worker \in {"stamp", "write"}

(* Line l has been enqueued, and before all that is still queued.          *)
Dequeued(l) ==
    /\ l.text \in 1 .. lines
    /\ l.in => mode.direction
    /\ \A i \in DOMAIN queue : queue[i].text # 0 => l.text < queue[i].text

(* Line l has been numbered and marked.                                    *)
Stamped(l) ==
    /\ l.num <= seqs[Counter(l)]
    /\ l.code # 0 /\ l.tid \in alive => codes[l.tid] = l.code

(* Line l has been written.                                                *)
Written(l) ==
    /\ Dequeued(l) /\ Stamped(l)
    /\ Holding => l.text < cur.text
    /\ worker = "write" /\ cur.in = l.in => l.num < cur.num

(* The lines in the queue are in the order of their enqueueing.            *)
QueueOrdered ==
    /\ \A i \in DOMAIN queue : queue[i].text <= lines /\ (queue[i].in => mode.direction)
    /\ \A i, j \in DOMAIN queue :
          i < j /\ queue[i].text # 0 /\ queue[j].text # 0 => queue[i].text < queue[j].text

(* The line in hand.                                                       *)
InHand ==
    /\ Holding => Dequeued(cur)
    /\ worker = "write" => Stamped(cur)

(* No two threads have the same letter.                                    *)
CodesUnique ==
    /\ \A t \in Threads : codes[t] # 0 => codes[t] \in taken
    /\ \A t, u \in Threads : codes[t] # 0 /\ codes[t] = codes[u] => t = u

FilesWritten == \A f \in DOMAIN files : \A i \in DOMAIN files[f] : Written(files[f][i])

BufferWritten == \A i \in DOMAIN buf : Written(buf[i])

AllWritten == FilesWritten /\ BufferWritten

Older(a, b) == a.text < b.text /\ (a.in = b.in => a.num < b.num)

SeqOrdered(q) == \A i, j \in DOMAIN q : i < j => Older(q[i], q[j])

AllOlder(q, r) == \A i \in DOMAIN q, j \in DOMAIN r : Older(q[i], r[j])

FilesOrdered ==
    /\ \A f \in DOMAIN files : SeqOrdered(files[f])
    /\ \A f, g \in DOMAIN files : f > g => AllOlder(files[f], files[g])

BufferOrdered ==
    /\ ~flushing => SeqOrdered(buf) /\ \A f \in DOMAIN files : AllOlder(files[f], buf)
    /\ ~mode.buffer => buf = <<>>

LoggerInv ==
    /\ LoggerTypeOK
    /\ QueueOrdered
    /\ InHand
    /\ CodesUnique
    /\ AllWritten
    /\ FilesOrdered
    /\ BufferOrdered

(* A set of natural numbers has a least element.                           *)
LEMMA LeastOf ==
    ASSUME NEW S, S \subseteq Nat, S # {}
    PROVE  \E d \in S : \A e \in S : d <= e
<1> DEFINE R == {p \in Nat \X Nat : p[1] < p[2]}
<1>1. IsWellFoundedOn(R, Nat)
  BY NatLessThanWellFounded DEF OpToRel
<1> HIDE DEF R
<1>2. PICK d \in S : \A e \in S : <<e, d>> \notin R
  BY <1>1, WFMin
<1>3. ASSUME NEW e \in S
      PROVE  d <= e
  <2>1. d \in Nat /\ e \in Nat /\ <<e, d>> \in Nat \X Nat /\ <<e, d>> \notin R
    BY <1>2
  <2>2. ~ (e < d)
    BY <2>1 DEF R
  <2> QED
    BY <2>1, <2>2
<1> QED
  BY <1>3

(* The elements of the queue are lines.                                    *)
LEMMA ElementType ==
    /\ \A t \in Threads, n \in Nat, in \in BOOLEAN : Element(t, n, in) \in Lines
    /\ Empty \in Lines
<1>1. \A t \in Threads, n \in Nat, in \in BOOLEAN : Element(t, n, in) \in Lines
  BY DEF Element, Lines
<1>2. (CHOOSE t \in Threads : TRUE) \in Threads
  BY LoggerAssumption
<1> QED
  BY <1>1, <1>2 DEF Empty

(* get_thread_code finds a letter or none.                                 *)
LEMMA ThreadCodeType ==
    ASSUME LoggerTypeOK, NEW t \in Threads
    PROVE  /\ ThreadCode(t) \in Nat
           /\ codes[t] # 0 => ThreadCode(t) = codes[t]
           /\ codes[t] = 0 => ThreadCode(t) \notin taken \/ ThreadCode(t) = 0
<1> DEFINE free == (1 .. Codes) \ taken
<1> DEFINE c == CHOOSE c \in free : \A d \in free : c <= d
<1>1. codes[t] \in Nat
  BY DEF LoggerTypeOK
<1>2. CASE codes[t] # 0
  BY <1>1, <1>2 DEF ThreadCode
<1>3. CASE codes[t] = 0 /\ free = {}
  BY <1>3 DEF ThreadCode
<1>4. CASE codes[t] = 0 /\ free # {}
  <2>1. Codes \in Nat /\ free \subseteq Nat
    BY LoggerAssumption
  <2>3. \E d \in free : \A e \in free : d <= e
    BY <1>4, <2>1, LeastOf
  <2>4. c \in free
    BY <2>3
  <2> QED
    BY <1>4, <2>1, <2>4 DEF ThreadCode
<1> QED
  BY <1>1, <1>2, <1>3, <1>4

(* A step that leaves the files and the buffer alone keeps their order,    *)
(* and what is written there stays written if every written line does.     *)
LEMMA StorageFrame ==
    ASSUME LoggerInv, UNCHANGED <<mode, files, buf, flushing>>,
           \A l \in Lines : Written(l) => Written(l)'
    PROVE  AllWritten' /\ FilesOrdered' /\ BufferOrdered'
<1>1. /\ \A f \in DOMAIN files : \A i \in DOMAIN files[f] : files[f][i] \in Lines
      /\ \A i \in DOMAIN buf : buf[i] \in Lines
  BY DEF LoggerInv, LoggerTypeOK
<1>2. AllWritten'
  BY <1>1 DEF LoggerInv, AllWritten, FilesWritten, BufferWritten
<1> QED
  BY <1>2 DEF LoggerInv, FilesOrdered, BufferOrdered

(* A step that leaves the queue, the logging thread and the letters alone. *)
LEMMA ThreadFrame ==
    ASSUME LoggerInv, UNCHANGED <<mode, queue, worker, cur, seqs, codes, taken, alive, lines>>
    PROVE  /\ QueueOrdered' /\ InHand' /\ CodesUnique'
           /\ \A l : Written(l)' = Written(l)
<1>1. /\ \A l : Counter(l)' = Counter(l)
      /\ Holding' = Holding
  BY DEF Counter, Holding
<1>2. \A l : Dequeued(l)' = Dequeued(l) /\ Stamped(l)' = Stamped(l)
  BY <1>1 DEF Dequeued, Stamped
<1>3. \A l : Written(l)' = Written(l)
  BY <1>1, <1>2 DEF Written
<1>4. InHand'
  BY <1>1, <1>2 DEF LoggerInv, InHand
<1> QED
  BY <1>3, <1>4 DEF LoggerInv, QueueOrdered, CodesUnique

(* The elements of a sequence and of one with an element more.             *)
LEMMA AppendFacts ==
    ASSUME NEW S, NEW q \in Seq(S), NEW e \in S
    PROVE  /\ \A i \in DOMAIN q : q[i] \in S
           /\ \A i \in DOMAIN q : i \in Nat
           /\ Len(q) \in Nat
           /\ Append(q, e) \in Seq(S)
           /\ DOMAIN Append(q, e) = DOMAIN q \cup {Len(q) + 1}
           /\ \A i \in DOMAIN q : Append(q, e)[i] = q[i] /\ i < Len(q) + 1
           /\ Append(q, e)[Len(q) + 1] = e
<1>1. Len(q) \in Nat /\ DOMAIN q = 1 .. Len(q) /\ DOMAIN Append(q, e) = 1 .. Len(q) + 1
  OBVIOUS
<1>2. 1 .. Len(q) + 1 = (1 .. Len(q)) \cup {Len(q) + 1}
  BY <1>1
<1> QED
  BY <1>1, <1>2

(* An element put at the end of the queue is either younger than all or    *)
(* empty.                                                                  *)
LEMMA AppendOrdered ==
    ASSUME LoggerInv, NEW e \in Lines, queue' = Append(queue, e),
           UNCHANGED <<mode, worker, cur, seqs, codes, taken, alive>>,
           lines' \in Nat, lines <= lines',
           e.text = 0 \/ (e.text = lines' /\ lines < lines'), e.in => mode.direction
    PROVE  /\ queue' \in Seq(Lines) /\ QueueOrdered' /\ InHand' /\ CodesUnique'
           /\ \A l \in Lines : Written(l) => Written(l)'
<1>1. /\ queue \in Seq(Lines) /\ lines \in Nat /\ e.text \in Nat /\ cur \in Lines
      /\ \A l \in Lines : l.text \in Nat
  BY DEF LoggerInv, LoggerTypeOK, Lines
<1>2. queue' \in Seq(Lines)
  BY <1>1
<1>3. /\ \A i \in DOMAIN queue : queue[i] \in Lines /\ queue[i].text \in Nat
      /\ \A i \in DOMAIN queue : i \in Nat
      /\ DOMAIN queue' = DOMAIN queue \cup {Len(queue) + 1}
      /\ \A i \in DOMAIN queue : queue'[i] = queue[i] /\ i < Len(queue) + 1
      /\ queue'[Len(queue) + 1] = e /\ Len(queue) \in Nat
  BY <1>1, AppendFacts
<1>4. QueueOrdered'
  <2>1. ASSUME NEW i \in DOMAIN queue'
        PROVE  queue'[i].text <= lines' /\ (queue'[i].in => mode'.direction)
    BY <1>1, <1>3 DEF LoggerInv, QueueOrdered
  <2>2. ASSUME NEW i \in DOMAIN queue', NEW j \in DOMAIN queue', i < j,
               queue'[i].text # 0, queue'[j].text # 0
        PROVE  queue'[i].text < queue'[j].text
    <3>1. i \in DOMAIN queue
      BY <1>3, <2>2
    <3>2. CASE j \in DOMAIN queue
      BY <1>3, <2>2, <3>1, <3>2 DEF LoggerInv, QueueOrdered
    <3>3. CASE j = Len(queue) + 1
      <4>1. queue[i].text <= lines
        BY <3>1 DEF LoggerInv, QueueOrdered
      <4> QED
        BY <1>1, <1>3, <2>2, <3>1, <3>3, <4>1
    <3> QED
      BY <1>3, <3>2, <3>3
  <2> QED
    BY <2>1, <2>2 DEF QueueOrdered
<1>5. ASSUME NEW l \in Lines, Dequeued(l)
      PROVE  Dequeued(l)'
  <2>1. l.text \in 1 .. lines' /\ l.text < lines' + 1
    BY <1>1, <1>5 DEF Dequeued
  <2>2. ASSUME NEW i \in DOMAIN queue', queue'[i].text # 0
        PROVE  l.text < queue'[i].text
    BY <1>1, <1>3, <1>5, <2>2 DEF Dequeued
  <2> QED
    BY <1>5, <2>1, <2>2 DEF Dequeued
<1>6. \A l : Stamped(l)' = Stamped(l)
  BY DEF Stamped, Counter
<1>7. Holding' = Holding
  BY DEF Holding
<1>8. InHand'
  <2>1. Dequeued(cur) => Dequeued(cur)'
    BY <1>1, <1>5 DEF Dequeued
  <2> QED
    BY <1>6, <1>7, <2>1 DEF LoggerInv, InHand
<1>9. \A l \in Lines : Written(l) => Written(l)'
  BY <1>5, <1>6, <1>7 DEF Written
<1> QED
  BY <1>2, <1>4, <1>8, <1>9 DEF LoggerInv, CodesUnique

(* Enqueueing a line, and stopping the logger, keep the invariant.         *)
LEMMA QueueSteps ==
    ASSUME LoggerInv, (\E t \in Threads : enqueue(t)) \/ StopBegins
    PROVE  LoggerInv'
<1>1. CASE StopBegins
  <2>1. Empty \in Lines /\ Empty.text = 0 /\ Empty.in = FALSE
    BY ElementType DEF Empty, Element
  <2>2. lines \in Nat /\ lines' = lines
    BY <1>1 DEF LoggerInv, LoggerTypeOK, StopBegins
  <2>3. /\ queue' \in Seq(Lines) /\ QueueOrdered' /\ InHand' /\ CodesUnique'
        /\ \A l \in Lines : Written(l) => Written(l)'
    BY <1>1, <2>1, <2>2, AppendOrdered DEF StopBegins
  <2>4. LoggerTypeOK'
    BY <1>1, <2>3 DEF LoggerInv, LoggerTypeOK, StopBegins
  <2>5. AllWritten' /\ FilesOrdered' /\ BufferOrdered'
    BY <1>1, <2>3, StorageFrame DEF StopBegins
  <2> QED
    BY <2>3, <2>4, <2>5 DEF LoggerInv
<1>2. ASSUME NEW t \in Threads, enqueue(t)
      PROVE  LoggerInv'
  <2>1. PICK n \in {lines + 1} \cup (IF EmptyLines THEN {0} ELSE {}), in \in BOOLEAN :
           /\ in => mode.direction
           /\ queue' = Append(queue, Element(t, n, in))
    BY <1>2 DEF enqueue
  <2> DEFINE e == Element(t, n, in)
  <2>2. /\ lines \in Nat /\ lines' = lines + 1 /\ lines' \in Nat /\ lines < lines'
        /\ n \in Nat /\ (n = 0 \/ n = lines')
    BY <1>2, <2>1 DEF LoggerInv, LoggerTypeOK, enqueue
  <2>3. e \in Lines /\ e.text = n /\ e.in = in
    BY <2>2, ElementType DEF Element
  <2> HIDE DEF e
  <2>4. queue' = Append(queue, e)
    BY <2>1 DEF e
  <2>5. /\ queue' \in Seq(Lines) /\ QueueOrdered' /\ InHand' /\ CodesUnique'
        /\ \A l \in Lines : Written(l) => Written(l)'
    BY <1>2, <2>1, <2>2, <2>3, <2>4, AppendOrdered DEF enqueue
  <2>6. LoggerTypeOK'
    BY <1>2, <2>2, <2>5 DEF LoggerInv, LoggerTypeOK, enqueue
  <2>7. AllWritten' /\ FilesOrdered' /\ BufferOrdered'
    BY <1>2, <2>5, StorageFrame DEF enqueue
  <2> QED
    BY <2>5, <2>6, <2>7 DEF LoggerInv
<1> QED
  BY <1>1, <1>2

(* A thread that ends and the freeing of letters: the letters of the       *)
(* living stay as they are.                                                *)
LEMMA LetterSteps ==
    ASSUME LoggerInv, (\E t \in Threads : ThreadEnds(t)) \/ purge_thread_codes
    PROVE  LoggerInv'
<1>1. /\ UNCHANGED <<mode, queue, worker, cur, seqs, lines, files, buf, flushing, opened>>
      /\ alive' \subseteq alive
      /\ \A t \in alive : codes'[t] = codes[t]
      /\ codes' \in [Threads -> Nat]
  BY DEF ThreadEnds, purge_thread_codes, LoggerInv, LoggerTypeOK
<1>2. LoggerTypeOK'
  BY <1>1 DEF LoggerInv, LoggerTypeOK
<1>3. CodesUnique'
  <2>1. CASE \E t \in Threads : ThreadEnds(t)
    BY <2>1 DEF LoggerInv, CodesUnique, ThreadEnds
  <2>2. CASE purge_thread_codes
    <3>1. \A t \in Threads : codes'[t] # 0 => t \in alive /\ codes'[t] = codes[t]
      BY <2>2 DEF purge_thread_codes
    <3>2. ASSUME NEW t \in Threads, codes'[t] # 0
          PROVE  codes'[t] \in taken'
      <4>1. codes[t] \in taken /\ t \in alive /\ codes[t] # 0
        BY <3>1, <3>2 DEF LoggerInv, CodesUnique
      <4>2. \A u \in Threads \ alive : codes[u] # codes[t]
        BY <4>1 DEF LoggerInv, CodesUnique
      <4> QED
        BY <2>2, <3>1, <3>2, <4>1, <4>2 DEF purge_thread_codes
    <3>3. ASSUME NEW t \in Threads, NEW u \in Threads, codes'[t] # 0, codes'[t] = codes'[u]
          PROVE  t = u
      BY <3>1, <3>3 DEF LoggerInv, CodesUnique
    <3> QED
      BY <3>2, <3>3 DEF CodesUnique
  <2> QED
    BY <2>1, <2>2
<1>4. \A l : /\ Dequeued(l)' = Dequeued(l)
             /\ Stamped(l) => Stamped(l)'
  <2>1. \A l : Counter(l)' = Counter(l)
    BY <1>1 DEF Counter
  <2> QED
    BY <1>1, <2>1 DEF Dequeued, Stamped
<1>5. Holding' = Holding /\ QueueOrdered'
  BY <1>1 DEF Holding, LoggerInv, QueueOrdered
<1>6. InHand'
  <2>1. Dequeued(cur)' = Dequeued(cur) /\ (Stamped(cur) => Stamped(cur)')
    BY <1>1, <1>4
  <2> QED
    BY <1>1, <1>5, <2>1 DEF LoggerInv, InHand
<1>7. \A l \in Lines : Written(l) => Written(l)'
  BY <1>1, <1>4, <1>5 DEF Written
<1>8. AllWritten' /\ FilesOrdered' /\ BufferOrdered'
  BY <1>1, <1>7, StorageFrame
<1> QED
  BY <1>2, <1>3, <1>5, <1>6, <1>8 DEF LoggerInv

(* The steps of the logging thread between two lines.                      *)
LEMMA IdleSteps ==
    ASSUME LoggerInv, LoopTop \/ PopEmpty \/ StopJoins
    PROVE  LoggerInv'
<1>1. CASE StopJoins
  <2>1. /\ UNCHANGED <<mode, queue, worker, cur, seqs, codes, taken, alive, lines>>
        /\ UNCHANGED <<files, buf, flushing, opened>>
    BY <1>1 DEF StopJoins
  <2>2. LoggerTypeOK'
    BY <2>1 DEF LoggerInv, LoggerTypeOK
  <2> QED
    BY <2>1, <2>2, ThreadFrame, StorageFrame DEF LoggerInv
<1>2. CASE LoopTop \/ PopEmpty
  <2>1. /\ UNCHANGED <<mode, queue, cur, seqs, codes, taken, alive, lines>>
        /\ UNCHANGED <<files, buf, flushing, opened>>
        /\ worker' \in {"top", "pop", "ended"}
    BY <1>2 DEF LoopTop, PopEmpty
  <2>2. LoggerTypeOK'
    BY <2>1 DEF LoggerInv, LoggerTypeOK
  <2>3. ~Holding' /\ worker' # "write"
    BY <2>1 DEF Holding
  <2>4. \A l : Dequeued(l)' = Dequeued(l) /\ Stamped(l)' = Stamped(l)
    BY <2>1 DEF Dequeued, Stamped, Counter
  <2>5. \A l \in Lines : Written(l) => Written(l)'
    BY <2>3, <2>4 DEF Written
  <2>6. AllWritten' /\ FilesOrdered' /\ BufferOrdered'
    BY <2>1, <2>5, StorageFrame
  <2>7. InHand'
    BY <2>3 DEF InHand
  <2> QED
    BY <2>1, <2>2, <2>6, <2>7 DEF LoggerInv, QueueOrdered, CodesUnique
<1> QED
  BY <1>1, <1>2

(* The head and the tail of a sequence.                                    *)
LEMMA TailFacts ==
    ASSUME NEW S, NEW q \in Seq(S), q # <<>>
    PROVE  /\ 1 \in DOMAIN q /\ Head(q) = q[1] /\ Head(q) \in S
           /\ Tail(q) \in Seq(S)
           /\ \A i \in DOMAIN Tail(q) : /\ i \in Nat /\ 1 < i + 1
                                        /\ i + 1 \in DOMAIN q
                                        /\ Tail(q)[i] = q[i + 1]
<1>1. Len(q) \in Nat /\ Len(q) # 0 /\ DOMAIN q = 1 .. Len(q)
  OBVIOUS
<1>2. Tail(q) \in Seq(S) /\ DOMAIN Tail(q) = 1 .. Len(q) - 1
  OBVIOUS
<1> QED
  BY <1>1, <1>2

(* The oldest line is taken: it is younger than all that is written and    *)
(* older than what stays in the queue.                                     *)
LEMMA PopStep ==
    ASSUME LoggerInv, Pop
    PROVE  LoggerInv'
<1>1. /\ queue \in Seq(Lines) /\ queue # <<>> /\ cur' = Head(queue) /\ queue' = Tail(queue)
      /\ lines \in Nat
      /\ UNCHANGED <<mode, seqs, codes, taken, alive, lines, files, buf, flushing, opened>>
  BY DEF LoggerInv, LoggerTypeOK, Pop
<1>2. /\ 1 \in DOMAIN queue /\ cur' = queue[1] /\ cur' \in Lines /\ queue' \in Seq(Lines)
      /\ \A i \in DOMAIN queue' : /\ i \in Nat /\ 1 < i + 1 /\ i + 1 \in DOMAIN queue
                                  /\ queue'[i] = queue[i + 1]
  BY <1>1, TailFacts
<1>3. /\ cur'.text # 0 => worker' = "stamp"
      /\ cur'.text = 0 => worker' \in {"ended", "top"}
  BY DEF Pop, LoggerInv, LoggerTypeOK
<1>4. LoggerTypeOK'
  BY <1>1, <1>2, <1>3 DEF LoggerInv, LoggerTypeOK
<1>5. QueueOrdered'
  <2>1. ASSUME NEW i \in DOMAIN queue'
        PROVE  queue'[i].text <= lines' /\ (queue'[i].in => mode'.direction)
    BY <1>1, <1>2 DEF LoggerInv, QueueOrdered
  <2>2. ASSUME NEW i \in DOMAIN queue', NEW j \in DOMAIN queue', i < j,
               queue'[i].text # 0, queue'[j].text # 0
        PROVE  queue'[i].text < queue'[j].text
    <3>1. i + 1 < j + 1
      BY <1>2, <2>2
    <3> QED
      BY <1>2, <2>2, <3>1 DEF LoggerInv, QueueOrdered
  <2> QED
    BY <2>1, <2>2 DEF QueueOrdered
<1>6. Holding' => Dequeued(cur)'
  <2> SUFFICES ASSUME Holding'
               PROVE  Dequeued(cur)'
    OBVIOUS
  <2>1. cur'.text # 0 /\ cur'.text \in Nat
    BY <1>2, <1>3 DEF Holding, Lines
  <2>2. cur'.text <= lines /\ (cur'.in => mode.direction)
    BY <1>2 DEF LoggerInv, QueueOrdered
  <2>3. ASSUME NEW i \in DOMAIN queue', queue'[i].text # 0
        PROVE  cur'.text < queue'[i].text
    BY <1>2, <2>1, <2>3 DEF LoggerInv, QueueOrdered
  <2>4. cur'.text \in 1 .. lines'
    BY <1>1, <2>1, <2>2
  <2> QED
    BY <1>1, <2>2, <2>3, <2>4 DEF Dequeued
<1>7. InHand'
  BY <1>3, <1>6 DEF InHand
<1>8. ASSUME NEW l \in Lines, Written(l)
      PROVE  Written(l)'
  <2>1. Dequeued(l) /\ Stamped(l)
    BY <1>8 DEF Written
  <2>2. Dequeued(l)'
    BY <1>1, <1>2, <2>1 DEF Dequeued
  <2>3. Stamped(l)'
    BY <1>1, <2>1 DEF Stamped, Counter
  <2>4. Holding' => l.text < cur'.text
    BY <1>2, <1>3, <2>1 DEF Dequeued, Holding
  <2> QED
    BY <1>3, <2>2, <2>3, <2>4 DEF Written
<1>9. AllWritten' /\ FilesOrdered' /\ BufferOrdered'
  BY <1>1, <1>8, StorageFrame
<1> QED
  BY <1>1, <1>4, <1>5, <1>7, <1>9 DEF LoggerInv, CodesUnique

(* A line gets a number beyond all given out for its direction, and the    *)
(* letter of its thread.                                                   *)
LEMMA StampStep ==
    ASSUME LoggerInv, Stamp
    PROVE  LoggerInv'
<1> DEFINE k == Counter(cur)
<1> DEFINE c == ThreadCode(cur.tid)
<1>1. /\ worker = "stamp" /\ worker' = "write"
      /\ UNCHANGED <<mode, queue, alive, lines, files, buf, flushing, opened>>
      /\ seqs' = [seqs EXCEPT ![k] = @ + 1]
      /\ codes' = [codes EXCEPT ![cur.tid] = c]
      /\ taken' = taken \cup ({c} \ {0})
      /\ cur' = [cur EXCEPT !.num = seqs'[k], !.code = c]
  BY DEF Stamp, Counter
<1>2. /\ k \in {1, 2} /\ seqs \in [{1, 2} -> Nat] /\ cur \in Lines /\ cur.tid \in Threads
      /\ codes \in [Threads -> Nat] /\ alive \subseteq Threads
  BY DEF LoggerInv, LoggerTypeOK, Counter, Lines
<1>3. /\ c \in Nat /\ (codes[cur.tid] # 0 => c = codes[cur.tid])
      /\ codes[cur.tid] = 0 => c \notin taken \/ c = 0
  BY <1>2, ThreadCodeType DEF LoggerInv
<1> HIDE DEF c
<1>4. /\ seqs'[k] = seqs[k] + 1 /\ seqs' \in [{1, 2} -> Nat]
      /\ \A j \in {1, 2} : seqs[j] \in Nat /\ seqs'[j] \in Nat /\ seqs[j] <= seqs'[j]
      /\ codes' \in [Threads -> Nat] /\ codes'[cur.tid] = c
      /\ \A t \in Threads : t # cur.tid => codes'[t] = codes[t]
  BY <1>1, <1>2, <1>3
<1>5. /\ cur' \in Lines /\ cur'.text = cur.text /\ cur'.in = cur.in /\ cur'.tid = cur.tid
      /\ cur'.num = seqs'[k] /\ cur'.code = c
  BY <1>1, <1>2, <1>3, <1>4 DEF Lines
<1> HIDE DEF k
<1>6. LoggerTypeOK'
  BY <1>1, <1>4, <1>5 DEF LoggerInv, LoggerTypeOK
<1>7. CodesUnique'
  <2>1. \A t \in Threads : codes[t] # 0 => codes[t] \in taken
    BY DEF LoggerInv, CodesUnique
  <2>2. \A t \in Threads : codes'[t] # 0 => codes'[t] \in taken'
    BY <1>1, <1>4, <2>1
  <2>3. ASSUME NEW t \in Threads, t # cur.tid, codes[t] # 0
        PROVE  codes[t] # c
    <3>1. CASE codes[cur.tid] # 0
      BY <1>2, <1>3, <2>3, <3>1 DEF LoggerInv, CodesUnique
    <3>2. CASE codes[cur.tid] = 0
      BY <1>3, <2>1, <2>3, <3>2
    <3> QED
      BY <3>1, <3>2
  <2>4. ASSUME NEW t \in Threads, NEW u \in Threads, codes'[t] # 0, codes'[t] = codes'[u]
        PROVE  t = u
    <3>1. CASE t # cur.tid /\ u # cur.tid
      BY <1>4, <2>4, <3>1 DEF LoggerInv, CodesUnique
    <3>2. CASE t = cur.tid \/ u = cur.tid
      BY <1>4, <2>3, <2>4, <3>2
    <3> QED
      BY <3>1, <3>2
  <2> QED
    BY <2>2, <2>4 DEF CodesUnique
<1>8. Dequeued(cur) /\ Holding
  BY <1>1 DEF LoggerInv, InHand, Holding
<1>9. InHand'
  <2>1. Dequeued(cur)'
    BY <1>1, <1>5, <1>8 DEF Dequeued
  <2>2. (Counter(cur))' = k
    BY <1>1, <1>5 DEF Counter, k
  <2>3. Stamped(cur)'
    BY <1>2, <1>4, <1>5, <2>2 DEF Stamped
  <2> QED
    BY <2>1, <2>3 DEF InHand
<1>10. ASSUME NEW l \in Lines, Written(l)
       PROVE  Written(l)'
  <2>1. Dequeued(l) /\ Stamped(l) /\ l.text < cur.text
    BY <1>8, <1>10 DEF Written
  <2>2. Dequeued(l)'
    BY <1>1, <2>1 DEF Dequeued
  <2>3. Counter(l)' = Counter(l) /\ Counter(l) \in {1, 2}
    BY <1>1 DEF Counter
  <2>4. l.num \in Nat /\ l.num <= seqs[Counter(l)]
    BY <2>1 DEF Stamped, Lines
  <2>5. l.num <= seqs'[Counter(l)]
    BY <1>4, <2>3, <2>4
  <2>6. l.code # 0 /\ l.tid \in alive => codes'[l.tid] = l.code
    <3>1. l.code # 0 /\ l.tid \in alive => codes[l.tid] = l.code /\ l.tid \in Threads
      BY <1>2, <2>1 DEF Stamped
    <3> QED
      BY <1>3, <1>4, <3>1
  <2>7. cur'.in = l.in => l.num < cur'.num
    <3>1. cur'.in = l.in => Counter(l) = k
      BY <1>5 DEF Counter, k
    <3> QED
      BY <1>2, <1>4, <1>5, <2>4, <3>1
  <2> QED
    BY <1>1, <1>5, <2>1, <2>2, <2>3, <2>5, <2>6, <2>7 DEF Written, Stamped
<1>11. AllWritten' /\ FilesOrdered' /\ BufferOrdered'
  BY <1>1, <1>10, StorageFrame
<1> QED
  BY <1>1, <1>6, <1>7, <1>9, <1>11 DEF LoggerInv, QueueOrdered

(* What is appended to an ordered sequence that is older than it.          *)
LEMMA OrderedConcat ==
    ASSUME NEW a \in Seq(Lines), NEW b \in Seq(Lines)
    PROVE  /\ a \o b \in Seq(Lines)
           /\ SeqOrdered(a) /\ SeqOrdered(b) /\ AllOlder(a, b) => SeqOrdered(a \o b)
           /\ \A q : AllOlder(q, a) /\ AllOlder(q, b) => AllOlder(q, a \o b)
           /\ \A i \in DOMAIN (a \o b) :
                 \/ i \in DOMAIN a /\ (a \o b)[i] = a[i]
                 \/ \E j \in DOMAIN b : (a \o b)[i] = b[j]
<1> DEFINE c == a \o b
<1>1. /\ Len(a) \in Nat /\ Len(b) \in Nat /\ c \in Seq(Lines)
      /\ DOMAIN a = 1 .. Len(a) /\ DOMAIN b = 1 .. Len(b) /\ DOMAIN c = 1 .. (Len(a) + Len(b))
  OBVIOUS
<1>2. ASSUME NEW i \in DOMAIN c
      PROVE  /\ i <= Len(a) => i \in DOMAIN a /\ c[i] = a[i]
             /\ i > Len(a) => i - Len(a) \in DOMAIN b /\ c[i] = b[i - Len(a)]
  <2>1. i \in 1 .. (Len(a) + Len(b))
    BY <1>1
  <2>2. i > Len(a) => i - Len(a) \in DOMAIN b
    BY <1>1, <2>1
  <2>3. i > Len(a) => c[i] = b[i - Len(a)]
    BY <1>1, <2>1
  <2>4. i <= Len(a) => i \in DOMAIN a /\ c[i] = a[i]
    BY <1>1, <2>1
  <2> QED
    BY <2>2, <2>3, <2>4
<1>3. \A i \in DOMAIN c : i \in Nat
  BY <1>1
<1> HIDE DEF c
<1>4. \A i \in DOMAIN c : (i \in DOMAIN a /\ c[i] = a[i]) \/ \E j \in DOMAIN b : c[i] = b[j]
  BY <1>1, <1>2, <1>3
<1>5. ASSUME SeqOrdered(a), SeqOrdered(b), AllOlder(a, b)
      PROVE  SeqOrdered(c)
  <2> SUFFICES ASSUME NEW i \in DOMAIN c, NEW j \in DOMAIN c, i < j
               PROVE  Older(c[i], c[j])
    BY DEF SeqOrdered
  <2>1. CASE j <= Len(a)
    <3>1. i <= Len(a)
      BY <1>1, <1>3, <2>1
    <3> QED
      BY <1>2, <1>5, <2>1, <3>1 DEF SeqOrdered
  <2>2. CASE i <= Len(a) /\ j > Len(a)
    BY <1>2, <1>5, <2>2 DEF AllOlder
  <2>3. CASE i > Len(a)
    <3>1. j > Len(a) /\ i - Len(a) < j - Len(a)
      BY <1>1, <1>3, <2>3
    <3> QED
      BY <1>2, <1>5, <2>3, <3>1 DEF SeqOrdered
  <2> QED
    BY <1>1, <1>3, <2>1, <2>2, <2>3
<1>6. \A q : AllOlder(q, a) /\ AllOlder(q, b) => AllOlder(q, c)
  BY <1>4 DEF AllOlder
<1> QED
  BY <1>1, <1>4, <1>5, <1>6 DEF c

(* The log file gets the lines of q, which are younger than all that is    *)
(* filed.                                                                  *)
LEMMA LogGrows ==
    ASSUME LoggerInv, NEW q \in Seq(Lines), 0 \in DOMAIN files,
           files' = [files EXCEPT ![0] = @ \o q], SeqOrdered(q),
           \A f \in DOMAIN files : AllOlder(files[f], q),
           \A l \in Lines : Written(l) => Written(l)',
           \A i \in DOMAIN q : Written(q[i])'
    PROVE  /\ DOMAIN files' = DOMAIN files /\ files' \in [DOMAIN files' -> Seq(Lines)]
           /\ FilesOrdered' /\ FilesWritten'
<1> DEFINE c == files[0] \o q
<1>1. /\ DOMAIN files \subseteq Nat /\ files \in [DOMAIN files -> Seq(Lines)]
      /\ files[0] \in Seq(Lines)
  BY DEF LoggerInv, LoggerTypeOK
<1>2. /\ SeqOrdered(files[0]) /\ \A f \in DOMAIN files : f > 0 => AllOlder(files[f], files[0])
  BY DEF LoggerInv, FilesOrdered
<1>3. /\ c \in Seq(Lines) /\ SeqOrdered(c)
      /\ \A f \in DOMAIN files : f > 0 => AllOlder(files[f], c)
      /\ \A i \in DOMAIN c : (i \in DOMAIN files[0] /\ c[i] = files[0][i])
                                 \/ \E j \in DOMAIN q : c[i] = q[j]
  BY <1>1, <1>2, OrderedConcat
<1> HIDE DEF c
<1>4. /\ DOMAIN files' = DOMAIN files /\ files'[0] = c
      /\ \A f \in DOMAIN files : f # 0 => files'[f] = files[f]
  BY <1>1 DEF c
<1>5. files' \in [DOMAIN files' -> Seq(Lines)]
  BY <1>1, <1>3 DEF c
<1>6. \A f \in DOMAIN files : \A i \in DOMAIN files[f] : files[f][i] \in Lines
                                                           /\ Written(files[f][i])
  BY <1>1 DEF LoggerInv, AllWritten, FilesWritten
<1>7. FilesWritten'
  <2>1. ASSUME NEW f \in DOMAIN files', NEW i \in DOMAIN files'[f]
        PROVE  \/ \E l \in Lines : Written(l) /\ files'[f][i] = l
               \/ \E j \in DOMAIN q : files'[f][i] = q[j]
    <3>1. CASE f = 0
      BY <1>3, <1>4, <1>6, <3>1
    <3>2. CASE f # 0
      BY <1>4, <1>6, <3>2
    <3> QED
      BY <3>1, <3>2
  <2> QED
    BY <2>1 DEF FilesWritten
<1>8. FilesOrdered'
  <2>1. \A f \in DOMAIN files' : SeqOrdered(files'[f])
    BY <1>3, <1>4 DEF LoggerInv, FilesOrdered
  <2>2. ASSUME NEW f \in DOMAIN files', NEW g \in DOMAIN files', f > g
        PROVE  AllOlder(files'[f], files'[g])
    <3>1. f # 0
      BY <1>1, <1>4, <2>2
    <3> QED
      BY <1>3, <1>4, <2>2, <3>1 DEF LoggerInv, FilesOrdered
  <2> QED
    BY <2>1, <2>2 DEF FilesOrdered, SeqOrdered, AllOlder, Older
<1> QED
  BY <1>4, <1>5, <1>7, <1>8

(* The write, into the buffer or into the file.                            *)
LEMMA WriteStep ==
    ASSUME LoggerInv, Write
    PROVE  LoggerInv'
<1> DEFINE w == <<cur>>
<1>1. /\ worker = "write" /\ worker' = "top" /\ Holding /\ ~Holding'
      /\ UNCHANGED <<mode, queue, cur, seqs, codes, taken, alive, lines, flushing, opened>>
  BY DEF Write, Holding
<1>2. /\ cur \in Lines /\ buf \in Seq(Lines) /\ files \in [DOMAIN files -> Seq(Lines)]
      /\ Dequeued(cur) /\ Stamped(cur) /\ mode.buffer \in BOOLEAN
  BY <1>1 DEF LoggerInv, LoggerTypeOK, InHand
<1>3. \A l : Dequeued(l)' = Dequeued(l) /\ Stamped(l)' = Stamped(l)
  BY <1>1 DEF Dequeued, Stamped, Counter
<1>4. /\ \A l \in Lines : Written(l) => Written(l)'
      /\ \A l \in Lines : l = cur => Written(l)'
  BY <1>1, <1>2, <1>3 DEF Written
<1>5. \A l \in Lines : Written(l) => Older(l, cur)
  BY <1>1 DEF Written, Older
<1>6. /\ \A f \in DOMAIN files : \A i \in DOMAIN files[f] :
            files[f][i] \in Lines /\ Written(files[f][i])
      /\ \A i \in DOMAIN buf : buf[i] \in Lines /\ Written(buf[i])
  BY <1>2 DEF LoggerInv, AllWritten, FilesWritten, BufferWritten
<1>7. /\ w \in Seq(Lines) /\ DOMAIN w = {1} /\ w[1] = cur /\ SeqOrdered(w)
      /\ \A f \in DOMAIN files : AllOlder(files[f], w)
      /\ AllOlder(buf, w)
      /\ \A i \in DOMAIN w : w[i] \in Lines /\ w[i] = cur
  <2>1. w \in Seq(Lines) /\ DOMAIN w = {1} /\ w[1] = cur
    BY <1>2
  <2> HIDE DEF w
  <2> QED
    BY <1>2, <1>5, <1>6, <2>1 DEF SeqOrdered, AllOlder
<1>8. /\ \A q \in Seq(Lines) : Append(q, cur) = q \o w
      /\ \A i \in DOMAIN w : Written(w[i])'
  BY <1>1, <1>2, <1>4, <1>7
<1> HIDE DEF w
<1>9. QueueOrdered' /\ CodesUnique' /\ InHand'
  BY <1>1 DEF LoggerInv, QueueOrdered, CodesUnique, InHand
<1>10. CASE mode.buffer
  <2>1. buf' = buf \o w /\ UNCHANGED files
    BY <1>2, <1>8, <1>10 DEF Write
  <2>2. /\ buf' \in Seq(Lines)
        /\ SeqOrdered(buf) => SeqOrdered(buf \o w)
        /\ \A f \in DOMAIN files : AllOlder(files[f], buf) => AllOlder(files[f], buf \o w)
        /\ \A i \in DOMAIN (buf \o w) : \/ i \in DOMAIN buf /\ (buf \o w)[i] = buf[i]
                                        \/ \E j \in DOMAIN w : (buf \o w)[i] = w[j]
    BY <1>2, <1>7, <2>1, OrderedConcat
  <2>3. LoggerTypeOK'
    BY <1>1, <2>1, <2>2 DEF LoggerInv, LoggerTypeOK
  <2>4. BufferWritten'
    <3>1. ASSUME NEW i \in DOMAIN buf'
          PROVE  \E l \in Lines : Written(l)' /\ buf'[i] = l
      BY <1>4, <1>6, <1>7, <2>1, <2>2
    <3> QED
      BY <3>1 DEF BufferWritten
  <2>5. FilesWritten' /\ FilesOrdered'
    BY <1>4, <1>6, <2>1 DEF LoggerInv, FilesOrdered, FilesWritten
  <2>6. BufferOrdered'
    <3>1. ~flushing => SeqOrdered(buf \o w) /\ \A f \in DOMAIN files : AllOlder(files[f], buf \o w)
      BY <2>2 DEF LoggerInv, BufferOrdered
    <3> QED
      BY <1>1, <1>10, <2>1, <3>1 DEF BufferOrdered
  <2> QED
    BY <1>9, <2>3, <2>4, <2>5, <2>6 DEF LoggerInv, AllWritten
<1>11. CASE ~mode.buffer /\ opened
  <2>1. buf' = buf /\ buf = <<>> /\ 0 \in DOMAIN files /\ files[0] \in Seq(Lines)
    BY <1>2, <1>11 DEF Write, LoggerInv, LoggerTypeOK, BufferOrdered
  <2>2. files' = [files EXCEPT ![0] = files[0] \o w]
    BY <1>8, <1>11, <2>1 DEF Write
  <2>3. /\ DOMAIN files' = DOMAIN files /\ files' \in [DOMAIN files' -> Seq(Lines)]
        /\ FilesOrdered' /\ FilesWritten'
    BY <1>4, <1>7, <1>8, <2>1, <2>2, LogGrows
  <2>4. LoggerTypeOK'
    BY <1>1, <2>1, <2>3 DEF LoggerInv, LoggerTypeOK
  <2>5. BufferWritten' /\ BufferOrdered'
    BY <2>1 DEF BufferWritten, BufferOrdered, SeqOrdered, AllOlder
  <2> QED
    BY <1>9, <2>3, <2>4, <2>5 DEF LoggerInv, AllWritten
<1>12. CASE ~mode.buffer /\ ~opened
  <2>1. UNCHANGED <<files, buf>>
    BY <1>12 DEF Write
  <2>2. LoggerTypeOK'
    BY <1>1, <2>1 DEF LoggerInv, LoggerTypeOK
  <2>3. AllWritten' /\ FilesOrdered' /\ BufferOrdered'
    BY <1>1, <1>4, <2>1, StorageFrame
  <2> QED
    BY <1>9, <2>2, <2>3 DEF LoggerInv
<1> QED
  BY <1>2, <1>10, <1>11, <1>12

(* flush writes the buffer to the log, then clears it.                     *)
LEMMA FlushSteps ==
    ASSUME LoggerInv, Flush \/ FlushClears
    PROVE  LoggerInv'
<1>1. /\ UNCHANGED <<mode, queue, worker, cur, seqs, codes, taken, alive, lines, opened>>
  BY DEF Flush, FlushClears
<1>2. /\ QueueOrdered' /\ InHand' /\ CodesUnique' /\ \A l : Written(l)' = Written(l)
  BY <1>1, ThreadFrame
<1>3. CASE FlushClears
  <2>1. buf' = <<>> /\ flushing' = FALSE /\ UNCHANGED files /\ <<>> \in Seq(Lines)
    BY <1>3 DEF FlushClears
  <2>2. LoggerTypeOK'
    BY <1>1, <2>1 DEF LoggerInv, LoggerTypeOK
  <2>3. BufferWritten' /\ BufferOrdered'
    BY <2>1 DEF BufferWritten, BufferOrdered, SeqOrdered, AllOlder
  <2>4. FilesWritten' /\ FilesOrdered'
    BY <1>2, <2>1 DEF LoggerInv, AllWritten, FilesWritten, FilesOrdered
  <2> QED
    BY <1>2, <2>2, <2>3, <2>4 DEF LoggerInv, AllWritten
<1>4. CASE Flush
  <2>1. /\ ~flushing /\ flushing' = TRUE /\ UNCHANGED buf /\ buf \in Seq(Lines) /\ mode.buffer
        /\ SeqOrdered(buf) /\ \A f \in DOMAIN files : AllOlder(files[f], buf)
        /\ \A i \in DOMAIN buf : Written(buf[i])
        /\ files' = IF opened THEN [files EXCEPT ![0] = @ \o buf] ELSE files
    BY <1>4 DEF Flush, LoggerInv, LoggerTypeOK, AllWritten, BufferWritten, BufferOrdered
  <2>2. BufferWritten' /\ BufferOrdered'
    BY <1>1, <1>2, <2>1 DEF BufferWritten, BufferOrdered
  <2>3. CASE opened
    <3>1. 0 \in DOMAIN files
      BY <2>3 DEF LoggerInv, LoggerTypeOK
    <3>2. files' = [files EXCEPT ![0] = @ \o buf]
      BY <2>1, <2>3
    <3>3. \A q \in Seq(Lines) : q = buf => \A i \in DOMAIN q : Written(q[i])'
      BY <1>2, <2>1
    <3>4. /\ DOMAIN files' = DOMAIN files /\ files' \in [DOMAIN files' -> Seq(Lines)]
          /\ FilesOrdered' /\ FilesWritten'
      <4>1. PICK q \in Seq(Lines) : q = buf
        BY <2>1
      <4> QED
        BY <1>2, <2>1, <3>1, <3>2, <3>3, <4>1, LogGrows
    <3>5. LoggerTypeOK'
      BY <1>1, <2>1, <3>4 DEF LoggerInv, LoggerTypeOK
    <3> QED
      BY <1>2, <2>2, <3>4, <3>5 DEF LoggerInv, AllWritten
  <2>4. CASE ~opened
    <3>1. UNCHANGED files
      BY <2>1, <2>4
    <3>2. LoggerTypeOK'
      BY <1>1, <2>1, <3>1 DEF LoggerInv, LoggerTypeOK
    <3>3. FilesWritten' /\ FilesOrdered'
      BY <1>2, <3>1 DEF LoggerInv, AllWritten, FilesWritten, FilesOrdered
    <3> QED
      BY <1>2, <2>2, <3>2, <3>3 DEF LoggerInv, AllWritten
  <2> QED
    BY <2>3, <2>4
<1> QED
  BY <1>3, <1>4

(* Files that are renamed in order, dropped or emptied.                    *)
LEMMA FilesMoved ==
    ASSUME LoggerInv, NEW D \in SUBSET Nat, NEW from \in [D -> Int], DOMAIN files' = D,
           files' = [f \in D |-> files'[f]],
           \A f \in D : files'[f] = <<>> \/ (from[f] \in DOMAIN files /\ files'[f] = files[from[f]]),
           \A f, g \in D : f > g => from[f] > from[g],
           opened' => 0 \in D,
           UNCHANGED <<mode, queue, worker, cur, seqs, codes, taken, alive, lines, buf, flushing>>
    PROVE  LoggerInv'
<1>1. /\ QueueOrdered' /\ InHand' /\ CodesUnique' /\ \A l : Written(l)' = Written(l)
  BY ThreadFrame
<1>2. \A f \in D : files'[f] \in Seq(Lines)
  <2>1. <<>> \in Seq(Lines) /\ \A g \in DOMAIN files : files[g] \in Seq(Lines)
    BY DEF LoggerInv, LoggerTypeOK
  <2> QED
    BY <2>1
<1>3. LoggerTypeOK'
  BY <1>2 DEF LoggerInv, LoggerTypeOK
<1>4. \A f \in D : \A i \in DOMAIN files'[f] :
         from[f] \in DOMAIN files /\ files'[f] = files[from[f]]
  OBVIOUS
<1>5. FilesWritten'
  BY <1>1, <1>4 DEF LoggerInv, AllWritten, FilesWritten
<1>6. FilesOrdered'
  <2>1. ASSUME NEW f \in D
        PROVE  SeqOrdered(files'[f])
    BY <1>4 DEF LoggerInv, FilesOrdered, SeqOrdered
  <2>2. ASSUME NEW f \in D, NEW g \in D, f > g
        PROVE  AllOlder(files'[f], files'[g])
    BY <1>4, <2>2 DEF LoggerInv, FilesOrdered, AllOlder
  <2> QED
    BY <2>1, <2>2 DEF FilesOrdered
<1>7. BufferWritten'
  BY <1>1 DEF LoggerInv, AllWritten, BufferWritten
<1>8. BufferOrdered'
  <2>1. ASSUME NEW f \in D, ~flushing
        PROVE  AllOlder(files'[f], buf)
    BY <1>4, <2>1 DEF LoggerInv, BufferOrdered, AllOlder
  <2> QED
    BY <2>1 DEF LoggerInv, BufferOrdered
<1> QED
  BY <1>1, <1>3, <1>5, <1>6, <1>7, <1>8 DEF LoggerInv, AllWritten

(* Renaming keeps the order of the files and frees the name of the log.    *)
LEMMA RenamedFacts ==
    ASSUME LoggerInv, mode.rotnum > 0
    PROVE  LET D == DOMAIN Renamed
               from == [f \in D |-> IF f - 1 \in DOMAIN files THEN f - 1 ELSE f]
           IN  /\ Renamed = [f \in D |-> Renamed[f]]
               /\ D \subseteq Nat /\ 0 \notin D
               /\ from \in [D -> Nat]
               /\ \A f \in D : from[f] \in DOMAIN files /\ Renamed[f] = files[from[f]]
               /\ \A f, g \in D : f > g => from[f] > from[g]
<1> DEFINE n == mode.rotnum
<1> DEFINE moved == {i + 1 : i \in DOMAIN files \cap (0 .. n - 1)}
<1> DEFINE D == moved \cup ({n} \cap DOMAIN files)
<1> DEFINE from == [f \in D |-> IF f - 1 \in DOMAIN files THEN f - 1 ELSE f]
<1>1. n \in Nat /\ n > 0 /\ DOMAIN files \subseteq Nat
  BY DEF LoggerInv, LoggerTypeOK
<1>2. \A f : f \in moved <=> f \in 1 .. n /\ f - 1 \in DOMAIN files
  BY <1>1
<1>3. Renamed = [f \in D |-> IF f \in moved THEN files[f - 1] ELSE files[f]]
  BY DEF Renamed
<1> HIDE DEF n, moved
<1>4. \A f \in D : f \in 1 .. n /\ (f \in moved <=> f - 1 \in DOMAIN files)
                       /\ (f \notin moved => f = n /\ f \in DOMAIN files)
  BY <1>1, <1>2
<1> HIDE DEF D
<1>5. DOMAIN Renamed = D /\ Renamed = [f \in D |-> Renamed[f]]
  BY <1>3
<1>6. D \subseteq Nat /\ 0 \notin D
  BY <1>1, <1>4
<1>7. ASSUME NEW f \in D
      PROVE  from[f] \in Nat /\ from[f] \in DOMAIN files /\ Renamed[f] = files[from[f]]
  BY <1>1, <1>3, <1>4
<1>8. ASSUME NEW f \in D, NEW g \in D, f > g
      PROVE  from[f] > from[g]
  <2>1. f \in Nat /\ g \in Nat /\ f <= n /\ g <= n
    BY <1>1, <1>4
  <2>2. g - 1 \in DOMAIN files
    BY <1>1, <1>4, <1>8, <2>1
  <2> QED
    BY <1>8, <2>1, <2>2
<1>9. from \in [D -> Nat]
  BY <1>7
<1> QED
  BY <1>5, <1>6, <1>7, <1>8, <1>9

(* rotate.                                                                 *)
LEMMA RotateStep ==
    ASSUME LoggerInv, NEW force \in BOOLEAN, rotate(force)
    PROVE  LoggerInv'
<1> DEFINE kept == IF mode.rotnum > 0 /\ (~mode.append \/ force) THEN Renamed ELSE files
<1> DEFINE log == IF mode.append /\ 0 \in DOMAIN kept THEN kept[0] ELSE <<>>
<1>1. \/ /\ opened' = TRUE
         /\ files' = [i \in DOMAIN kept \cup {0} |-> IF i = 0 THEN log ELSE kept[i]]
      \/ /\ opened' = FALSE
         /\ files' = kept
  BY DEF rotate
<1>2. UNCHANGED <<mode, queue, worker, cur, seqs, codes, taken, alive, lines, buf, flushing>>
  BY DEF rotate
<1>3. DOMAIN files \subseteq Nat /\ files = [f \in DOMAIN files |-> files[f]]
  BY DEF LoggerInv, LoggerTypeOK
<1>4. CASE mode.rotnum > 0 /\ (~mode.append \/ force)
  <2> DEFINE D == DOMAIN Renamed
  <2> DEFINE o == [f \in D |-> IF f - 1 \in DOMAIN files THEN f - 1 ELSE f]
  <2> DEFINE E == IF opened' THEN D \cup {0} ELSE D
  <2> DEFINE from == [f \in E |-> IF f = 0 THEN -1 ELSE o[f]]
  <2>1. /\ Renamed = [f \in D |-> Renamed[f]]
        /\ D \subseteq Nat /\ 0 \notin D /\ o \in [D -> Nat]
        /\ \A f \in D : o[f] \in DOMAIN files /\ Renamed[f] = files[o[f]]
        /\ \A f, g \in D : f > g => o[f] > o[g]
    BY <1>4, RenamedFacts
  <2> HIDE DEF D, o
  <2>2. kept = Renamed /\ log = <<>>
    BY <1>4, <2>1 DEF D
  <2> HIDE DEF kept, log
  <2>3. /\ DOMAIN files' = E /\ files' = [f \in E |-> files'[f]]
        /\ \A f \in E : files'[f] = IF f = 0 THEN <<>> ELSE Renamed[f]
    BY <1>1, <2>1, <2>2 DEF D
  <2>4. E \in SUBSET Nat /\ \A f \in E : f = 0 \/ f \in D
    BY <2>1
  <2>5. opened' => 0 \in E
    OBVIOUS
  <2> HIDE DEF E
  <2>6. from \in [E -> Int] /\ \A f, g \in E : f > g => from[f] > from[g]
    BY <2>1, <2>4
  <2>7. \A f \in E : files'[f] = <<>> \/ (from[f] \in DOMAIN files /\ files'[f] = files[from[f]])
    BY <2>1, <2>3, <2>4
  <2> HIDE DEF from
  <2> QED
    BY <1>2, <2>3, <2>4, <2>5, <2>6, <2>7, FilesMoved
<1>5. CASE ~(mode.rotnum > 0 /\ (~mode.append \/ force))
  <2> DEFINE E == IF opened' THEN DOMAIN files \cup {0} ELSE DOMAIN files
  <2> DEFINE from == [f \in E |-> f]
  <2>1. kept = files /\ (log = <<>> \/ (0 \in DOMAIN files /\ log = files[0]))
    BY <1>5
  <2> HIDE DEF kept, log
  <2>2. /\ DOMAIN files' = E /\ files' = [f \in E |-> files'[f]]
        /\ \A f \in E : \/ files'[f] = <<>>
                        \/ f \in DOMAIN files /\ files'[f] = files[f]
    BY <1>1, <1>3, <2>1
  <2>3. E \in SUBSET Nat /\ (opened' => 0 \in E)
    BY <1>3
  <2> HIDE DEF E
  <2>4. /\ from \in [E -> Int] /\ \A f, g \in E : f > g => from[f] > from[g]
        /\ \A f \in E : from[f] = f
    BY <2>3
  <2>5. \A f \in E : files'[f] = <<>> \/ (from[f] \in DOMAIN files /\ files'[f] = files[from[f]])
    BY <2>2, <2>4
  <2> HIDE DEF from
  <2> QED
    BY <1>2, <2>2, <2>3, <2>4, <2>5, FilesMoved
<1> QED
  BY <1>4, <1>5

(* The inductive invariant holds of every behaviour.                       *)
LEMMA LoggerAlways == Spec => []LoggerInv
<1>1. Init => LoggerInv
  <2> SUFFICES ASSUME Init
               PROVE  LoggerInv
    OBVIOUS
  <2>1. /\ DOMAIN files = {0} /\ files[0] = <<>> /\ queue = <<>> /\ buf = <<>>
        /\ <<>> \in Seq(Lines) /\ files = [i \in {0} |-> <<>>]
    BY DEF Init
  <2>2. <<0, 0>> \in [{1, 2} -> Nat]
    <3>1. <<0, 0>> \in [1 .. 2 -> Nat] /\ 1 .. 2 = {1, 2}
      OBVIOUS
    <3> QED
      BY <3>1
  <2>3. mode \in [sys: {"ff", "tbb"}, buffer: BOOLEAN, append: BOOLEAN,
                  direction: BOOLEAN, rotnum: Nat]
    BY LoggerAssumption DEF Init
  <2>4. LoggerTypeOK
    BY <2>1, <2>2, <2>3, ElementType DEF Init, LoggerTypeOK
  <2>5. QueueOrdered /\ AllWritten /\ FilesOrdered /\ BufferOrdered
    BY <2>1 DEF QueueOrdered, AllWritten, FilesWritten, BufferWritten, FilesOrdered,
        BufferOrdered, SeqOrdered, AllOlder
  <2>6. InHand /\ CodesUnique
    BY DEF Init, InHand, Holding, CodesUnique
  <2> QED
    BY <2>4, <2>5, <2>6 DEF LoggerInv
<1>2. LoggerInv /\ [Next]_vars => LoggerInv'
  <2> SUFFICES ASSUME LoggerInv, [Next]_vars
               PROVE  LoggerInv'
    OBVIOUS
  <2>1. CASE \E t \in Threads : enqueue(t) \/ ThreadEnds(t)
    BY <2>1, QueueSteps, LetterSteps
  <2>2. CASE purge_thread_codes
    BY <2>2, LetterSteps
  <2>3. CASE StopBegins
    BY <2>3, QueueSteps
  <2>4. CASE StopJoins \/ LoopTop \/ PopEmpty
    BY <2>4, IdleSteps
  <2>5. CASE Pop
    BY <2>5, PopStep
  <2>6. CASE Stamp
    BY <2>6, StampStep
  <2>7. CASE Write
    BY <2>7, WriteStep
  <2>8. CASE Flush \/ FlushClears
    BY <2>8, FlushSteps
  <2>9. CASE \E force \in BOOLEAN : rotate(force)
    BY <2>9, RotateStep
  <2>10. CASE UNCHANGED vars
    <3>1. UNCHANGED <<mode, queue, worker, cur, seqs, codes, taken, alive, lines, files, buf,
                      flushing, opened>>
      BY <2>10 DEF vars
    <3>2. LoggerTypeOK'
      BY <3>1 DEF LoggerInv, LoggerTypeOK
    <3> QED
      BY <3>1, <3>2, ThreadFrame, StorageFrame DEF LoggerInv
  <2> QED
    BY <2>1, <2>2, <2>3, <2>4, <2>5, <2>6, <2>7, <2>8, <2>9, <2>10 DEF Next
<1> QED
  BY <1>1, <1>2, PTL DEF Spec

(* The lines kept, from the oldest file to the buffer, are in the order of *)
(* their enqueueing and of their numbers, and a letter tells the threads   *)
(* apart that are alive, for any threads, letters, lines, rotations,       *)
(* flushes and files that cannot be opened.                                *)
THEOREM LogAlwaysFaithful == Spec => []LogFaithful
<1>1. LoggerInv => LogFaithful
  <2> SUFFICES ASSUME LoggerInv, NEW f \in Volumes, NEW g \in Volumes,
                      NEW i \in DOMAIN Volume(f), NEW j \in DOMAIN Volume(g),
                      f > g \/ (f = g /\ i < j)
               PROVE  LET a == Volume(f)[i]
                          b == Volume(g)[j]
                      IN  /\ a.text < b.text
                          /\ a.in = b.in => a.num < b.num
                          /\ a.code = b.code /\ a.code # 0 /\ a.tid # b.tid
                                 => ~ ({a.tid, b.tid} \subseteq alive)
    BY DEF LogFaithful
  <2> DEFINE a == Volume(f)[i]
  <2> DEFINE b == Volume(g)[j]
  <2>1. DOMAIN files \subseteq Nat /\ -1 \notin DOMAIN files
    BY DEF LoggerInv, LoggerTypeOK
  <2>2. ASSUME NEW h \in Volumes, NEW k \in DOMAIN Volume(h)
        PROVE  Written(Volume(h)[k]) /\ Volume(h)[k] \in Lines
    <3>1. CASE h # -1
      BY <2>2, <3>1 DEF Volumes, Volume, LoggerInv, LoggerTypeOK, AllWritten, FilesWritten
    <3>2. CASE h = -1
      BY <2>2, <3>2 DEF Volumes, Volume, LoggerInv, LoggerTypeOK, AllWritten, BufferWritten
    <3> QED
      BY <3>1, <3>2
  <2>3. Older(a, b)
    <3>1. CASE f = g
      <4>1. SeqOrdered(Volume(f))
        BY <2>1 DEF Volumes, Volume, LoggerInv, LoggerTypeOK, FilesOrdered, BufferOrdered, SeqOrdered
      <4> QED
        BY <3>1, <2>1, <4>1 DEF SeqOrdered, Volumes
    <3>2. CASE f > g
      <4>1. f # -1 /\ f \in DOMAIN files
        BY <2>1, <3>2 DEF Volumes
      <4>2. AllOlder(Volume(f), Volume(g))
        <5>1. CASE g = -1
          BY <4>1, <5>1 DEF Volume, LoggerInv, LoggerTypeOK, BufferOrdered, AllOlder
        <5>2. CASE g # -1
          BY <3>2, <4>1, <5>2 DEF Volumes, Volume, LoggerInv, FilesOrdered
        <5> QED
          BY <5>1, <5>2
      <4> QED
        BY <4>2 DEF AllOlder
    <3> QED
      BY <2>1, <3>1, <3>2
  <2>4. Written(a) /\ Written(b) /\ a.tid \in Threads /\ b.tid \in Threads
    BY <2>2 DEF Lines
  <2> HIDE DEF a, b
  <2>5. a.code = b.code /\ a.code # 0 /\ a.tid \in alive /\ b.tid \in alive => a.tid = b.tid
    BY <2>4 DEF Written, Stamped, LoggerInv, CodesUnique
  <2> QED
    BY <2>3, <2>5 DEF Older, a, b
<1> QED
  BY <1>1, LoggerAlways, PTL

=============================================================================
