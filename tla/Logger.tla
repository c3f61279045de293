------------------------------- MODULE Logger -------------------------------
(***************************************************************************)
(* A file logger (runtime/logger.cpp): threads enqueue lines, one logging  *)
(* thread numbers them, marks them with a letter for the thread they came  *)
(* from and writes them, while other threads rotate the files, flush the   *)
(* buffer, drop the letters of dead threads, or stop the logger.           *)
(*                                                                         *)
(* The queue is first in, first out; the mutex makes rotate, a write, and  *)
(* the look-up of a letter one step each.                                  *)
(***************************************************************************)
EXTENDS Integers, Sequences, FiniteSets

CONSTANTS
    Threads,      \* threads that log
    Codes,        \* letters for threads, as numbers from 1
    Systems,      \* queues the engine is built with: "ff", "tbb"
    RotNums,      \* numbers of files rotate may keep
    Directions,   \* may a line be marked as incoming or outgoing
    EmptyLines,   \* a thread may log an empty text
    MaxLines,     \* lines logged
    MaxRotations, \* calls of rotate
    MaxFlushes    \* calls of flush

ASSUME LoggerAssumption ==
    /\ IsFiniteSet(Threads) /\ Threads # {}
    /\ Codes \in Nat /\ RotNums \subseteq Nat /\ Directions \subseteq BOOLEAN
    /\ Systems \subseteq {"ff", "tbb"}
    /\ EmptyLines \in BOOLEAN
    /\ {MaxLines, MaxRotations, MaxFlushes} \subseteq Nat

VARIABLES
    mode,      \* [sys, buffer, append, direction, rotnum]: the build and the flags
    queue,     \* _msg_queue
    worker,    \* where the logging thread is
    cur,       \* the line it holds
    stopping,  \* the cancellation token
    stopper,   \* the thread in stop(): "no", "joining", "done"
    seqs,      \* <<_sequence, _osequence>>
    codes,     \* _thread_codes, 0 for none
    taken,     \* the letters in _rev_thread_codes
    alive,     \* threads that have not ended
    buf,       \* _buffer
    flushing,  \* flush has written the buffer and not yet cleared it
    files,     \* files[0]: the log, files[i]: its i-th predecessor, where it exists
    opened,    \* the stream can be written to
    lines,     \* lines enqueued so far
    used       \* rotations and flushes made

vars == <<mode, queue, worker, cur, stopping, stopper, seqs, codes, taken, alive, buf, flushing,
          files, opened, lines, used>>

(* A queue element; text 0 is the empty string.                            *)
Element(t, n, in) == [tid |-> t, text |-> n, in |-> in, num |-> 0, code |-> 0]

(* The element stop() wakes the logging thread with.                       *)
Empty == Element(CHOOSE t \in Threads : TRUE, 0, FALSE)

(* The destructors call stop(): nobody calls the logger any more.          *)
InUse == stopper = "no"

Use(c, max) == used[c] < max /\ used' = [used EXCEPT ![c] = @ + 1]

-----------------------------------------------------------------------------
(* The threads that log *)

enqueue(t) ==
    /\ t \in alive /\ InUse
    /\ lines < MaxLines
    /\ lines' = lines + 1
    /\ \E n \in {lines + 1} \cup (IF EmptyLines THEN {0} ELSE {}), in \in BOOLEAN :
          /\ in => mode.direction
          /\ queue' = Append(queue, Element(t, n, in))
    /\ UNCHANGED <<mode, worker, cur, stopping, stopper, seqs, codes, taken, alive, buf, flushing,
                   files, opened, used>>

ThreadEnds(t) ==
    /\ t \in alive
    /\ alive' = alive \ {t}
    /\ UNCHANGED <<mode, queue, worker, cur, stopping, stopper, seqs, codes, taken, buf,
                   flushing, files, opened, lines, used>>

(* The letters of threads that have ended are free again.                  *)
purge_thread_codes ==
    /\ ~flushing /\ InUse
    /\ \E t \in Threads \ alive : codes[t] # 0
    /\ codes' = [t \in Threads |-> IF t \in alive THEN codes[t] ELSE 0]
    /\ taken' = taken \ {codes[t] : t \in Threads \ alive}
    /\ UNCHANGED <<mode, queue, worker, cur, stopping, stopper, seqs, alive, buf, flushing,
                   files, opened, lines, used>>

(* Mutant: stop() only wakes the thread.                                   *)
StopBegins_unasked ==
    /\ stopper = "no"
    /\ stopper' = "joining"
    /\ queue' = IF mode.sys = "ff" THEN queue ELSE Append(queue, Empty)
    /\ UNCHANGED <<mode, worker, cur, stopping, seqs, codes, taken, alive, buf, flushing, files,
                   opened, lines, used>>

(* stop(): the token, an empty element, then the join.                     *)
StopBegins ==
    /\ stopper = "no"
    /\ stopper' = "joining"
    /\ stopping' = TRUE
    /\ queue' = Append(queue, Empty)
    /\ UNCHANGED <<mode, worker, cur, seqs, codes, taken, alive, buf, flushing, files, opened,
                   lines, used>>

StopJoins ==
    /\ stopper = "joining" /\ worker = "ended"
    /\ stopper' = "done"
    /\ UNCHANGED <<mode, queue, worker, cur, stopping, seqs, codes, taken, alive, buf, flushing,
                   files, opened, lines, used>>

-----------------------------------------------------------------------------
(* The logging thread *)

LoopTop ==
    /\ worker = "top"
    /\ worker' = IF stopping THEN "ended" ELSE "pop"
    /\ UNCHANGED <<mode, queue, cur, stopping, stopper, seqs, codes, taken, alive, buf, flushing,
                   files, opened, lines, used>>

(* Mutant: an empty queue ends the thread.                                 *)
PopEmpty_ends ==
    /\ worker = "pop" /\ queue = <<>>
    /\ mode.sys = "tbb" => stopping
    /\ worker' = "ended"
    /\ UNCHANGED <<mode, queue, cur, stopping, stopper, seqs, codes, taken, alive, buf, flushing,
                   files, opened, lines, used>>

(* Nothing queued: the fastflow queue says so, the other one blocks until  *)
(* there is something, unless the logger has been stopped meanwhile.       *)
PopEmpty ==
    /\ worker = "pop" /\ queue = <<>>
    /\ mode.sys = "tbb" => stopping
    /\ worker' = IF mode.sys = "ff" THEN "top" ELSE "ended"
    /\ UNCHANGED <<mode, queue, cur, stopping, stopper, seqs, codes, taken, alive, buf, flushing,
                   files, opened, lines, used>>

(* Mutant: the newest line is taken.                                       *)
Pop_newest ==
    /\ worker = "pop" /\ queue # <<>>
    /\ cur' = queue[Len(queue)]
    /\ queue' = SubSeq(queue, 1, Len(queue) - 1)
    /\ worker' = CASE cur'.text # 0 -> "stamp"
                   [] cur'.text = 0 /\ mode.sys = "ff"  -> "ended"
                   [] cur'.text = 0 /\ mode.sys = "tbb" -> "top"
    /\ UNCHANGED <<mode, stopping, stopper, seqs, codes, taken, alive, buf, flushing, files, opened,
                   lines, used>>

Pop ==
    /\ worker = "pop" /\ queue # <<>>
    /\ cur' = Head(queue)
    /\ queue' = Tail(queue)
    /\ worker' = CASE cur'.text # 0 -> "stamp"
                   [] cur'.text = 0 /\ mode.sys = "ff"  -> "ended"
                   [] cur'.text = 0 /\ mode.sys = "tbb" -> "top"
    /\ UNCHANGED <<mode, stopping, stopper, seqs, codes, taken, alive, buf, flushing, files, opened,
                   lines, used>>

(* get_thread_code: the thread's letter, or the first free one, or '?',    *)
(* here 0.                                                                 *)
ThreadCode(t) ==
    LET free == (1 .. Codes) \ taken
    IN  CASE codes[t] # 0 -> codes[t]
          [] codes[t] = 0 /\ free # {} -> CHOOSE c \in free : \A d \in free : c <= d
          [] codes[t] = 0 /\ free = {} -> 0

(* process_logline up to the write: number and letter.                     *)
Stamp ==
    /\ worker = "stamp" /\ ~flushing
    /\ LET i == IF mode.direction /\ ~cur.in THEN 2 ELSE 1
           c == ThreadCode(cur.tid)
       IN  /\ seqs' = [seqs EXCEPT ![i] = @ + 1]
           /\ codes' = [codes EXCEPT ![cur.tid] = c]
           /\ taken' = taken \cup ({c} \ {0})
           /\ cur' = [cur EXCEPT !.num = seqs'[i], !.code = c]
    /\ worker' = "write"
    /\ UNCHANGED <<mode, queue, stopping, stopper, alive, buf, flushing, files, opened, lines,
                   used>>

(* ... and the write, into the buffer without the mutex: a line put there  *)
(* while flush runs may be cleared with the others.                        *)
Write ==
    /\ worker = "write"
    /\ IF mode.buffer
       THEN /\ buf' = Append(buf, cur)
            /\ UNCHANGED files
       ELSE /\ ~flushing
            /\ files' = IF opened THEN [files EXCEPT ![0] = Append(@, cur)] ELSE files
            /\ UNCHANGED buf
    /\ worker' = "top"
    /\ UNCHANGED <<mode, queue, cur, stopping, stopper, seqs, codes, taken, alive, flushing, opened,
                   lines, used>>

-----------------------------------------------------------------------------
(* flush and rotate *)

Flush ==
    /\ ~flushing /\ mode.buffer /\ buf # <<>> /\ InUse
    /\ Use("flushes", MaxFlushes)
    /\ files' = IF opened THEN [files EXCEPT ![0] = @ \o buf] ELSE files
    /\ flushing' = TRUE
    /\ UNCHANGED <<mode, queue, worker, cur, stopping, stopper, seqs, codes, taken, alive, buf,
                   opened, lines>>

FlushClears ==
    /\ flushing
    /\ flushing' = FALSE
    /\ buf' = <<>>
    /\ UNCHANGED <<mode, queue, worker, cur, stopping, stopper, seqs, codes, taken, alive, files,
                   opened, lines, used>>

(* From the oldest on, each file that exists takes the place of its        *)
(* predecessor.                                                            *)
Renamed ==
    LET n == mode.rotnum
        moved == {i + 1 : i \in DOMAIN files \cap (0 .. n - 1)}
    IN  [i \in moved \cup ({n} \cap DOMAIN files) |->
            IF i \in moved THEN files[i - 1] ELSE files[i]]

(* A logger that appends goes on with its file, unless forced; one that    *)
(* does not starts it anew.  Opening it may fail.                          *)
rotate(force) ==
    /\ ~flushing /\ InUse
    /\ Use("rotations", MaxRotations)
    /\ LET kept == IF mode.rotnum > 0 /\ (~mode.append \/ force) THEN Renamed ELSE files
           log  == IF mode.append /\ 0 \in DOMAIN kept THEN kept[0] ELSE <<>>
       IN  \/ /\ opened' = TRUE
              /\ files' = [i \in DOMAIN kept \cup {0} |-> IF i = 0 THEN log ELSE kept[i]]
           \/ /\ opened' = FALSE
              /\ files' = kept
    /\ UNCHANGED <<mode, queue, worker, cur, stopping, stopper, seqs, codes, taken, alive,
                   buf, flushing, lines>>

-----------------------------------------------------------------------------
Init ==
    /\ mode \in [sys: Systems, buffer: BOOLEAN, append: BOOLEAN,
                direction: Directions, rotnum: RotNums]
    /\ queue = <<>> /\ worker = "top" /\ cur = Empty
    /\ stopping = FALSE /\ stopper = "no"
    /\ seqs = <<0, 0>>
    /\ codes = [t \in Threads |-> 0] /\ taken = {} /\ alive = Threads
    /\ buf = <<>> /\ flushing = FALSE
    /\ files = [i \in {0} |-> <<>>] /\ opened = TRUE
    /\ lines = 0
    /\ used = [c \in {"rotations", "flushes"} |-> 0]

Next ==
    \/ \E t \in Threads : enqueue(t) \/ ThreadEnds(t)
    \/ purge_thread_codes
    \/ StopBegins
    \/ StopJoins
    \/ LoopTop
    \/ PopEmpty
    \/ Pop
    \/ Stamp
    \/ Write
    \/ Flush
    \/ FlushClears
    \/ \E force \in BOOLEAN : rotate(force)

Spec == Init /\ [][Next]_vars

(* The logging thread, a flush in progress and a join keep running.        *)
FairSpec ==
    Spec /\ WF_vars(LoopTop \/ PopEmpty \/ Pop \/ Stamp \/ Write) /\ WF_vars(FlushClears)
         /\ WF_vars(StopJoins)

-----------------------------------------------------------------------------
(* Properties *)

(* All that is kept: the files and, as a volume younger than the log, the  *)
(* buffer, unless a flush has written it already.                          *)
Volumes == DOMAIN files \cup {-1}

Volume(f) == CASE f # -1            -> files[f]
               [] f = -1 /\ flushing  -> <<>>
               [] f = -1 /\ ~flushing -> buf

(* Over rotations, flushes and failures to open a file, the lines kept are *)
(* from the oldest file to the buffer in the order of their numbers and of *)
(* their enqueueing, none twice, and lines with the same letter are of one *)
(* thread, unless a thread has ended and its letter was freed              *)
(* (process_logline, flush, rotate, get_thread_code, purge_thread_codes).  *)
LogFaithful ==
    \A f, g \in Volumes : \A i \in DOMAIN Volume(f), j \in DOMAIN Volume(g) :
        LET a == Volume(f)[i]
            b == Volume(g)[j]
        IN  f > g \/ (f = g /\ i < j) =>
                /\ a.text < b.text
                /\ a.in = b.in => a.num < b.num
                /\ a.code = b.code /\ a.code # 0 /\ a.tid # b.tid
                       => ~ ({a.tid, b.tid} \subseteq alive)

Pending(n) == \E i \in DOMAIN queue : queue[i].text = n

(* A line enqueued leaves the queue unless the logger is stopped; an empty *)
(* line would end the thread (operator()).                                 *)
LineTaken == \A n \in 1 .. MaxLines : Pending(n) ~> (~Pending(n) \/ stopping)

(* stop() returns, whatever the logging thread is doing.                   *)
StopReturns == stopper = "joining" ~> stopper = "done"

=============================================================================
