------------------------ MODULE EngineThreadsProofs ------------------------
(***************************************************************************)
(* The owner of an initiator destroys its connection safely, whichever     *)
(* threads stop the session and in whatever order they run: for every      *)
(* process model, number of messages and behaviour of the peer.            *)
(*                                                                         *)
(* Only one of the threads that call Session::stop waits for the timer.    *)
(* The argument is about that one: as long as a callback of the timer may  *)
(* still use the connection, a thread the owner will join is on its way    *)
(* through Timer::clear.                                                   *)
(***************************************************************************)
EXTENDS EngineThreads, SequenceTheorems, TLAPS

(* Where a thread may be.                                                  *)
Points ==
    {"wait", "cbjoin", "tjoin", "idle", "beat", "beating", "requeue", "release",
     "loop", "read", "pop", "schedule", "exit", "done"} \cup InStop

Inbound == {"logon", "logout", "msg"}

(* Every variable the argument needs has its type.                         *)
ThreadsTypeOK ==
    /\ mode \in Modes
    /\ pc \in [Threads -> Points]
    /\ shut \in BOOLEAN /\ deleting \in BOOLEAN
    /\ tlock \in {"none", "timer"}
    /\ inbound \in Seq(Inbound)
    /\ inq \in Seq(Inbound \cup {"quit"})
    /\ outq \in Seq({"msg", "quit"})

(* The timer thread holds its lock exactly while it runs a callback, so    *)
(* that of an initiator cannot get past Timer::clear itself.               *)
LockHeld ==
    /\ tlock = "timer" <=> pc["timer"] \notin {"idle", "done"}
    /\ Initiator => pc["timer"] \notin InConnectionStop

(* Session::stop raises the flag, the destructor comes after it, and each  *)
(* join of the owner has met a thread that is over.                        *)
OwnerJoined ==
    /\ pc["owner"] \notin {"wait", "stop", "claim"} => shut
    /\ pc["owner"] \in {"wait", "stop", "claim", "clear"} => ~deleting
    /\ ~Pipelined => Done("writer") /\ Done("callback")
    /\ pc["owner"] \in {"rstop", "rshut", "rjoin", "cbjoin", "tjoin", "done"} => Done("writer")
    /\ pc["owner"] \in {"cbjoin", "tjoin", "done"} => Done("reader")
    /\ pc["owner"] \in {"tjoin", "done"} => Done("callback")

(* Once the session is shut down, a callback that began before is over, or *)
(* the thread that shut it down waits for it.                              *)
CallbackAwaited ==
    Initiator /\ shut /\ pc["timer"] = "beating" =>
        \E t \in {"owner", "reader", "callback"} : pc[t] = "clear"

ThreadsInv == ThreadsTypeOK /\ LockHeld /\ OwnerJoined /\ CallbackAwaited

-----------------------------------------------------------------------------
(* Initially only the timer is idle and nobody stops anything.             *)
LEMMA ThreadsInit == Init => ThreadsInv
<1> SUFFICES ASSUME Init PROVE ThreadsInv
  OBVIOUS
<1>1. ThreadsTypeOK
  <2>1. <<"logon">> \in Seq(Inbound) /\ <<>> \in Seq(Inbound \cup {"quit"})
        /\ <<>> \in Seq({"msg", "quit"})
    BY DEF Inbound
  <2>2. pc \in [Threads -> Points]
    BY DEF Init, Threads, Points
  <2> QED
    BY <2>1, <2>2 DEF Init, ThreadsTypeOK
<1> QED
  BY <1>1 DEF Init, ThreadsInv, LockHeld, OwnerJoined, CallbackAwaited, Done, Initiator,
      Pipelined, InConnectionStop

(* Appending to a queue and taking its head keep its type.                 *)
LEMMA QueueTypes ==
    ASSUME ThreadsTypeOK
    PROVE  /\ Append(outq, "quit") \in Seq({"msg", "quit"})
           /\ Append(outq, "msg") \in Seq({"msg", "quit"})
           /\ Append(inq, "quit") \in Seq(Inbound \cup {"quit"})
           /\ \A m \in {"msg", "logout"} : Append(inbound, m) \in Seq(Inbound)
           /\ outq # <<>> => Tail(outq) \in Seq({"msg", "quit"})
           /\ inq # <<>> => /\ Tail(inq) \in Seq(Inbound \cup {"quit"})
                            /\ Head(inq) \in Inbound \cup {"quit"}
           /\ inbound # <<>> => /\ Tail(inbound) \in Seq(Inbound)
                                /\ Head(inbound) \in Inbound
                                /\ Append(inq, Head(inbound)) \in Seq(Inbound \cup {"quit"})
BY DEF ThreadsTypeOK, Inbound

(* A step of Session::stop on any thread.                                  *)
LEMMA StoppingKeeps ==
    ASSUME ThreadsInv, NEW t \in Threads \ {"writer"}, Stopping(t), UNCHANGED mode
    PROVE  ThreadsInv'
<1> USE DEF ThreadsInv, ThreadsTypeOK, LockHeld, OwnerJoined, CallbackAwaited, Goto, Done,
        Initiator, Pipelined, Points, InStop, InConnectionStop, Threads
<1>1. CASE StopCheck(t)
  BY <1>1 DEF StopCheck, Return, After
<1>2. CASE StopClaim(t)
  BY <1>2 DEF StopClaim
<1>3. CASE TimerClear(t)
  BY <1>3 DEF TimerClear
<1>4. CASE WriterStop(t)
  <2>1. outq' \in Seq({"msg", "quit"})
    BY <1>4, QueueTypes DEF WriterStop
  <2> QED
    BY <1>4, <2>1 DEF WriterStop
<1>5. CASE WriterJoin(t)
  BY <1>5 DEF WriterJoin
<1>6. CASE ReaderStop(t)
  <2>1. inq' \in Seq(Inbound \cup {"quit"})
    BY <1>6, QueueTypes DEF ReaderStop
  <2> QED
    BY <1>6, <2>1 DEF ReaderStop
<1>7. CASE SocketShutdown(t)
  BY <1>7 DEF SocketShutdown
<1>8. CASE ReaderJoin(t)
  BY <1>8 DEF ReaderJoin, Return, After
<1> QED
  BY <1>1, <1>2, <1>3, <1>4, <1>5, <1>6, <1>7, <1>8 DEF Stopping

(* A step of the owner outside Session::stop.                              *)
LEMMA OwnerKeeps ==
    ASSUME ThreadsInv, OwnerStep \/ OwnerStops, UNCHANGED mode
    PROVE  ThreadsInv'
BY DEF OwnerStep, OwnerStops, OwnerWaitEnds, CallbackJoin, TimerJoin, ThreadsInv, ThreadsTypeOK,
    LockHeld, OwnerJoined, CallbackAwaited, Goto, Done, Initiator, Pipelined, Points, InStop,
    InConnectionStop, Threads

(* A step of the timer thread outside Session::stop.  A callback begins    *)
(* only while the session is not shut down.                                *)
LEMMA TimerKeeps ==
    ASSUME ThreadsInv, TimerStep, UNCHANGED mode
    PROVE  ThreadsInv'
<1> USE DEF ThreadsInv, ThreadsTypeOK, LockHeld, OwnerJoined, CallbackAwaited, Goto, Done,
        Initiator, Pipelined, Points, InStop, InConnectionStop, Threads
<1>1. CASE TimerFires
  BY <1>1 DEF TimerFires
<1>2. CASE HeartbeatStarts
  BY <1>2 DEF HeartbeatStarts, IsShutdown
<1>3. CASE HeartbeatSends
  <2>1. outq' \in Seq({"msg", "quit"})
    BY <1>3, QueueTypes DEF HeartbeatSends
  <2> QED
    BY <1>3, <2>1 DEF HeartbeatSends
<1>4. CASE HeartbeatNotDue
  BY <1>4 DEF HeartbeatNotDue
<1>5. CASE HeartbeatAborts
  BY <1>5 DEF HeartbeatAborts
<1>6. CASE TimerRequeues
  BY <1>6 DEF TimerRequeues
<1>7. CASE TimerEnds
  BY <1>7 DEF TimerEnds
<1> QED
  BY <1>1, <1>2, <1>3, <1>4, <1>5, <1>6, <1>7 DEF TimerStep

(* A step of the reader, the callback thread or the writer outside         *)
(* Session::stop: one that is done stays so.                               *)
LEMMA WorkerKeeps ==
    ASSUME ThreadsInv, UNCHANGED mode,
           \/ \E t \in {"reader", "callback", "writer"} : LoopCheck(t) \/ Schedule(t) \/ Exit(t)
           \/ ReaderReads \/ ReaderFails \/ CallbackPops \/ WriterPops
    PROVE  ThreadsInv'
<1> USE DEF ThreadsInv, ThreadsTypeOK, LockHeld, OwnerJoined, CallbackAwaited, Goto, Done,
        Initiator, Pipelined, Points, InStop, InConnectionStop, Threads
<1>1. ASSUME NEW t \in {"reader", "callback", "writer"}, LoopCheck(t) PROVE ThreadsInv'
  BY <1>1 DEF LoopCheck
<1>2. ASSUME NEW t \in {"reader", "callback", "writer"}, Schedule(t) PROVE ThreadsInv'
  BY <1>2 DEF Schedule
<1>3. ASSUME NEW t \in {"reader", "callback", "writer"}, Exit(t) PROVE ThreadsInv'
  BY <1>3 DEF Exit
<1>4. CASE ReaderReads
  <2>1. inbound' \in Seq(Inbound) /\ inq' \in Seq(Inbound \cup {"quit"})
        /\ Head(inbound) \in Inbound
    BY <1>4, QueueTypes DEF ReaderReads
  <2>2. Handling(Head(inbound)) \in {"schedule", "stop", "loop"}
    BY <2>1 DEF Handling, Inbound
  <2> QED
    BY <1>4, <2>1, <2>2 DEF ReaderReads
<1>5. CASE ReaderFails
  BY <1>5 DEF ReaderFails
<1>6. CASE CallbackPops
  <2>1. inq' \in Seq(Inbound \cup {"quit"}) /\ Head(inq) \in Inbound \cup {"quit"}
    BY <1>6, QueueTypes DEF CallbackPops
  <2>2. Head(inq) # "quit" => Handling(Head(inq)) \in {"schedule", "stop", "loop"}
    BY <2>1 DEF Handling, Inbound
  <2> QED
    BY <1>6, <2>1, <2>2 DEF CallbackPops
<1>7. CASE WriterPops
  <2>1. outq' \in Seq({"msg", "quit"})
    BY <1>7, QueueTypes DEF WriterPops
  <2> QED
    BY <1>7, <2>1 DEF WriterPops
<1> QED
  BY <1>1, <1>2, <1>3, <1>4, <1>5, <1>6, <1>7

(* The peer and the network only touch the socket.                         *)
LEMMA PeerKeeps ==
    ASSUME ThreadsInv, PeerSends \/ ConnectionLost, UNCHANGED mode
    PROVE  ThreadsInv'
<1>1. inbound' \in Seq(Inbound)
  BY QueueTypes DEF PeerSends, ConnectionLost, ThreadsInv, ThreadsTypeOK
<1> QED
  BY <1>1 DEF PeerSends, ConnectionLost, ThreadsInv, ThreadsTypeOK, LockHeld, OwnerJoined,
      CallbackAwaited, Done, Initiator, Pipelined

(* The invariant is kept by every step.                                    *)
LEMMA ThreadsNext == ThreadsInv /\ [Next]_vars => ThreadsInv'
<1> SUFFICES ASSUME ThreadsInv, [Next]_vars PROVE ThreadsInv'
  OBVIOUS
<1>1. CASE Next
  BY <1>1, StoppingKeeps, OwnerKeeps, TimerKeeps, WorkerKeeps, PeerKeeps DEF Next, Steps
<1>2. CASE UNCHANGED vars
  BY <1>2 DEF vars, ThreadsInv, ThreadsTypeOK, LockHeld, OwnerJoined, CallbackAwaited, Done,
      Initiator, Pipelined
<1> QED
  BY <1>1, <1>2

(* Once the owner of an initiator has destroyed the connection no thread   *)
(* uses it any more, for every process model, any traffic and any loss of  *)
(* the connection: its own threads were joined, and one of them, or the    *)
(* owner, had waited for a callback of the timer (Session::stop,           *)
(* Connection::stop, ~Connection).                                         *)
THEOREM DestructionIsSafe == Spec => []SafeDestroy
<1>1. ThreadsInv => SafeDestroy
  BY DEF ThreadsInv, ThreadsTypeOK, LockHeld, OwnerJoined, CallbackAwaited, SafeDestroy, Freed,
      Done, Threads
<1> QED
  BY <1>1, ThreadsInit, ThreadsNext, PTL DEF Spec

=============================================================================
