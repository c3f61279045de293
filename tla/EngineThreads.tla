--------------------------- MODULE EngineThreads ---------------------------
(***************************************************************************)
(* The threads of one session and how they end: the reader, in pm_pipeline *)
(* the callback and writer threads with their queues, the timer thread,    *)
(* and the application thread that owns the session, waits for the reader, *)
(* stops the session and destroys it.  Any of them but the writer may call *)
(* Session::stop (connection.cpp, connection.hpp, timer.hpp, thread.hpp).  *)
(***************************************************************************)
EXTENDS Naturals, Sequences

CONSTANTS
    Pipelines,  \* roles that may be configured as pm_pipeline
    Silences,   \* roles whose peer may be silent for so long that it is given up
    Losses,     \* the connection may be lost
    MaxMsgs     \* messages the peer sends after its logon; bounds the writer's queue

ASSUME ThreadsAssumption ==
    /\ Pipelines \subseteq {"initiator", "acceptor"}
    /\ Silences \subseteq {"initiator", "acceptor"}
    /\ Losses \in BOOLEAN /\ MaxMsgs \in Nat

VARIABLES
    mode,       \* the session's role and process model, as configured
    pc,         \* where each thread is
    shut,       \* the shutdown control flag
    ended,      \* the state is st_session_terminated
    sock,       \* "up", "shut" by this side, or "lost"
    inbound,    \* messages on the socket
    inq,        \* queue from the reader to the callback thread
    outq,       \* queue to the writer
    tlock,      \* the thread that holds the timer's lock
    events,     \* the heartbeat event is in the timer's queue
    started,    \* started[t]: _started of the reader and of the writer
    cancelled,  \* threads whose cancellation token is set
    deleting,   \* the owner is in ~Connection
    sends       \* messages the peer has sent

vars == <<mode, pc, shut, ended, sock, inbound, inq, outq, tlock, events, started,
          cancelled, deleting, sends>>

Modes ==
    {m \in [role: {"initiator", "acceptor"}, model: {"pm_thread", "pm_pipeline"}] :
        m.model = "pm_pipeline" => m.role \in Pipelines}

Initiator == mode.role = "initiator"

Pipelined == mode.model = "pm_pipeline"

Threads == {"owner", "timer", "reader", "callback", "writer"}

(* Program points.  From "stop" to "rjoin" a thread is in Session::stop.   *)
InConnectionStop == {"wstop", "wjoin", "rstop", "rshut", "rjoin"}

InStop == {"stop", "claim", "clear"} \cup InConnectionStop

IsShutdown == shut \/ ended

Goto(t, p) == pc' = [pc EXCEPT ![t] = p]

Done(t) == pc[t] = "done"

-----------------------------------------------------------------------------
(* Session::stop and Connection::stop, on any thread *)

(* Where a thread goes on after stop().  The owner then destroys the       *)
(* connection, whose destructor stops it once more.                        *)
After(t) ==
    CASE t = "timer" -> "requeue"
      [] t \in {"reader", "callback"} -> "loop"
      [] t = "owner" -> IF deleting THEN "cbjoin" ELSE "wstop"

Return(t) == Goto(t, After(t)) /\ deleting' = (deleting \/ t = "owner")

StopCheck(t) ==
    /\ pc[t] = "stop"
    /\ IF shut THEN Return(t) ELSE Goto(t, "claim") /\ UNCHANGED deleting
    /\ UNCHANGED <<shut, ended, sock, inbound, inq, outq, tlock, events, started,
                   cancelled, sends>>

StopClaim(t) ==
    /\ pc[t] = "claim"
    /\ shut' = TRUE
    /\ Goto(t, IF Initiator THEN "clear" ELSE "wstop")
    /\ UNCHANGED <<ended, sock, inbound, inq, outq, tlock, events, started, cancelled,
                   deleting, sends>>

(* Mutant: the events are dropped without waiting for a running callback.  *)
TimerClear_unlocked(t) ==
    /\ pc[t] = "clear"
    /\ events' = FALSE
    /\ Goto(t, "wstop")
    /\ UNCHANGED <<shut, ended, sock, inbound, inq, outq, tlock, started, cancelled,
                   deleting, sends>>

(* Timer::clear takes the lock that the timer thread holds while it runs a *)
(* callback.                                                               *)
TimerClear(t) ==
    /\ pc[t] = "clear"
    /\ tlock = "none"
    /\ events' = FALSE
    /\ Goto(t, "wstop")
    /\ UNCHANGED <<shut, ended, sock, inbound, inq, outq, tlock, started, cancelled,
                   deleting, sends>>

(* Mutant: the writer is cancelled but not woken up.                       *)
WriterStop_quiet(t) ==
    /\ pc[t] = "wstop"
    /\ cancelled' = IF started["writer"] THEN cancelled \cup {"writer"} ELSE cancelled
    /\ Goto(t, "wjoin")
    /\ UNCHANGED <<shut, ended, sock, inbound, inq, outq, tlock, events, started, deleting, sends>>

WriterStop(t) ==
    /\ pc[t] = "wstop"
    /\ IF started["writer"]
       THEN outq' = Append(outq, "quit") /\ cancelled' = cancelled \cup {"writer"}
       ELSE UNCHANGED <<outq, cancelled>>
    /\ Goto(t, "wjoin")
    /\ UNCHANGED <<shut, ended, sock, inbound, inq, tlock, events, started, deleting, sends>>

WriterJoin(t) ==
    /\ pc[t] = "wjoin"
    /\ Pipelined => Done("writer")
    /\ Goto(t, "rstop")
    /\ UNCHANGED <<shut, ended, sock, inbound, inq, outq, tlock, events, started,
                   cancelled, deleting, sends>>

(* The reader and the callback thread share one cancellation token.        *)
ReaderStop(t) ==
    /\ pc[t] = "rstop"
    /\ IF started["reader"]
       THEN /\ inq' = IF Pipelined THEN Append(inq, "quit") ELSE inq
            /\ cancelled' = cancelled \cup {"reader"}
       ELSE UNCHANGED <<inq, cancelled>>
    /\ Goto(t, "rshut")
    /\ UNCHANGED <<shut, ended, sock, inbound, outq, tlock, events, started, deleting, sends>>

(* Mutant: the socket is not shut down before the reader is joined.        *)
SocketShutdown_skipped(t) ==
    /\ pc[t] = "rshut"
    /\ Goto(t, "rjoin")
    /\ UNCHANGED <<shut, ended, sock, inbound, inq, outq, tlock, events, started,
                   cancelled, deleting, sends>>

SocketShutdown(t) ==
    /\ pc[t] = "rshut"
    /\ sock' = IF started["reader"] THEN "shut" ELSE sock
    /\ Goto(t, "rjoin")
    /\ UNCHANGED <<shut, ended, inbound, inq, outq, tlock, events, started,
                   cancelled, deleting, sends>>

(* A thread does not join itself.                                          *)
ReaderJoin(t) ==
    /\ pc[t] = "rjoin"
    /\ t = "reader" \/ Done("reader")
    /\ Return(t)
    /\ UNCHANGED <<shut, ended, sock, inbound, inq, outq, tlock, events, started,
                   cancelled, sends>>

Stopping(t) ==
    \/ StopCheck(t) \/ StopClaim(t) \/ TimerClear(t) \/ WriterStop(t)
    \/ WriterJoin(t) \/ ReaderStop(t) \/ SocketShutdown(t) \/ ReaderJoin(t)

-----------------------------------------------------------------------------
(* The owner *)

(* start() with wait returns when the reader has ended.                    *)
OwnerWaitEnds ==
    /\ pc["owner"] = "wait" /\ Done("reader")
    /\ Goto("owner", "stop")
    /\ UNCHANGED <<shut, ended, sock, inbound, inq, outq, tlock, events, started,
                   cancelled, deleting, sends>>

(* An application that did not wait stops the session when it likes.       *)
OwnerStops ==
    /\ pc["owner"] = "wait" /\ ~Done("reader")
    /\ Goto("owner", "stop")
    /\ UNCHANGED <<shut, ended, sock, inbound, inq, outq, tlock, events, started,
                   cancelled, deleting, sends>>

(* ~FIXReader waits for the callback thread; then ~Timer stops its thread. *)
CallbackJoin ==
    /\ pc["owner"] = "cbjoin"
    /\ Done("callback")
    /\ cancelled' = cancelled \cup {"timer"}
    /\ Goto("owner", "tjoin")
    /\ UNCHANGED <<shut, ended, sock, inbound, inq, outq, tlock, events, started,
                   deleting, sends>>

TimerJoin ==
    /\ pc["owner"] = "tjoin"
    /\ Done("timer")
    /\ Goto("owner", "done")
    /\ UNCHANGED <<shut, ended, sock, inbound, inq, outq, tlock, events, started,
                   cancelled, deleting, sends>>

-----------------------------------------------------------------------------
(* The timer thread.  The lock is held from the pop to the end of the      *)
(* callback.                                                               *)

TimerFires ==
    /\ pc["timer"] = "idle" /\ "timer" \notin cancelled
    /\ events /\ tlock = "none"
    /\ events' = FALSE /\ tlock' = "timer"
    /\ Goto("timer", "beat")
    /\ UNCHANGED <<shut, ended, sock, inbound, inq, outq, started, cancelled, deleting, sends>>

(* heartbeat_service: a callback that returns false is not repeated.       *)
HeartbeatStarts ==
    /\ pc["timer"] = "beat"
    /\ Goto("timer", IF IsShutdown THEN "release" ELSE "beating")
    /\ UNCHANGED <<shut, ended, sock, inbound, inq, outq, tlock, events, started,
                   cancelled, deleting, sends>>

(* It sends a heartbeat or a test request ...                              *)
HeartbeatSends ==
    /\ pc["timer"] = "beating"
    /\ outq' = IF Pipelined THEN Append(outq, "msg") ELSE outq
    /\ Len(outq) < MaxMsgs
    /\ Goto("timer", "requeue")
    /\ UNCHANGED <<shut, ended, sock, inbound, inq, tlock, events, started,
                   cancelled, deleting, sends>>

(* ... or has nothing to send yet ...                                      *)
HeartbeatNotDue ==
    /\ pc["timer"] = "beating"
    /\ Goto("timer", "requeue")
    /\ UNCHANGED <<shut, ended, sock, inbound, inq, outq, tlock, events, started,
                   cancelled, deleting, sends>>

(* ... or gives up a peer that has ignored its test request.               *)
HeartbeatAborts ==
    /\ pc["timer"] = "beating"
    /\ mode.role \in Silences /\ inbound = <<>>
    /\ Goto("timer", "stop")
    /\ UNCHANGED <<shut, ended, sock, inbound, inq, outq, tlock, events, started,
                   cancelled, deleting, sends>>

TimerRequeues ==
    /\ pc["timer"] \in {"requeue", "release"}
    /\ events' = (events \/ pc["timer"] = "requeue")
    /\ tlock' = "none"
    /\ Goto("timer", "idle")
    /\ UNCHANGED <<shut, ended, sock, inbound, inq, outq, started, cancelled, deleting, sends>>

TimerEnds ==
    /\ pc["timer"] = "idle" /\ "timer" \in cancelled
    /\ Goto("timer", "done")
    /\ UNCHANGED <<shut, ended, sock, inbound, inq, outq, tlock, events, started,
                   cancelled, deleting, sends>>

-----------------------------------------------------------------------------
(* Reader, callback and writer threads *)

(* Where process() takes a thread: a logon schedules the heartbeats, a     *)
(* logout stops the session.                                               *)
Handling(m) ==
    CASE m = "logon" -> "schedule" [] m = "logout" -> "stop" [] m = "msg" -> "loop"

LoopCheck(t) ==
    /\ pc[t] = "loop"
    /\ Goto(t, IF IsShutdown \/ (IF t = "writer" THEN t ELSE "reader") \in cancelled
               THEN "exit" ELSE IF t = "reader" THEN "read" ELSE "pop")
    /\ UNCHANGED <<shut, ended, sock, inbound, inq, outq, tlock, events, started,
                   cancelled, deleting, sends>>

ReaderReads ==
    /\ pc["reader"] = "read"
    /\ inbound # <<>>
    /\ inbound' = Tail(inbound)
    /\ IF Pipelined THEN inq' = Append(inq, Head(inbound)) /\ Goto("reader", "loop")
       ELSE Goto("reader", Handling(Head(inbound))) /\ UNCHANGED inq
    /\ UNCHANGED <<shut, ended, sock, outq, tlock, events, started, cancelled, deleting, sends>>

(* The end of the connection is an exception: the session is terminated.   *)
ReaderFails ==
    /\ pc["reader"] = "read"
    /\ inbound = <<>> /\ sock # "up"
    /\ ended' = (ended \/ ~shut)
    /\ Goto("reader", "exit")
    /\ UNCHANGED <<shut, sock, inbound, inq, outq, tlock, events, started, cancelled,
                   deleting, sends>>

(* Timer::schedule takes the timer's lock.                                 *)
Schedule(t) ==
    /\ pc[t] = "schedule"
    /\ tlock = "none"
    /\ events' = TRUE
    /\ Goto(t, "loop")
    /\ UNCHANGED <<shut, ended, sock, inbound, inq, outq, tlock, started, cancelled,
                   deleting, sends>>

CallbackPops ==
    /\ pc["callback"] = "pop"
    /\ inq # <<>>
    /\ inq' = Tail(inq)
    /\ Goto("callback", IF Head(inq) = "quit" THEN "exit" ELSE Handling(Head(inq)))
    /\ UNCHANGED <<shut, ended, sock, inbound, outq, tlock, events, started, cancelled,
                   deleting, sends>>

WriterPops ==
    /\ pc["writer"] = "pop"
    /\ outq # <<>>
    /\ outq' = Tail(outq)
    /\ Goto("writer", IF Head(outq) = "quit" THEN "exit" ELSE "loop")
    /\ UNCHANGED <<shut, ended, sock, inbound, inq, tlock, events, started, cancelled,
                   deleting, sends>>

Exit(t) ==
    /\ pc[t] = "exit"
    /\ started' = [started EXCEPT ![t] = FALSE]
    /\ Goto(t, "done")
    /\ UNCHANGED <<shut, ended, sock, inbound, inq, outq, tlock, events, cancelled,
                   deleting, sends>>

-----------------------------------------------------------------------------
(* The peer and the network *)

PeerSends ==
    /\ sock = "up" /\ sends < MaxMsgs
    /\ \E m \in {"msg", "logout"} : inbound' = Append(inbound, m)
    /\ sends' = sends + 1
    /\ UNCHANGED <<pc, shut, ended, sock, inq, outq, tlock, events, started, cancelled, deleting>>

ConnectionLost ==
    /\ Losses /\ sock = "up"
    /\ sock' = "lost"
    /\ UNCHANGED <<pc, shut, ended, inbound, inq, outq, tlock, events, started, cancelled,
                   deleting, sends>>

-----------------------------------------------------------------------------
Init ==
    /\ mode \in Modes
    /\ pc = [owner |-> "wait", timer |-> "idle", reader |-> "loop",
             callback |-> IF Pipelined THEN "loop" ELSE "done",
             writer |-> IF Pipelined THEN "loop" ELSE "done"]
    /\ shut = FALSE /\ ended = FALSE
    /\ sock = "up" /\ inbound = <<"logon">>
    /\ inq = <<>> /\ outq = <<>>
    /\ tlock = "none" /\ events = FALSE
    /\ started = [reader |-> TRUE, callback |-> Pipelined, writer |-> Pipelined]
    /\ cancelled = {} /\ deleting = FALSE
    /\ sends = 0

OwnerStep == OwnerWaitEnds \/ CallbackJoin \/ TimerJoin

TimerStep ==
    \/ TimerFires \/ HeartbeatStarts \/ HeartbeatSends \/ HeartbeatNotDue
    \/ HeartbeatAborts \/ TimerRequeues \/ TimerEnds

Steps ==
    \/ \E t \in Threads \ {"writer"} : Stopping(t)
    \/ OwnerStep \/ OwnerStops
    \/ TimerStep
    \/ \E t \in {"reader", "callback", "writer"} : LoopCheck(t) \/ Schedule(t) \/ Exit(t)
    \/ ReaderReads \/ ReaderFails \/ CallbackPops \/ WriterPops
    \/ PeerSends \/ ConnectionLost

Next == Steps /\ UNCHANGED mode

Spec == Init /\ [][Next]_vars

(* The scheduler runs every thread that can run.  The peer, the network    *)
(* and an application that stops early owe nothing.                        *)
Fairness ==
    /\ WF_vars(OwnerStep /\ UNCHANGED mode)
    /\ WF_vars(TimerStep /\ UNCHANGED mode)
    /\ \A t \in Threads \ {"writer"} : WF_vars(Stopping(t) /\ UNCHANGED mode)
    /\ WF_vars((ReaderReads \/ ReaderFails) /\ UNCHANGED mode)
    /\ WF_vars(CallbackPops /\ UNCHANGED mode)
    /\ WF_vars(WriterPops /\ UNCHANGED mode)
    /\ \A t \in {"reader", "callback", "writer"} :
           WF_vars((LoopCheck(t) \/ Schedule(t) \/ Exit(t)) /\ UNCHANGED mode)

FairSpec == Spec /\ Fairness

-----------------------------------------------------------------------------
(* Properties *)

Freed == pc["owner"] \in {"tjoin", "done"}

(* Once the owner of an initiator has destroyed the connection no thread   *)
(* is still using it: heartbeat_service is over, no other thread is in     *)
(* Connection::stop, and the connection's own threads have ended           *)
(* (Session::stop, ~Connection).  stop() waits for a running callback of   *)
(* the timer for an initiator only.                                        *)
SafeDestroy ==
    Initiator /\ Freed => /\ pc["timer"] \notin InConnectionStop \cup {"beating"}
                          /\ \A t \in {"reader", "callback", "writer"} : Done(t)

(* Session::stop returns, whichever thread calls it.                       *)
StopReturns == \A t \in Threads : pc[t] \in InStop ~> pc[t] \notin InStop

(* Once the owner of a session in pm_thread decides to end it, all of its  *)
(* threads end and its destructors return (Session::stop, Connection::stop, *)
(* ~Connection, ~Timer).                                                   *)
DestructionEnds == ~Pipelined /\ pc["owner"] = "stop" ~> pc["owner"] = "done"

=============================================================================
