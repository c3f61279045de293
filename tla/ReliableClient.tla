--------------------------- MODULE ReliableClient ---------------------------
(***************************************************************************)
(* ReliableClientSession (sessionwrapper.hpp): the reliability thread that *)
(* connects the session again and again, over one address or over a group  *)
(* of failover servers, and the application thread that uses the client,   *)
(* stops the session and destroys the client.  What happens inside one     *)
(* connection is the subject of SessionPair and EngineThreads; here it is  *)
(* up until its reader thread ends.                                        *)
(***************************************************************************)
EXTENDS Naturals

CONSTANTS
    Groups,        \* sizes the group of failover servers may have, 0 without a group
    MaxTries,      \* the values of max_retries a server may be configured with
    LoginRetries,  \* login_retries
    Closing        \* the application may destroy the client

ASSUME ReliableAssumption ==
    /\ Groups \subseteq Nat /\ LoginRetries \in Nat
    /\ MaxTries \subseteq Nat /\ Closing \in BOOLEAN

VARIABLES
    failover,   \* _failover_cnt, as configured
    max,        \* max_retries of each server, as configured
    pc,         \* where the reliability thread is
    attempts,   \* _attempts; only compared with login_retries, so it stops at Cap
    excepted,   \* the last start() has thrown
    retries,    \* _retries of each server
    current,    \* _current
    conn,       \* "none", "up", or "down" when the reader thread has ended
    shut,       \* the session's shutdown flag
    ended,      \* the session's state is st_session_terminated
    token,      \* the reliability thread is asked to stop
    owner       \* where the application thread is

vars == <<failover, max, pc, attempts, excepted, retries, current, conn, shut, ended, token, owner>>

Servers == 1..failover

Cap == LoginRetries + 2

IsShutdown == shut \/ ended

Exhausted == LoginRetries > 0 /\ attempts > LoginRetries

-----------------------------------------------------------------------------
(* The reliability thread, one step per statement that another thread can  *)
(* come between.                                                           *)

(* Mutant: only an exception is tried again.                               *)
LoopCheck_unexcepted ==
    /\ pc = "loop"
    /\ IF token THEN pc' = "done" /\ UNCHANGED <<attempts, excepted>>
       ELSE /\ attempts' = IF attempts < Cap THEN attempts + 1 ELSE attempts
            /\ excepted' = FALSE
            /\ pc' = "start"
    /\ UNCHANGED <<retries, current, conn, shut, ended, token, owner>>

LoopCheck ==
    /\ pc = "loop"
    /\ IF token THEN pc' = "done" /\ UNCHANGED <<attempts, excepted>>
       ELSE /\ attempts' = IF attempts < Cap THEN attempts + 1 ELSE attempts
            /\ excepted' = (failover = 0)
            /\ pc' = "start"
    /\ UNCHANGED <<retries, current, conn, shut, ended, token, owner>>

(* Session::start clears the shutdown flag first ...                       *)
StartClears ==
    /\ pc = "start"
    /\ shut' = FALSE
    /\ pc' = "connect"
    /\ UNCHANGED <<attempts, excepted, retries, current, conn, ended, token, owner>>

(* ... connect() of a reliable client throws when it fails ...             *)
ConnectFails ==
    /\ pc = "connect"
    /\ excepted' = TRUE
    /\ pc' = "stop"
    /\ UNCHANGED <<attempts, retries, current, conn, shut, ended, token, owner>>

(* ... and otherwise the reader thread is started ...                      *)
Connects ==
    /\ pc = "connect"
    /\ conn' = "up"
    /\ pc' = "init"
    /\ UNCHANGED <<attempts, excepted, retries, current, shut, ended, token, owner>>

(* ... before atomic_init leaves the state of the last connection.         *)
StartInits ==
    /\ pc = "init"
    /\ ended' = FALSE
    /\ pc' = "wait"
    /\ UNCHANGED <<attempts, excepted, retries, current, conn, shut, token, owner>>

(* start() waits for the reader thread.                                    *)
WaitEnds ==
    /\ pc = "wait" /\ conn = "down"
    /\ pc' = "stop"
    /\ UNCHANGED <<attempts, excepted, retries, current, conn, shut, ended, token, owner>>

(* The session is stopped and the connection deleted.                      *)
StopsAndDeletes ==
    /\ pc = "stop"
    /\ shut' = TRUE
    /\ conn' = "none"
    /\ pc' = "decide"
    /\ UNCHANGED <<attempts, excepted, retries, current, ended, token, owner>>

(* Mutant: the attempts are not counted against login_retries.             *)
Decide_endless ==
    /\ pc = "decide"
    /\ pc' = IF ~excepted THEN "done" ELSE IF failover > 0 THEN "pick" ELSE "sleep"
    /\ retries' = IF excepted /\ failover > 0
                  THEN [retries EXCEPT ![current] = @ + 1] ELSE retries
    /\ UNCHANGED <<attempts, excepted, current, conn, shut, ended, token, owner>>

(* Without failover every end of a connection counts as an exception.      *)
Decide ==
    /\ pc = "decide"
    /\ LET over == ~excepted \/ (failover = 0 /\ Exhausted)
       IN  /\ pc' = IF over THEN "done" ELSE IF failover > 0 THEN "pick" ELSE "sleep"
           /\ retries' = IF ~over /\ failover > 0
                         THEN [retries EXCEPT ![current] = @ + 1] ELSE retries
    /\ UNCHANGED <<attempts, excepted, current, conn, shut, ended, token, owner>>

(* Mutant: the retries of a server are not reset when it is left.          *)
PickServer_keeps ==
    /\ pc = "pick"
    /\ IF token \/ (max[current] > 0 /\ retries[current] < max[current])
       THEN pc' = "sleep" /\ UNCHANGED current
       ELSE current' = (current % failover) + 1 /\ UNCHANGED pc
    /\ UNCHANGED <<attempts, excepted, retries, conn, shut, ended, token, owner>>

(* Mutant: one retry too many.                                             *)
PickServer_late ==
    /\ pc = "pick"
    /\ IF token \/ (max[current] > 0 /\ retries[current] <= max[current])
       THEN pc' = "sleep" /\ UNCHANGED <<retries, current>>
       ELSE /\ retries' = [retries EXCEPT ![current] = 0]
            /\ current' = (current % failover) + 1
            /\ UNCHANGED pc
    /\ UNCHANGED <<attempts, excepted, conn, shut, ended, token, owner>>

(* One turn of the loop that looks for a server with retries left.         *)
PickServer ==
    /\ pc = "pick"
    /\ IF token \/ (max[current] > 0 /\ retries[current] < max[current])
       THEN pc' = "sleep" /\ UNCHANGED <<retries, current>>
       ELSE /\ retries' = [retries EXCEPT ![current] = 0]
            /\ current' = (current % failover) + 1
            /\ UNCHANGED pc
    /\ UNCHANGED <<attempts, excepted, conn, shut, ended, token, owner>>

Sleeps ==
    /\ pc = "sleep"
    /\ pc' = "loop"
    /\ UNCHANGED <<attempts, excepted, retries, current, conn, shut, ended, token, owner>>

-----------------------------------------------------------------------------
(* The reader thread leaves its loop when the session is shut down.        *)
ReaderLeaves ==
    /\ conn = "up" /\ IsShutdown
    /\ conn' = "down"
    /\ UNCHANGED <<pc, attempts, excepted, retries, current, shut, ended, token, owner>>

(* The connection ends: the peer logs out or refuses the logon and the     *)
(* reader stops the session, or it is lost and the session is terminated.  *)
ConnectionEnds ==
    /\ conn = "up"
    /\ conn' = "down"
    /\ \/ shut' = TRUE /\ UNCHANGED ended
       \/ ended' = TRUE /\ UNCHANGED shut
    /\ UNCHANGED <<pc, attempts, excepted, retries, current, token, owner>>

-----------------------------------------------------------------------------
(* The application thread.  It stops a session that is not shut down, ...  *)
OwnerChecks ==
    /\ Closing /\ owner = "use"
    /\ owner' = IF IsShutdown THEN "destroy" ELSE "stop"
    /\ UNCHANGED <<pc, attempts, excepted, retries, current, conn, shut, ended, token>>

OwnerStops ==
    /\ owner = "stop"
    /\ shut' = TRUE
    /\ conn' = IF ~shut /\ conn = "up" THEN "down" ELSE conn
    /\ owner' = "destroy"
    /\ UNCHANGED <<pc, attempts, excepted, retries, current, ended, token>>

(* ... asks the thread to stop ...                                         *)
DestructorRequests ==
    /\ owner = "destroy"
    /\ token' = TRUE
    /\ owner' = "join"
    /\ UNCHANGED <<pc, attempts, excepted, retries, current, conn, shut, ended>>

(* ... and waits for it.                                                   *)
DestructorJoins ==
    /\ owner = "join" /\ pc = "done"
    /\ owner' = "done"
    /\ UNCHANGED <<pc, attempts, excepted, retries, current, conn, shut, ended, token>>

-----------------------------------------------------------------------------
Init ==
    /\ failover \in Groups
    /\ max \in [Servers -> MaxTries]
    /\ pc = "loop" /\ attempts = 0 /\ excepted = FALSE
    /\ retries = [s \in Servers |-> 0] /\ current = 1
    /\ conn = "none" /\ shut = FALSE /\ ended = FALSE
    /\ token = FALSE /\ owner = "use"

ThreadStep ==
    \/ LoopCheck \/ StartClears \/ ConnectFails \/ Connects \/ StartInits \/ WaitEnds
    \/ StopsAndDeletes \/ Decide \/ PickServer \/ Sleeps

CloseStep == OwnerStops \/ DestructorRequests \/ DestructorJoins

Steps == ThreadStep \/ ReaderLeaves \/ ConnectionEnds \/ OwnerChecks \/ CloseStep

Configured == UNCHANGED <<failover, max>>

Next == Steps /\ Configured

Spec == Init /\ [][Next]_vars

(* The three threads run; the peer and the network owe nothing, and an     *)
(* application need not close.                                             *)
Fairness ==
    /\ WF_vars(ThreadStep /\ Configured)
    /\ WF_vars(ReaderLeaves /\ Configured)
    /\ WF_vars(CloseStep /\ Configured)

FairSpec == Spec /\ Fairness

-----------------------------------------------------------------------------
(* Properties *)

(* A server is connected to at most max_retries times before the next one  *)
(* has its turn, and one that has had its turn starts afresh (the failover *)
(* part of ReliableClientSession::operator()).                             *)
RetriesKept ==
    \A s \in Servers :
        /\ retries[s] <= max[s] \/ max[s] = 0
        /\ s # current => retries[s] = 0
        /\ s = current /\ pc \in {"sleep", "connect"} /\ max[s] > 0 /\ ~token
               => retries[s] < max[s]

(* A client that is refused for ever goes round all its servers (the       *)
(* failover part of ReliableClientSession::operator()).                    *)
TriesEveryServer ==
    \A n \in Groups : \A s \in 1..n :
        failover = n => \/ []<>(pc = "connect" /\ current = s)
                        \/ <>[](conn = "up")
                        \/ <>(pc = "done")

(* Without failover the client stays connected, or uses up its             *)
(* login_retries and ends (has_given_up).                                  *)
StaysUpOrGivesUp == failover = 0 => <>[](conn = "up") \/ <>(pc = "done")

Disconnected == pc = "wait" /\ conn = "down" /\ owner = "use"

Reconnecting == pc = "connect" \/ Exhausted \/ owner # "use"

(* Without failover the client tries again after a disconnect or a refused *)
(* logon, unless it has used up its retries or is being closed             *)
(* (ReliableClientSession::operator()).                                    *)
RecoversAlone == failover = 0 /\ Disconnected ~> Reconnecting

(* So does a client with failover servers ("This client attempts to        *)
(* recover from disconnects and login rejects", sessionwrapper.hpp:280).   *)
Recovers == Disconnected ~> Reconnecting

=============================================================================
