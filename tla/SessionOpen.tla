---------------------------- MODULE SessionOpen ----------------------------
(***************************************************************************)
(* One engine and a counterparty of which nothing is assumed: it may send  *)
(* any message under any number at any time, with wrong comp ids, with a   *)
(* text that does not decode, before it has logged on, a second time, or   *)
(* with a reset of the numbers.  The socket may fail to take what an       *)
(* operation of the engine writes.  The engine may be killed between two   *)
(* operations and started again, with requested numbers or without.        *)
(***************************************************************************)
EXTENDS FixSession, FiniteSets

CONSTANTS
    MaxSeq,       \* largest number the counterparty puts into a message
    MaxMsgs,      \* messages it sends, less by one for each failed write
    MaxApp,       \* application messages the engine sends
    MaxStarts,    \* connections and restarts
    MaxFails,     \* operations whose writes fail
    ReqSend,      \* send numbers start() may be asked for, 0 for none
    ReqReceive    \* receive numbers start() may be asked for, 0 for none

ASSUME OpenAssumption ==
    /\ {MaxSeq, MaxMsgs, MaxApp, MaxStarts, MaxFails} \subseteq Nat
    /\ ReqSend \cup ReqReceive \subseteq Nat

VARIABLES
    ses,     \* the session
    active,  \* _active: the session schedule admits application messages
    log,     \* numbers of the original messages handed to the application
    last,    \* what the last operation was
    used     \* messages received, application messages sent, starts, failures

vars == <<ses, active, log, last, used>>

Settle(t) == [t EXCEPT !.out = <<>>, !.exc = "none", !.held = FALSE, !.got = 0, !.wire = TRUE]

(* The session as an operation finds it: w says whether the socket is      *)
(* going to take what the operation writes.                                *)
Wired(w) == [ses EXCEPT !.wire = w]

CanWrite(w) == w \/ (used["fails"] < MaxFails /\ used["msgs"] < MaxMsgs)

Failing(w) == [used EXCEPT !["fails"] = IF w THEN @ ELSE @ + 1]

Count(c, max, w) ==
    used[c] < max /\ CanWrite(w) /\ used' = [Failing(w) EXCEPT ![c] = @ + 1]

-----------------------------------------------------------------------------
(* What may be wrong with a message that decodes: its comp ids, or an      *)
(* OrigSendingTime after its SendingTime.                                  *)
Faults == {"none", "compid", "time"}

(* compid_check comes first in enforce and the comparison of the times     *)
(* last; a session that is logging on does not check the comp ids there.   *)
Faulty(s, m, fault) ==
    /\ m.type \notin {"Reject", "Malformed"}
    /\ m.type = "Logon" => s.st # "continuous"
    /\ IsEstablished(s.st)
    /\ \/ fault = "compid" /\ s.st # "logon_received" /\ m.type # "Logon"
       \/ fault = "time" /\ m.dup /\ m.seq < s.nr
            /\ m.type \notin {"SequenceReset", "Logon"}

(* process() for such a message.  An application message that arrives      *)
(* while the session is inactive is not even checked, and counted.         *)
process_any(s, m, fault, auth) ==
    CASE Faulty(s, m, fault) -> ForceLogoff(s)
      [] ~Faulty(s, m, fault) /\ m.type = "App" /\ ~active -> Finish(s, m)
      [] OTHER -> process(s, m, "ok", auth)

PeerMessages ==
    LET seqs == 1 .. MaxSeq
        plain == {[Msg(t) EXCEPT !.seq = q, !.dup = d, !.val = IF t = "App" THEN 1 ELSE 0] :
                     t \in {"App", "Logout", "Heartbeat", "TestRequest", "Reject", "Malformed"},
                     q \in seqs, d \in BOOLEAN}
        reset == {[Msg("SequenceReset") EXCEPT !.seq = q, !.new = n] : q \in seqs, n \in 1 .. MaxSeq + 1}
        again == {[Msg("ResendRequest") EXCEPT !.seq = q, !.begin = b, !.end = e] :
                     q \in seqs, b \in 0 .. 2, e \in 0 .. 1}
        logon == {[Msg("Logon") EXCEPT !.seq = q, !.reset = r] : q \in seqs, r \in BOOLEAN}
    IN  plain \cup reset \cup again \cup logon

(* The acceptor is to start from number 1 again.                           *)
Resets(m, auth) ==
    /\ m.type = "Logon" /\ m.reset /\ auth # "unknown"
    /\ ses.role = "acceptor" /\ ses.st # "continuous"

Reading == ~IsShutdown(ses) /\ ses.st # "none" /\ ~ses.rtx.on

(* What may become of a message besides what is in it.                     *)
FaultsOf(m) == {f \in Faults : f = "none" \/ Faulty(ses, m, f)}

OutcomesOf(m) ==
    IF m.type # "Logon" THEN {"ok"}
    ELSE IF ses.role = "acceptor" THEN LogonOutcomes ELSE {"ok", "unknown"}

Receive ==
    /\ Reading /\ ~ses.starting /\ ~ses.tr
    /\ used["msgs"] + used["fails"] < MaxMsgs
    /\ \E m \in PeerMessages, w \in BOOLEAN : \E fault \in FaultsOf(m), auth \in OutcomesOf(m) :
          /\ Count("msgs", MaxMsgs, w)
          /\ LET t == process_any(Wired(w), m, fault, auth)
             IN  /\ ses' = Settle(t)
                 /\ log' = CASE Resets(m, auth) -> <<>>
                             [] t.got # 0 /\ ~m.dup -> Append(log, m.seq)
                             [] OTHER -> log
          /\ last' = CASE m.type = "Logon" /\ m.reset  -> "reset"
                       [] m.type = "Logon" /\ ~m.reset -> "logon"
                       [] m.type # "Logon" -> "receive"
    /\ UNCHANGED active

ResendNext ==
    /\ ses.rtx.on
    /\ \E record \in ses.store, w \in BOOLEAN :
          /\ record[1] \in ses.rtx.todo
          /\ \A q \in ses.rtx.todo : record[1] <= q
          /\ CanWrite(w) /\ used' = Failing(w)
          /\ ses' = Settle(ResendStep(Wired(w), record))
    /\ last' = "resend"
    /\ UNCHANGED <<active, log>>

ResendEnd ==
    /\ ses.rtx.on /\ ses.rtx.todo = {}
    /\ \E w \in BOOLEAN :
          /\ CanWrite(w) /\ used' = Failing(w)
          /\ ses' = Settle(ResendDone(Wired(w)))
    /\ last' = "resend"
    /\ UNCHANGED <<active, log>>

ReaderEOF ==
    /\ Reading
    /\ ses' = Settle(ReaderEnds(ses))
    /\ last' = "end"
    /\ UNCHANGED <<active, log, used>>

AppSend ==
    /\ IsEstablished(ses.st) /\ ~IsShutdown(ses) /\ ~ses.rtx.on
    /\ \E w \in BOOLEAN :
          /\ Count("app", MaxApp, w)
          /\ ses' = Settle(send(Wired(w), generate_application(1)))
    /\ last' = "send"
    /\ UNCHANGED <<active, log>>

(* The timer finds that nothing has been received for too long.            *)
Tick ==
    /\ ses.timer /\ ~ses.tr /\ ~IsShutdown(ses) /\ ~ses.rtx.on
    /\ \E w \in BOOLEAN :
          /\ CanWrite(w) /\ used' = Failing(w)
          /\ ses' = Settle(LET t == heartbeat_service(Wired(w), FALSE, TRUE)
                           IN  IF t.tr THEN TestRequestSent(t) ELSE t)
    /\ last' = "tick"
    /\ UNCHANGED <<active, log>>

activation_service ==
    /\ ~IsShutdown(ses) /\ ses.st # "none"
    /\ active' = ~active
    /\ last' = "schedule"
    /\ UNCHANGED <<ses, log, used>>

-----------------------------------------------------------------------------
(* start() of the initiator with requested numbers, through to the state   *)
(* change that follows the logon.                                          *)
StartRequested(s, req) ==
    LET i == [s EXCEPT !.st = "not_logged_in", !.ns = 1, !.nr = 1, !.shut = FALSE,
                       !.closed = FALSE, !.rtx = NoRtx, !.tr = FALSE, !.timer = FALSE]
        r == IF ResetSeqNums THEN i ELSE recover_seqnums(i)
        q == IF ResetSeqNums THEN r
             ELSE [r EXCEPT !.ns = IF req[1] # 0 THEN req[1] ELSE @,
                            !.nr = IF req[2] # 0 THEN req[2] ELSE @]
    IN  do_state_change(send(q, generate_logon("initiator")), "logon_sent")

Start ==
    /\ (IsShutdown(ses) \/ ses.st = "none") /\ ~ses.rtx.on
    /\ \E req \in ReqSend \X ReqReceive, w \in BOOLEAN :
          /\ ses.role = "acceptor" => req = <<0, 0>> /\ w
          /\ Count("starts", MaxStarts, w)
          /\ ses' = Settle(IF ses.role = "initiator" THEN StartRequested(Wired(w), req)
                           ELSE StartAcceptor(ses))
          /\ log' = IF req = <<0, 0>> THEN log ELSE <<>>
    /\ last' = "start"
    /\ UNCHANGED active

(* The process is killed and a new one opens what is on disk.              *)
Crash ==
    /\ ses.st # "none"
    /\ ses' = Killed(ses)
    /\ active' = TRUE
    /\ last' = "crash"
    /\ UNCHANGED <<log, used>>

Init ==
    /\ \E role \in Roles : ses = Fresh(role, {}, <<0, 0>>)
    /\ active = TRUE
    /\ log = <<>>
    /\ last = "crash"
    /\ used = [c \in {"msgs", "app", "starts", "fails"} |-> 0]

Next ==
    \/ Receive
    \/ ResendNext
    \/ ResendEnd
    \/ ReaderEOF
    \/ AppSend
    \/ Tick
    \/ activation_service
    \/ Start
    \/ Crash

Spec == Init /\ [][Next]_vars

-----------------------------------------------------------------------------
(* Properties *)

(* Whatever the counterparty sends, and over any crash, no original message *)
(* is handed to the application twice and none before an earlier one, until *)
(* the numbers are reset or requested (sequence_check, process).           *)
DeliveredInOrder ==
    \A i, j \in DOMAIN log : i < j => log[i] < log[j]

InSession == ses.timer /\ ~IsShutdown(ses)

(* In a session that has logged on the control record is never ahead of    *)
(* the number expected in memory, so that no message is skipped after a    *)
(* crash.  It is behind by the one message that was rejected last and by   *)
(* no more than one for every operation whose writes failed: a message     *)
(* whose rejection cannot be written is counted and not recorded           *)
(* (update_persist_seqnums, send_process, the catch clause of process).    *)
RecordLag == InSession => ses.nr - ses.ctrl[2] \in 0 .. 1 + used["fails"]

(* The number expected never falls while a session lasts, whatever resets  *)
(* and duplicates arrive; only a logon sets it back                        *)
(* (handle_sequence_reset, handle_logon).                                  *)
ExpectedNeverFalls ==
    [][last' \in {"receive", "resend", "send", "tick", "end"} => ses'.nr >= ses.nr]_vars

(* The application of an acceptor is handed nothing unless a logon was     *)
(* accepted on this connection, whatever comes before it (enforce,         *)
(* handle_logon).  For an initiator this fails: a resend request before    *)
(* the logon is served and leaves the session in st_continuous.            *)
NothingBeforeLogon ==
    [][ses.role = "acceptor" /\ Len(log') > Len(log) => ses.timer]_vars

(* What was sent stays on disk to be resent, whatever the counterparty     *)
(* sends, and over refused logons, restarts and crashes; only a logon that *)
(* asks for a reset purges it (handle_logon, create_persister).            *)
ResendableKept == [][last' # "reset" => ses.store \subseteq ses'.store]_vars

=============================================================================
