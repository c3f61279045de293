----------------------------- MODULE FixSession -----------------------------
(***************************************************************************)
(* The session layer of the engine (runtime/session.cpp) as operators on   *)
(* the record that stands for one Session object together with the file   *)
(* persister it owns.  Every operator takes a session and returns the      *)
(* session after the call; the messages it wrote are appended to field     *)
(* out, an exception in flight is kept in field exc.                       *)
(*                                                                         *)
(* Process model: pm_thread.  The reader thread runs process(), send()     *)
(* runs send_process() on the caller's thread under the writer's lock.     *)
(* The reader's update_persist_seqnums() does not take that lock: where it *)
(* comes between the two ends of a send_process() is SendOvertaken; every  *)
(* other operator runs with no send under way.                             *)
(***************************************************************************)
EXTENDS Integers, Sequences

CONSTANTS
    IgnoreLogonSeqCheck, \* configuration flag ignore_logon_sequence_check
    AlwaysSeqnumAssign,  \* configuration flag always_seqnum_assign
    SilentDisconnect,    \* configuration flag silent_disconnect
    Reliable,            \* the initiator is a ReliableClientSession
    ResetSeqNums         \* configuration flag reset_sequence_numbers of the initiator

ASSUME FlagsAssumption ==
    /\ IgnoreLogonSeqCheck \in BOOLEAN
    /\ AlwaysSeqnumAssign \in BOOLEAN
    /\ SilentDisconnect \in BOOLEAN
    /\ Reliable \in BOOLEAN
    /\ ResetSeqNums \in BOOLEAN

-----------------------------------------------------------------------------
(* States, messages, sessions *)

SessionStates ==
    {"none", "continuous", "session_terminated", "wait_for_logon",
     "not_logged_in", "logon_sent", "logon_received", "logoff_sent",
     "test_request_sent", "resend_request_sent", "resend_request_received"}

IsLive(st) == st \notin {"none", "session_terminated"}

IsEstablished(st) ==
    st \notin {"wait_for_logon", "not_logged_in", "logon_sent"} /\ IsLive(st)

Roles == {"initiator", "acceptor"}

MsgTypes == {"App", "Logon", "Logout", "Heartbeat", "TestRequest",
             "ResendRequest", "SequenceReset", "Reject", "Malformed"}

(* val is the payload of an application message; 0 stands for no payload.  *)
(* seq = 0: the header has no MsgSeqNum yet.  "Malformed": the factory     *)
(* refuses the message (a bad checksum, a missing mandatory field).        *)
Messages ==
    {m \in [type: MsgTypes, seq: Nat, dup: BOOLEAN, val: Nat, new: Nat,
            begin: Nat, end: Nat, reset: BOOLEAN] :
        /\ m.type = "SequenceReset" => m.new > 0
        /\ m.reset => ResetSeqNums}

Msg(type) == [type |-> type, seq |-> 0, dup |-> FALSE, val |-> 0, new |-> 0,
              begin |-> 0, end |-> 0, reset |-> FALSE]

generate_application(v) == [Msg("App") EXCEPT !.val = v]
generate_resend_request(b) == [Msg("ResendRequest") EXCEPT !.begin = b]
generate_sequence_reset(n) == [Msg("SequenceReset") EXCEPT !.new = n]
generate_logon(role) ==
    [Msg("Logon") EXCEPT !.reset = role = "initiator" /\ ResetSeqNums]

(* The retransmission context of a range query in progress: todo holds the *)
(* sequence numbers of the stored messages still to be resent.             *)
RetransmissionContext ==
    [on: BOOLEAN, begin: Nat, interrupted: Nat, last: Nat, todo: SUBSET Nat]

NoRtx == [on |-> FALSE, begin |-> 0, interrupted |-> 0, last |-> 0, todo |-> {}]

(* An in-flight exception: "logoff" is an f8Exception with force_logoff    *)
(* set, "other" a std::exception of the application.                       *)
Exceptions == {"none", "logoff", "other"}

(* store, ctrl: message records and the control record <<next send, next  *)
(* receive>> on disk (<<0, 0>>: none); per: a persister is attached.       *)
(* timer: heartbeat_service is scheduled; shut: the shutdown control flag. *)
(* tr: heartbeat_service has sent a test request and not yet changed the   *)
(* state; starting: start() has sent the logon and not yet changed it.     *)
(* out, exc, held, got, wire exist only inside an action: messages written, *)
(* exception, enforce's result, value handed to the application, and       *)
(* whether the socket accepts what is written.  closed: we shut the socket.*)
Sessions ==
    [role: Roles, st: SessionStates, ns: Nat, nr: Nat, shut: BOOLEAN,
     closed: BOOLEAN, per: BOOLEAN, timer: BOOLEAN, tr: BOOLEAN, starting: BOOLEAN,
     store: SUBSET (Nat \X Nat), ctrl: Nat \X Nat, rtx: RetransmissionContext,
     out: Seq(Messages), exc: Exceptions, held: BOOLEAN, got: Nat, wire: BOOLEAN]

IsShutdown(s) == s.shut \/ s.st = "session_terminated"

do_state_change(s, st) == [s EXCEPT !.st = st]

Throw(s, e) == [s EXCEPT !.exc = e]

-----------------------------------------------------------------------------
(* The file persister as the session sees it *)

Stored(s) == {r[1] : r \in s.store}

(* Mutant: the record is filed under the following number.                 *)
put_message_late(s, q, v) ==
    IF ~s.per \/ q = 0 \/ q \in Stored(s) THEN s
    ELSE [s EXCEPT !.store = @ \cup {<<q + 1, v>>}]

put_message(s, q, v) ==
    IF ~s.per \/ q = 0 \/ q \in Stored(s) THEN s
    ELSE [s EXCEPT !.store = @ \cup {<<q, v>>}]

put_control(s, snd, rcv) == IF s.per THEN [s EXCEPT !.ctrl = <<snd, rcv>>] ELSE s

update_persist_seqnums(s) == put_control(s, s.ns, s.nr)

(* Mutant: a session that finds its control record does not take it over.  *)
recover_seqnums_forgets(s) == s

recover_seqnums(s) ==
    IF s.per /\ s.ctrl # <<0, 0>> THEN [s EXCEPT !.ns = s.ctrl[1], !.nr = s.ctrl[2]]
    ELSE s

(* The range query: the numbers of the stored messages from begin to end,  *)
(* or to the last one when end is 0.  Messages stored while the query runs *)
(* have greater numbers and are not part of an open-ended query.           *)
StoredRange(s, begin, end) ==
    {q \in Stored(s) : begin <= q /\ (end = 0 \/ q <= end)}

-----------------------------------------------------------------------------
(* Sending *)

(* send_process: number the message, write it, then persist it and count   *)
(* it.  A message that already carries a sequence number is a possible     *)
(* duplicate and is neither persisted nor counted.                         *)
Stamp(s, m, custom) ==
    LET fresh == IF custom # 0 THEN custom ELSE s.ns
        have  == m.seq # 0
    IN  [m EXCEPT !.seq = IF have /\ ~AlwaysSeqnumAssign THEN @ ELSE fresh,
                  !.dup = IF have THEN ~AlwaysSeqnumAssign ELSE @]

IsDup(m) == m.dup \/ (m.seq # 0 /\ ~AlwaysSeqnumAssign)

(* Mutant: the control record is left to the next message received.        *)
Record_unpersisted(s, m, custom, noinc, text) ==
    IF IsDup(m) THEN s
    ELSE LET p == IF m.type = "App" THEN put_message(s, s.ns, text) ELSE s
         IN  IF custom # 0 \/ noinc \/ m.type = "SequenceReset" THEN p
             ELSE [p EXCEPT !.ns = @ + 1]

Record(s, m, custom, noinc, text) ==
    IF IsDup(m) THEN s
    ELSE LET p == IF m.type = "App" THEN put_message(s, s.ns, text) ELSE s
             c == put_control(p, s.ns + 1, s.nr)
         IN  IF custom # 0 \/ noinc \/ m.type = "SequenceReset" THEN c
             ELSE [c EXCEPT !.ns = @ + 1]

send_process(s, m, custom, noinc) ==
    IF ~s.wire THEN s
    ELSE Record([s EXCEPT !.out = Append(@, Stamp(s, m, custom))],
                m, custom, noinc, m.val)

send(s, m) == send_process(s, m, 0, FALSE)

(* write_batch of two messages: the first is numbered, persisted and       *)
(* counted while it waits in the batch buffer; the second flushes both and *)
(* is persisted from the buffer, which has been cleared by then.           *)
send_batch(s, m1, m2) ==
    LET a == Record(s, m1, 0, FALSE, m1.val)
    IN  IF ~s.wire THEN a
        ELSE Record([a EXCEPT !.out = @ \o <<Stamp(s, m1, 0), Stamp(a, m2, 0)>>],
                    m2, 0, FALSE, 0)

stop(s) ==
    IF s.shut THEN s
    ELSE [s EXCEPT !.shut = TRUE, !.closed = TRUE, !.wire = FALSE,
                   !.timer = IF s.role = "initiator" THEN FALSE ELSE @]

-----------------------------------------------------------------------------
(* Sequence checking *)

(* Mutant: a number that is too low passes as a duplicate.                 *)
sequence_check_lenient(s, m) ==
    CASE m.seq > s.nr /\ s.st = "continuous" ->
            do_state_change(send([s EXCEPT !.held = TRUE], generate_resend_request(s.nr)),
                            "resend_request_sent")
      [] m.seq > s.nr /\ s.st # "continuous" ->
            IF IgnoreLogonSeqCheck THEN [s EXCEPT !.held = TRUE] ELSE Throw(s, "logoff")
      [] OTHER -> s

sequence_check(s, m) ==
    CASE m.seq > s.nr /\ s.st = "continuous" ->
            do_state_change(send([s EXCEPT !.held = TRUE], generate_resend_request(s.nr)),
                            "resend_request_sent")
      [] m.seq > s.nr /\ s.st # "continuous" ->
            IF IgnoreLogonSeqCheck THEN [s EXCEPT !.held = TRUE] ELSE Throw(s, "logoff")
      [] m.seq < s.nr /\ ~m.dup -> Throw(s, "logoff")
      [] OTHER -> s

(* Mutant: the sequence number is all that is checked.                     *)
enforce_unestablished(s, m) ==
    IF m.type # "SequenceReset" THEN sequence_check(s, m) ELSE [s EXCEPT !.held = TRUE]

(* enforce returns true, here held, when the application is not to see the *)
(* message: there is a gap, or the session is not established.             *)
enforce(s, m) ==
    IF IsEstablished(s.st) /\ m.type # "SequenceReset" THEN sequence_check(s, m)
    ELSE [s EXCEPT !.held = TRUE]

-----------------------------------------------------------------------------
(* Handlers.  Each begins with enforce; an exception ends it.              *)

(* Mutant: the application sees a message that enforce holds back.         *)
handle_application_unheld(s, m, outcome) ==
    LET e == enforce(s, m)
    IN  CASE e.exc # "none"     -> e
          [] outcome = "throws" -> Throw(e, "other")
          [] OTHER              -> [e EXCEPT !.got = m.val]

(* The application's handle_application: enforce(...) || process(router).  *)
(* outcome "throws": the router throws a std::exception.                   *)
handle_application(s, m, outcome) ==
    LET e == enforce(s, m)
    IN  IF e.exc # "none" \/ e.held THEN e
        ELSE IF outcome = "throws" THEN Throw(e, "other") ELSE [e EXCEPT !.got = m.val]

handle_heartbeat(s, m) ==
    LET e == enforce(s, m)
    IN  IF e.exc = "none" /\ e.st = "test_request_sent"
        THEN do_state_change(e, "continuous") ELSE e

handle_test_request(s, m) ==
    LET e == enforce(s, m)
    IN  IF e.exc = "none" THEN send(e, Msg("Heartbeat")) ELSE e

handle_logout(s, m) == enforce(s, m)

(* Mutant: the recovery is not marked as over.                             *)
handle_sequence_reset_stays(s, m) ==
    IF m.new >= s.nr THEN [s EXCEPT !.nr = m.new - 1] ELSE Throw(s, "logoff")

(* Mutant: any new number is taken over.                                   *)
handle_sequence_reset_any(s, m) ==
    LET c == IF s.st = "resend_request_sent" THEN do_state_change(s, "continuous") ELSE s
    IN  [c EXCEPT !.nr = m.new - 1]

handle_sequence_reset(s, m) ==
    LET c == IF s.st = "resend_request_sent" THEN do_state_change(s, "continuous") ELSE s
    IN  IF m.new >= s.nr THEN [c EXCEPT !.nr = m.new - 1] ELSE Throw(s, "logoff")

(* Range check, then the range query of the persister: the callbacks are   *)
(* the steps of ResendStep and ResendDone.                                 *)
handle_resend_request(s, m) ==
    LET e    == enforce(s, m)
        nseq == IF m.begin >= e.ns THEN m.begin + 1 ELSE e.ns
    IN  CASE e.exc # "none" \/ e.st = "resend_request_received" -> e
          [] e.exc = "none" /\ e.st # "resend_request_received"
             /\ ((m.begin > m.end /\ m.end # 0) \/ m.begin = 0) -> send(e, Msg("Reject"))
          [] OTHER ->
             IF ~e.per
             THEN [send_process(e, generate_sequence_reset(nseq), m.begin, FALSE)
                      EXCEPT !.ns = nseq]
             ELSE [e EXCEPT !.st = "resend_request_received",
                            !.rtx = [on |-> TRUE, begin |-> m.begin, interrupted |-> e.ns,
                                     last |-> 0, todo |-> StoredRange(e, m.begin, m.end)]]

(* auth: what the checks of the logon say.  "unknown": the compids or the  *)
(* client list refuse the peer; "denied": authenticate() does; "closed":   *)
(* the login schedule does, after the reply has been sent.                 *)
LogonOutcomes == {"ok", "unknown", "denied", "closed"}

LogonRefused(s) == do_state_change(stop(s), "session_terminated")

LogonInitiator(s, m, auth) ==
    LET e == enforce(s, m)
    IN  CASE auth = "unknown" -> LogonRefused(s)
          [] auth # "unknown" /\ e.exc # "none" -> e
          [] OTHER -> [e EXCEPT !.st = "continuous", !.timer = TRUE]

(* Mutant: the acceptor's persister is created anew at each logon.         *)
AttachPersister_anew(s, m) ==
    IF s.per THEN s ELSE [s EXCEPT !.per = TRUE, !.store = {}, !.ctrl = <<0, 0>>]

(* The acceptor opens its persister only here, purging it when the logon   *)
(* asks for a reset.                                                       *)
AttachPersister(s, m) ==
    IF s.per THEN s
    ELSE [s EXCEPT !.per = TRUE,
                   !.store = IF m.reset THEN {} ELSE @,
                   !.ctrl = IF m.reset THEN <<0, 0>> ELSE @]

(* Mutant: the acceptor takes the logon and does not answer it.            *)
LogonAcceptor_silent(s, m, auth) ==
    LET r == recover_seqnums(AttachPersister(s, m))
        e == enforce(r, m)
    IN  IF e.exc # "none" THEN e ELSE [e EXCEPT !.st = "continuous", !.timer = TRUE]

LogonAcceptor(s, m, auth) ==
    LET a == AttachPersister(s, m)
        r == IF m.reset THEN [a EXCEPT !.ns = 1, !.nr = 1] ELSE recover_seqnums(a)
        e == enforce(r, m)
        l == do_state_change(send(e, generate_logon(s.role)), "continuous")
    IN  CASE auth = "unknown" -> LogonRefused(s)
          [] auth = "denied"  -> LogonRefused(r)
          [] auth \in {"ok", "closed"} /\ e.exc # "none" -> e
          [] auth = "closed" /\ e.exc = "none" -> LogonRefused(l)
          [] auth = "ok" /\ e.exc = "none" -> [l EXCEPT !.timer = TRUE]

handle_logon(s, m, auth) ==
    IF s.st = "continuous" THEN send(s, Msg("Reject"))
    ELSE LET r == do_state_change(s, "logon_received")
         IN  IF s.role = "initiator" THEN LogonInitiator(r, m, auth)
             ELSE LogonAcceptor(r, m, auth)

-----------------------------------------------------------------------------
(* process() *)

Dispatch(s, m, outcome, auth) ==
    CASE m.type = "App"           -> handle_application(s, m, outcome)
      [] m.type = "Heartbeat"     -> handle_heartbeat(s, m)
      [] m.type = "TestRequest"   -> handle_test_request(s, m)
      [] m.type = "ResendRequest" -> handle_resend_request(s, m)
      [] m.type \in {"Reject", "Malformed"} -> s
      [] m.type = "SequenceReset" -> handle_sequence_reset(s, m)
      [] m.type = "Logout"        -> handle_logout(s, m)
      [] m.type = "Logon"         -> handle_logon(s, m, auth)

(* The tail of process(): count the message, persist, stop after a logout. *)
Finish(s, m) ==
    LET p == update_persist_seqnums([s EXCEPT !.nr = @ + 1])
    IN  IF m.type = "Logout" THEN stop(p) ELSE p

(* The catch clauses.  A reliable initiator rethrows: its reader ends and  *)
(* the client drops the connection.                                        *)
ForceLogoff(s) ==
    LET t == IF s.st = "logon_received" /\ ~SilentDisconnect
             THEN do_state_change(send_process(s, Msg("Logout"), 0, TRUE), "logoff_sent")
             ELSE s
    IN  IF Reliable /\ s.role = "initiator"
        THEN [t EXCEPT !.st = IF t.shut THEN @ ELSE "session_terminated",
                       !.closed = TRUE]
        ELSE stop(t)

(* Mutant: the message is counted and not answered.                        *)
Rejected_silent(s) == [s EXCEPT !.nr = @ + 1, !.rtx = NoRtx]

Rejected(s) ==
    LET r == send(s, Msg("Reject")) IN [r EXCEPT !.nr = @ + 1, !.rtx = NoRtx]

(* Mutant: a message whose handler threw is counted like any other.        *)
process_counts_thrown(s, m, outcome, auth) ==
    LET h == Dispatch(s, m, outcome, auth)
    IN  CASE m.type = "Malformed" -> Rejected(s)
          [] m.type # "Malformed" /\ h.exc = "logoff" -> ForceLogoff(h)
          [] OTHER -> IF h.rtx.on THEN h ELSE Finish(h, m)

process(s, m, outcome, auth) ==
    LET h == Dispatch(s, m, outcome, auth)
    IN  CASE m.type = "Malformed" -> Rejected(s)
          [] m.type # "Malformed" /\ h.exc = "logoff" -> ForceLogoff(h)
          [] m.type # "Malformed" /\ h.exc = "other"  -> h
          [] OTHER -> IF h.rtx.on THEN h ELSE Finish(h, m)

(* The reader counts message m while another thread is inside send_process *)
(* with message a, past its puts and not yet at ++_next_send_seq: the two  *)
(* threads share _per_spl only, the reader reads the number as it was, and *)
(* its control record replaces the sender's.                               *)
SendOvertaken(s, m, a) ==
    LET r == process(s, m, "ok", "ok")
    IN  put_control(send(r, a), r.ns, r.nr)

(* One record of the range query: retrans_callback fills the hole before   *)
(* it, then resends it.  A record that does not decode throws out of the   *)
(* query and of the handler; when the socket fails, the query ends.        *)
ResendStep(s, record) ==
    LET q    == record[1]
        hole == IF s.rtx.last # 0 THEN s.rtx.last + 1 < q ELSE q > s.rtx.begin
        g    == IF hole THEN send_process(s, generate_sequence_reset(q),
                                          IF s.rtx.last # 0 THEN s.ns ELSE 0, FALSE)
                ELSE s
        r    == send(g, [generate_application(record[2]) EXCEPT !.seq = q])
    IN  IF record[2] = 0 THEN Rejected(g)
        ELSE [r EXCEPT !.rtx.last = q, !.rtx.todo = IF s.wire THEN @ \ {q} ELSE {}]

(* Mutant: the final gap fill announces a number that is not taken over.   *)
ResendDone_keeps_number(s) ==
    LET x    == s.rtx
        from == IF x.last = 0 THEN x.begin ELSE x.last + 1
        nseq == IF from >= x.interrupted THEN from + 1 ELSE x.interrupted
        r    == send_process(s, generate_sequence_reset(nseq), from, FALSE)
    IN  Finish([r EXCEPT !.st = "continuous", !.rtx = NoRtx], Msg("ResendRequest"))

(* Mutant: the state is not set back when the resend is over.              *)
ResendDone_keeps_state(s) ==
    LET x    == s.rtx
        from == IF x.last = 0 THEN x.begin ELSE x.last + 1
        nseq == IF from >= x.interrupted THEN from + 1 ELSE x.interrupted
        r    == send_process(s, generate_sequence_reset(nseq), from, FALSE)
    IN  Finish([r EXCEPT !.ns = nseq, !.rtx = NoRtx], Msg("ResendRequest"))

(* Mutant: the next number is computed relative to the current one.        *)
ResendDone_relative(s) ==
    LET x    == s.rtx
        from == IF x.last = 0 THEN x.begin ELSE x.last + 1
        nseq == IF from >= x.interrupted THEN from + 1 ELSE x.interrupted
        r    == send_process(s, generate_sequence_reset(nseq), from, FALSE)
    IN  Finish([r EXCEPT !.ns = nseq - @ - 1, !.st = "continuous", !.rtx = NoRtx],
               Msg("ResendRequest"))

(* No more records: the final gap fill, then the tail of process().        *)
ResendDone(s) ==
    LET x    == s.rtx
        from == IF x.last = 0 THEN x.begin ELSE x.last + 1
        nseq == IF from >= x.interrupted THEN from + 1 ELSE x.interrupted
        r    == send_process(s, generate_sequence_reset(nseq), from, FALSE)
    IN  Finish([r EXCEPT !.ns = nseq, !.st = "continuous", !.rtx = NoRtx],
               Msg("ResendRequest"))

-----------------------------------------------------------------------------
(* Starting, ending *)

(* start() of the initiator up to and including the logon it sends.  A     *)
(* reliable client starts the same session object again; any other client  *)
(* makes a new one, whose persister is purged when the numbers are reset.  *)
StartInitiator(s) ==
    LET purge == ResetSeqNums /\ ~Reliable
        i == [s EXCEPT !.st = "not_logged_in", !.ns = 1, !.nr = 1, !.shut = FALSE,
                       !.closed = FALSE, !.starting = TRUE, !.rtx = NoRtx, !.tr = FALSE,
                       !.timer = FALSE, !.store = IF purge THEN {} ELSE @,
                       !.ctrl = IF purge THEN <<0, 0>> ELSE @]
        r == IF ResetSeqNums THEN i ELSE recover_seqnums(i)
    IN  send(r, generate_logon("initiator"))

(* A new acceptor instance waits for a logon; its persister comes later.   *)
StartAcceptor(s) ==
    [s EXCEPT !.st = "wait_for_logon", !.ns = 1, !.nr = 1, !.shut = FALSE,
              !.closed = FALSE, !.per = FALSE, !.timer = FALSE, !.tr = FALSE, !.rtx = NoRtx]

(* The reader meets the end of the connection.                             *)
ReaderEnds(s) == IF IsShutdown(s) THEN s ELSE do_state_change(s, "session_terminated")

(* heartbeat_service on the timer thread: due says that nothing was sent   *)
(* for a heartbeat interval, idle that nothing was received for longer.    *)
(* Aborting, the initiator calls Timer::clear from a timer callback, which *)
(* waits for the lock its own thread holds: the socket is never closed.    *)
heartbeat_service(s, due, idle) ==
    LET h == IF due THEN send(s, Msg("Heartbeat")) ELSE s
        l == do_state_change(send_process(h, Msg("Logout"), 0, TRUE), "logoff_sent")
    IN  CASE idle /\ s.st = "test_request_sent" ->
                IF s.role = "initiator" THEN [l EXCEPT !.shut = TRUE, !.timer = FALSE]
                ELSE stop(l)
          [] idle /\ s.st # "test_request_sent" ->
                [send(h, Msg("TestRequest")) EXCEPT !.tr = TRUE]
          [] OTHER -> h

(* ... and the state change that follows the test request.                 *)
TestRequestSent(s) == [s EXCEPT !.st = "test_request_sent", !.tr = FALSE]

Fresh(role, store, ctrl) ==
    [role |-> role, st |-> "none", ns |-> 1, nr |-> 1, shut |-> FALSE, closed |-> TRUE,
     per |-> role = "initiator", timer |-> FALSE, tr |-> FALSE, starting |-> FALSE,
     store |-> store, ctrl |-> ctrl, rtx |-> NoRtx,
     out |-> <<>>, exc |-> "none", held |-> FALSE, got |-> 0, wire |-> TRUE]

(* The process dies and a new one opens what is on disk; a client that is  *)
(* to reset the sequence numbers purges it.                                *)
Killed(s) ==
    IF s.role = "initiator" /\ ResetSeqNums THEN Fresh(s.role, {}, <<0, 0>>)
    ELSE Fresh(s.role, s.store, s.ctrl)

=============================================================================
