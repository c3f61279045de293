-------------------------- MODULE FixSessionProofs --------------------------
(***************************************************************************)
(* Lemmas about the operators of the session layer that the proofs about   *)
(* one engine and about a pair of engines share: every operation takes a   *)
(* session to a session, whatever its flags and whatever message arrives.  *)
(***************************************************************************)
EXTENDS FixSession, TLAPS

(* What may arrive: unlike a message of an engine, a message of any other  *)
(* counterparty may ask for a reset although nobody configured one.        *)
Received ==
    {m \in [type: MsgTypes, seq: Nat, dup: BOOLEAN, val: Nat, new: Nat,
            begin: Nat, end: Nat, reset: BOOLEAN] :
        m.type = "SequenceReset" => m.new > 0}

(* What an engine sends is among what any counterparty may send.          *)
LEMMA MessagesReceived == Messages \subseteq Received
BY DEF Messages, Received

(* A message with nothing but its type is a message.                       *)
LEMMA MsgType ==
    ASSUME NEW type \in MsgTypes, type # "SequenceReset"
    PROVE  Msg(type) \in Messages
BY DEF Msg, Messages, MsgTypes

(* The generate_ functions build messages; a sequence reset needs a        *)
(* positive number.                                                        *)
LEMMA GenerateType ==
    /\ \A v \in Nat : generate_application(v) \in Messages
    /\ \A b \in Nat : generate_resend_request(b) \in Messages
    /\ \A n \in Nat : n > 0 => generate_sequence_reset(n) \in Messages
    /\ \A r \in Roles : generate_logon(r) \in Messages
BY FlagsAssumption DEF generate_application, generate_resend_request, generate_sequence_reset,
    generate_logon, Msg, Messages, MsgTypes, Roles

(* send_process numbers a message with a natural number.                   *)
LEMMA StampType ==
    ASSUME NEW s \in Sessions, NEW m \in Messages, NEW custom \in Nat
    PROVE  Stamp(s, m, custom) \in Messages
BY FlagsAssumption DEF Stamp, Sessions, Messages

(* The persister's operations keep the session's type.                     *)
LEMMA PersisterType ==
    ASSUME NEW s \in Sessions
    PROVE  /\ \A q, v \in Nat : put_message(s, q, v) \in Sessions
           /\ \A a, b \in Nat : put_control(s, a, b) \in Sessions
           /\ update_persist_seqnums(s) \in Sessions
           /\ recover_seqnums(s) \in Sessions
<1>1. ASSUME NEW q \in Nat, NEW v \in Nat
      PROVE  put_message(s, q, v) \in Sessions
  <2>1. s.store \cup {<<q, v>>} \in SUBSET (Nat \X Nat)
    BY DEF Sessions
  <2> QED
    BY <2>1 DEF put_message, Sessions
<1>2. \A a, b \in Nat : put_control(s, a, b) \in Sessions
  BY DEF put_control, Sessions
<1>3. update_persist_seqnums(s) \in Sessions
  BY <1>2 DEF update_persist_seqnums, Sessions
<1>4. recover_seqnums(s) \in Sessions
  BY DEF recover_seqnums, Sessions
<1> QED
  BY <1>1, <1>2, <1>3, <1>4

(* Setting a number to a natural number keeps the type.                    *)
LEMMA NumberType ==
    ASSUME NEW s \in Sessions, NEW n \in Nat
    PROVE  [s EXCEPT !.ns = n] \in Sessions /\ [s EXCEPT !.nr = n] \in Sessions
BY DEF Sessions

(* Counting a sent message or a received one keeps the type.               *)
LEMMA CountType ==
    ASSUME NEW s \in Sessions
    PROVE  /\ s.ns \in Nat /\ s.ns + 1 \in Nat
           /\ s.nr \in Nat /\ s.nr + 1 \in Nat
           /\ [s EXCEPT !.ns = @ + 1] \in Sessions
           /\ [s EXCEPT !.nr = @ + 1] \in Sessions
<1>1. s.ns \in Nat /\ s.ns + 1 \in Nat /\ s.nr \in Nat /\ s.nr + 1 \in Nat
  BY DEF Sessions
<1> QED
  BY <1>1 DEF Sessions

(* Record and send_process keep the type, whatever the custom number and   *)
(* the flags.                                                              *)
LEMMA SendType ==
    ASSUME NEW s \in Sessions, NEW m \in Messages, NEW custom \in Nat,
           NEW noinc \in BOOLEAN
    PROVE  /\ \A text \in Nat : Record(s, m, custom, noinc, text) \in Sessions
           /\ send_process(s, m, custom, noinc) \in Sessions
<1>1. ASSUME NEW t \in Sessions, NEW text \in Nat
      PROVE  Record(t, m, custom, noinc, text) \in Sessions
  <2> DEFINE p == IF m.type = "App" THEN put_message(t, t.ns, text) ELSE t
  <2> DEFINE c == put_control(p, t.ns + 1, t.nr)
  <2>1. t.ns \in Nat /\ t.ns + 1 \in Nat /\ t.nr \in Nat
    BY DEF Sessions
  <2>2. p \in Sessions
    BY <2>1, PersisterType
  <2>3. c \in Sessions
    <3> HIDE DEF p
    <3> QED
      BY <2>1, <2>2, PersisterType
  <2>4. [c EXCEPT !.ns = @ + 1] \in Sessions
    <3> HIDE DEF c
    <3> QED
      BY <2>3, CountType
  <2> HIDE DEF c
  <2> QED
    BY <2>3, <2>4 DEF Record, c, p
<1>2. send_process(s, m, custom, noinc) \in Sessions
  <2> DEFINE o == [s EXCEPT !.out = Append(@, Stamp(s, m, custom))]
  <2>1. o \in Sessions
    <3>1. Append(s.out, Stamp(s, m, custom)) \in Seq(Messages)
      BY StampType DEF Sessions
    <3> QED
      BY <3>1 DEF Sessions
  <2>2. m.val \in Nat
    BY DEF Messages
  <2> HIDE DEF o
  <2>3. Record(o, m, custom, noinc, m.val) \in Sessions
    BY <2>1, <2>2, <1>1
  <2> QED
    BY <2>3 DEF send_process, o
<1> QED
  BY <1>1, <1>2

(* send keeps the type.                                                    *)
LEMMA SimpleSendType ==
    ASSUME NEW s \in Sessions, NEW m \in Messages
    PROVE  send(s, m) \in Sessions
BY SendType DEF send

(* send_batch keeps the type.                                              *)
LEMMA SendBatchType ==
    ASSUME NEW s \in Sessions, NEW m1 \in Messages, NEW m2 \in Messages
    PROVE  send_batch(s, m1, m2) \in Sessions
<1> DEFINE a == Record(s, m1, 0, FALSE, m1.val)
<1> DEFINE o == [a EXCEPT !.out = @ \o <<Stamp(s, m1, 0), Stamp(a, m2, 0)>>]
<1>1. a \in Sessions
  BY SendType DEF Messages
<1> HIDE DEF a
<1>2. <<Stamp(s, m1, 0), Stamp(a, m2, 0)>> \in Seq(Messages)
  BY <1>1, StampType
<1>3. a.out \o <<Stamp(s, m1, 0), Stamp(a, m2, 0)>> \in Seq(Messages)
  BY <1>1, <1>2 DEF Sessions
<1>4. o \in Sessions
  BY <1>1, <1>3 DEF Sessions
<1> HIDE DEF o
<1>5. Record(o, m2, 0, FALSE, 0) \in Sessions
  BY <1>4, SendType
<1> QED
  BY <1>1, <1>5 DEF send_batch, a, o

(* State changes, exceptions, stop() and the transient fields keep the     *)
(* type.                                                                   *)
LEMMA StateType ==
    ASSUME NEW s \in Sessions
    PROVE  /\ \A st \in SessionStates : do_state_change(s, st) \in Sessions
           /\ \A e \in Exceptions : Throw(s, e) \in Sessions
           /\ stop(s) \in Sessions
           /\ ReaderEnds(s) \in Sessions
           /\ TestRequestSent(s) \in Sessions
<1>1. \A st \in SessionStates : do_state_change(s, st) \in Sessions
  BY DEF do_state_change, Sessions
<1>2. \A e \in Exceptions : Throw(s, e) \in Sessions
  BY DEF Throw, Sessions
<1>3. stop(s) \in Sessions
  BY DEF stop, Sessions
<1>4. ReaderEnds(s) \in Sessions
  BY <1>1 DEF ReaderEnds, SessionStates
<1>5. TestRequestSent(s) \in Sessions
  BY DEF TestRequestSent, Sessions, SessionStates
<1> QED
  BY <1>1, <1>2, <1>3, <1>4, <1>5

(* sequence_check and enforce keep the type.                               *)
LEMMA EnforceType ==
    ASSUME NEW s \in Sessions, NEW m \in Received
    PROVE  enforce(s, m) \in Sessions
<1>1. [s EXCEPT !.held = TRUE] \in Sessions
  BY DEF Sessions
<1>2. send([s EXCEPT !.held = TRUE], generate_resend_request(s.nr)) \in Sessions
  BY <1>1, SimpleSendType, GenerateType DEF Sessions
<1>3. do_state_change(send([s EXCEPT !.held = TRUE], generate_resend_request(s.nr)),
                      "resend_request_sent") \in Sessions
  BY <1>2, StateType DEF SessionStates
<1>4. Throw(s, "logoff") \in Sessions
  BY StateType DEF Exceptions
<1>5. sequence_check(s, m) \in Sessions
  BY <1>1, <1>3, <1>4 DEF sequence_check
<1> QED
  BY <1>1, <1>5 DEF enforce

(* The handlers keep the type; handle_sequence_reset subtracts one from a  *)
(* positive number.                                                        *)
LEMMA HandlerType ==
    ASSUME NEW s \in Sessions, NEW m \in Received
    PROVE  /\ \A outcome : handle_application(s, m, outcome) \in Sessions
           /\ handle_heartbeat(s, m) \in Sessions
           /\ handle_test_request(s, m) \in Sessions
           /\ m.type = "SequenceReset" => handle_sequence_reset(s, m) \in Sessions
<1> DEFINE e == enforce(s, m)
<1>1. e \in Sessions
  BY EnforceType
<1> HIDE DEF e
<1>2. ASSUME NEW outcome
      PROVE  handle_application(s, m, outcome) \in Sessions
  <2>1. [e EXCEPT !.got = m.val] \in Sessions
    BY <1>1 DEF Sessions, Received
  <2>2. Throw(e, "other") \in Sessions
    BY <1>1, StateType DEF Exceptions
  <2> QED
    BY <1>1, <2>1, <2>2 DEF handle_application, e
<1>3. handle_heartbeat(s, m) \in Sessions
  BY <1>1, StateType DEF handle_heartbeat, e, SessionStates
<1>4. handle_test_request(s, m) \in Sessions
  BY <1>1, SimpleSendType, MsgType DEF handle_test_request, e, MsgTypes
<1>5. ASSUME m.type = "SequenceReset"
      PROVE  handle_sequence_reset(s, m) \in Sessions
  <2> DEFINE c == IF s.st = "resend_request_sent" THEN do_state_change(s, "continuous") ELSE s
  <2>1. c \in Sessions
    BY StateType DEF SessionStates
  <2>2. Throw(s, "logoff") \in Sessions
    BY StateType DEF Exceptions
  <2>3. m.new - 1 \in Nat
    BY <1>5 DEF Received
  <2>4. [c EXCEPT !.nr = m.new - 1] \in Sessions
    BY <2>1, <2>3, NumberType
  <2> QED
    BY <2>2, <2>4 DEF handle_sequence_reset
<1> QED
  BY <1>2, <1>3, <1>4, <1>5

(* The numbers of a range query are natural numbers.                       *)
LEMMA RangeType ==
    ASSUME NEW s \in Sessions, NEW begin, NEW end
    PROVE  StoredRange(s, begin, end) \in SUBSET Nat
BY DEF StoredRange, Stored, Sessions

(* Sending a gap fill keeps the type.                                      *)
LEMMA GapFillType ==
    ASSUME NEW s \in Sessions, NEW custom \in Nat, NEW n \in Nat, n > 0
    PROVE  send_process(s, generate_sequence_reset(n), custom, FALSE) \in Sessions
BY GenerateType, SendType

(* handle_resend_request keeps the type.                                   *)
LEMMA ResendRequestType ==
    ASSUME NEW s \in Sessions, NEW m \in Received
    PROVE  handle_resend_request(s, m) \in Sessions
<1> DEFINE e == enforce(s, m)
<1> DEFINE nseq == IF m.begin >= e.ns THEN m.begin + 1 ELSE e.ns
<1> DEFINE x == [on |-> TRUE, begin |-> m.begin, interrupted |-> e.ns,
                 last |-> 0, todo |-> StoredRange(e, m.begin, m.end)]
<1> DEFINE g == send_process(e, generate_sequence_reset(nseq), m.begin, FALSE)
<1>1. e \in Sessions
  BY EnforceType
<1> HIDE DEF e
<1>2. e.ns \in Nat /\ m.begin \in Nat
  BY <1>1, CountType DEF Received
<1>3. nseq \in Nat /\ nseq > 0
  BY <1>2
<1>4. x \in RetransmissionContext
  <2>1. StoredRange(e, m.begin, m.end) \in SUBSET Nat
    BY <1>1, RangeType
  <2> QED
    BY <1>2, <2>1 DEF RetransmissionContext
<1> HIDE DEF nseq, x
<1>5. g \in Sessions
  BY <1>1, <1>2, <1>3, GapFillType
<1> HIDE DEF g
<1>6. [g EXCEPT !.ns = nseq] \in Sessions
  BY <1>3, <1>5, NumberType
<1>7. [e EXCEPT !.st = "resend_request_received", !.rtx = x] \in Sessions
  BY <1>1, <1>4 DEF Sessions, SessionStates
<1>8. send(e, Msg("Reject")) \in Sessions
  BY <1>1, SimpleSendType, MsgType DEF MsgTypes
<1> QED
  BY <1>1, <1>6, <1>7, <1>8 DEF handle_resend_request, e, nseq, x, g

(* Attaching the acceptor's persister keeps the type.                      *)
LEMMA AttachType ==
    ASSUME NEW s \in Sessions, NEW m \in Received
    PROVE  AttachPersister(s, m) \in Sessions
<1>1. <<0, 0>> \in Nat \X Nat /\ {} \in SUBSET (Nat \X Nat)
  OBVIOUS
<1> QED
  BY <1>1 DEF AttachPersister, Sessions

(* handle_logon keeps the type for both roles and every outcome of its     *)
(* checks.                                                                 *)
LEMMA LogonType ==
    ASSUME NEW s \in Sessions, NEW m \in Received, NEW auth \in LogonOutcomes
    PROVE  handle_logon(s, m, auth) \in Sessions
<1>1. ASSUME NEW t \in Sessions
      PROVE  LogonRefused(t) \in Sessions
  BY <1>1, StateType DEF LogonRefused, SessionStates
<1>2. ASSUME NEW t \in Sessions
      PROVE  /\ [t EXCEPT !.st = "continuous", !.timer = TRUE] \in Sessions
             /\ [t EXCEPT !.timer = TRUE] \in Sessions
             /\ [t EXCEPT !.ns = 1, !.nr = 1] \in Sessions
  BY ZenonT(30), <1>2 DEF Sessions, SessionStates
<1>3. ASSUME NEW t \in Sessions
      PROVE  LogonInitiator(t, m, auth) \in Sessions
  BY <1>1, <1>2, <1>3, EnforceType DEF LogonInitiator
<1>4. ASSUME NEW t \in Sessions
      PROVE  LogonAcceptor(t, m, auth) \in Sessions
  <2> DEFINE a == AttachPersister(t, m)
  <2> DEFINE r == IF m.reset THEN [a EXCEPT !.ns = 1, !.nr = 1] ELSE recover_seqnums(a)
  <2> DEFINE e == enforce(r, m)
  <2> DEFINE l == do_state_change(send(e, generate_logon(t.role)), "continuous")
  <2>1. a \in Sessions
    BY <1>4, AttachType
  <2> HIDE DEF a
  <2>2. r \in Sessions
    BY <1>2, <2>1, PersisterType
  <2> HIDE DEF r
  <2>3. e \in Sessions
    BY <2>2, EnforceType
  <2> HIDE DEF e
  <2>4. generate_logon(t.role) \in Messages
    BY <1>4, GenerateType DEF Sessions
  <2>5. l \in Sessions
    BY <2>3, <2>4, SimpleSendType, StateType DEF SessionStates
  <2> HIDE DEF l
  <2> QED
    BY <1>1, <1>2, <1>4, <2>2, <2>3, <2>5 DEF LogonAcceptor, LogonOutcomes, a, r, e, l
<1>5. do_state_change(s, "logon_received") \in Sessions
  BY StateType DEF SessionStates
<1>6. send(s, Msg("Reject")) \in Sessions
  BY SimpleSendType, MsgType DEF MsgTypes
<1> QED
  BY <1>3, <1>4, <1>5, <1>6 DEF handle_logon

(* Whatever handler a message is dispatched to, the type is kept.          *)
LEMMA DispatchType ==
    ASSUME NEW s \in Sessions, NEW m \in Received, NEW outcome, NEW auth \in LogonOutcomes
    PROVE  Dispatch(s, m, outcome, auth) \in Sessions
<1>1. m.type \in MsgTypes
  BY DEF Received
<1>2. handle_logout(s, m) \in Sessions
  BY EnforceType DEF handle_logout
<1> QED
  BY <1>1, <1>2, HandlerType, ResendRequestType, LogonType DEF Dispatch, MsgTypes

(* The tail of process() keeps the type.                                   *)
LEMMA FinishType ==
    ASSUME NEW s \in Sessions, NEW m
    PROVE  Finish(s, m) \in Sessions
<1> DEFINE p == update_persist_seqnums([s EXCEPT !.nr = @ + 1])
<1>1. p \in Sessions
  BY CountType, PersisterType
<1> HIDE DEF p
<1> QED
  BY <1>1, StateType DEF Finish, p

(* The answer to a message the factory refuses keeps the type.             *)
LEMMA RejectedType ==
    ASSUME NEW s \in Sessions
    PROVE  Rejected(s) \in Sessions
<1> DEFINE r == send(s, Msg("Reject"))
<1>1. r \in Sessions
  BY SimpleSendType, MsgType DEF MsgTypes
<1> HIDE DEF r
<1>2. NoRtx \in RetransmissionContext
  BY DEF NoRtx, RetransmissionContext
<1>3. r.nr + 1 \in Nat
  BY <1>1, CountType
<1>4. [r EXCEPT !.nr = @ + 1, !.rtx = NoRtx] \in Sessions
  BY <1>1, <1>2, <1>3 DEF Sessions
<1> QED
  BY <1>4 DEF Rejected, r

(* process() keeps the type.                                               *)
LEMMA ProcessType ==
    ASSUME NEW s \in Sessions, NEW m \in Received, NEW outcome, NEW auth \in LogonOutcomes
    PROVE  process(s, m, outcome, auth) \in Sessions
<1>1. ASSUME NEW h \in Sessions
      PROVE  ForceLogoff(h) \in Sessions
  <2> DEFINE t == IF h.st = "logon_received" /\ ~SilentDisconnect
                  THEN do_state_change(send_process(h, Msg("Logout"), 0, TRUE), "logoff_sent")
                  ELSE h
  <2>1. send_process(h, Msg("Logout"), 0, TRUE) \in Sessions
    BY <1>1, SendType, MsgType DEF MsgTypes
  <2>2. t \in Sessions
    BY <1>1, <2>1, StateType DEF SessionStates
  <2> HIDE DEF t
  <2>3. [t EXCEPT !.st = IF t.shut THEN @ ELSE "session_terminated", !.closed = TRUE]
           \in Sessions
    BY <2>2 DEF Sessions, SessionStates
  <2> QED
    BY <2>2, <2>3, StateType DEF ForceLogoff, t
<1> QED
  BY <1>1, DispatchType, FinishType, RejectedType DEF process

(* A record of the range query is resent within the type.                  *)
LEMMA ResendStepType ==
    ASSUME NEW s \in Sessions, NEW record \in Nat \X Nat
    PROVE  ResendStep(s, record) \in Sessions
<1> DEFINE q == record[1]
<1> DEFINE hole == IF s.rtx.last # 0 THEN s.rtx.last + 1 < q ELSE q > s.rtx.begin
<1> DEFINE g == IF hole THEN send_process(s, generate_sequence_reset(q),
                                          IF s.rtx.last # 0 THEN s.ns ELSE 0, FALSE)
                ELSE s
<1> DEFINE a == [generate_application(record[2]) EXCEPT !.seq = q]
<1> DEFINE r == send(g, a)
<1>1. s.rtx \in RetransmissionContext /\ s.ns \in Nat /\ q \in Nat /\ record[2] \in Nat
  BY DEF Sessions
<1>2. g \in Sessions
  <2>1. s.rtx.last \in Nat /\ s.rtx.begin \in Nat
    BY <1>1 DEF RetransmissionContext
  <2>2. ASSUME hole
        PROVE  q > 0
    BY <1>1, <2>1, <2>2
  <2>3. ASSUME hole
        PROVE  send_process(s, generate_sequence_reset(q),
                            IF s.rtx.last # 0 THEN s.ns ELSE 0, FALSE) \in Sessions
    <3> HIDE DEF q, hole
    <3> QED
      BY <1>1, <2>2, <2>3, GapFillType
  <2> QED
    BY <2>3
<1>3. a \in Messages
  BY <1>1 DEF generate_application, Msg, Messages, MsgTypes
<1> HIDE DEF g, a
<1>4. r \in Sessions
  BY <1>2, <1>3, SimpleSendType
<1>5. Rejected(g) \in Sessions
  BY <1>2, RejectedType
<1> HIDE DEF r
<1>6. [r EXCEPT !.rtx.last = q, !.rtx.todo = IF s.wire THEN @ \ {q} ELSE {}] \in Sessions
  <2>1. r.rtx \in RetransmissionContext
    BY <1>4 DEF Sessions
  <2> DEFINE y == [r.rtx EXCEPT !.last = q, !.todo = IF s.wire THEN @ \ {q} ELSE {}]
  <2>2. y \in RetransmissionContext
    BY <1>1, <2>1 DEF RetransmissionContext
  <2> HIDE DEF y
  <2>3. [r EXCEPT !.rtx = y] \in Sessions
    BY <1>4, <2>2 DEF Sessions
  <2> QED
    BY <1>4, <2>1, <2>3 DEF y, Sessions, RetransmissionContext
<1> QED
  BY <1>5, <1>6 DEF ResendStep, g, a, r

(* The final gap fill sets natural numbers only.                           *)
LEMMA ResendDoneType ==
    ASSUME NEW s \in Sessions
    PROVE  ResendDone(s) \in Sessions
<1> DEFINE x == s.rtx
<1> DEFINE from == IF x.last = 0 THEN x.begin ELSE x.last + 1
<1> DEFINE nseq == IF from >= x.interrupted THEN from + 1 ELSE x.interrupted
<1> DEFINE r == send_process(s, generate_sequence_reset(nseq), from, FALSE)
<1> DEFINE d == [r EXCEPT !.ns = nseq, !.st = "continuous", !.rtx = NoRtx]
<1>1. x.last \in Nat /\ x.begin \in Nat /\ x.interrupted \in Nat
  BY DEF Sessions, RetransmissionContext
<1> HIDE DEF x
<1>2. from \in Nat
  BY <1>1
<1> HIDE DEF from
<1>3. nseq \in Nat /\ nseq > 0
  BY <1>1, <1>2
<1> HIDE DEF nseq
<1>4. r \in Sessions
  BY <1>2, <1>3, GapFillType
<1> HIDE DEF r
<1>5. NoRtx \in RetransmissionContext
  BY DEF NoRtx, RetransmissionContext
<1>6. d \in Sessions
  BY <1>3, <1>4, <1>5 DEF Sessions, SessionStates
<1> HIDE DEF d
<1> QED
  BY <1>6, FinishType DEF ResendDone, d, r, nseq, from, x

(* A session as constructed has its type.                                  *)
LEMMA FreshType ==
    ASSUME NEW role \in Roles, NEW store \in SUBSET (Nat \X Nat), NEW ctrl \in Nat \X Nat
    PROVE  Fresh(role, store, ctrl) \in Sessions
<1>1. NoRtx \in RetransmissionContext
  BY DEF NoRtx, RetransmissionContext
<1>2. <<>> \in Seq(Messages)
  OBVIOUS
<1> QED
  BY <1>1, <1>2 DEF Fresh, Sessions, SessionStates, Exceptions

(* A session found on disk after its process died has its type.            *)
LEMMA KilledType ==
    ASSUME NEW s \in Sessions
    PROVE  Killed(s) \in Sessions
<1>1. /\ s.role \in Roles /\ s.store \in SUBSET (Nat \X Nat) /\ s.ctrl \in Nat \X Nat
      /\ {} \in SUBSET (Nat \X Nat) /\ <<0, 0>> \in Nat \X Nat
  BY DEF Sessions
<1> QED
  BY <1>1, FreshType DEF Killed

(* start() keeps the type for both roles.                                  *)
LEMMA StartType ==
    ASSUME NEW s \in Sessions
    PROVE  StartInitiator(s) \in Sessions /\ StartAcceptor(s) \in Sessions
<1> DEFINE purge == ResetSeqNums /\ ~Reliable
<1> DEFINE i == [s EXCEPT !.st = "not_logged_in", !.ns = 1, !.nr = 1, !.shut = FALSE,
                          !.closed = FALSE, !.starting = TRUE, !.rtx = NoRtx, !.tr = FALSE,
                          !.timer = FALSE, !.store = IF purge THEN {} ELSE @,
                          !.ctrl = IF purge THEN <<0, 0>> ELSE @]
<1>1. /\ NoRtx \in RetransmissionContext
      /\ {} \in SUBSET (Nat \X Nat) /\ <<0, 0>> \in Nat \X Nat
  BY DEF NoRtx, RetransmissionContext
<1>2. i \in Sessions
  <2> DEFINE st == IF purge THEN {} ELSE s.store
  <2> DEFINE ct == IF purge THEN <<0, 0>> ELSE s.ctrl
  <2>1. st \in SUBSET (Nat \X Nat) /\ ct \in Nat \X Nat
    BY <1>1 DEF Sessions
  <2> HIDE DEF st, ct
  <2>2. [s EXCEPT !.st = "not_logged_in", !.ns = 1, !.nr = 1, !.shut = FALSE,
                  !.closed = FALSE, !.starting = TRUE, !.rtx = NoRtx, !.tr = FALSE,
                  !.timer = FALSE, !.store = st, !.ctrl = ct] \in Sessions
    BY <1>1, <2>1 DEF Sessions, SessionStates
  <2> QED
    BY <2>2 DEF st, ct
<1> HIDE DEF i
<1>3. (IF ResetSeqNums THEN i ELSE recover_seqnums(i)) \in Sessions
  BY <1>2, PersisterType
<1>4. generate_logon("initiator") \in Messages
  BY GenerateType DEF Roles
<1>5. StartInitiator(s) \in Sessions
  BY <1>3, <1>4, SimpleSendType DEF StartInitiator, i
<1>6. StartAcceptor(s) \in Sessions
  BY ZenonT(30), <1>1 DEF StartAcceptor, Sessions, SessionStates
<1> QED
  BY <1>5, <1>6

(* heartbeat_service keeps the type.                                       *)
LEMMA HeartbeatServiceType ==
    ASSUME NEW s \in Sessions, NEW due \in BOOLEAN, NEW idle \in BOOLEAN
    PROVE  heartbeat_service(s, due, idle) \in Sessions
<1> DEFINE h == IF due THEN send(s, Msg("Heartbeat")) ELSE s
<1> DEFINE l == do_state_change(send_process(h, Msg("Logout"), 0, TRUE), "logoff_sent")
<1>1. h \in Sessions
  BY SimpleSendType, MsgType DEF MsgTypes
<1> HIDE DEF h
<1>2. send_process(h, Msg("Logout"), 0, TRUE) \in Sessions
  BY <1>1, SendType, MsgType DEF MsgTypes
<1>3. l \in Sessions
  BY <1>2, StateType DEF SessionStates
<1> HIDE DEF l
<1>4. send(h, Msg("TestRequest")) \in Sessions
  BY <1>1, SimpleSendType, MsgType DEF MsgTypes
<1>5. ASSUME NEW t \in Sessions
      PROVE  /\ [t EXCEPT !.tr = TRUE] \in Sessions
             /\ [t EXCEPT !.shut = TRUE, !.timer = FALSE] \in Sessions
  BY <1>5 DEF Sessions
<1> QED
  BY <1>1, <1>3, <1>4, <1>5, StateType DEF heartbeat_service, h, l

(* So does a record of the reader that overtakes the number of a message   *)
(* being sent.                                                             *)
LEMMA OvertakenType ==
    ASSUME NEW s \in Sessions, NEW m \in Messages, NEW a \in Messages
    PROVE  SendOvertaken(s, m, a) \in Sessions
<1> DEFINE r == process(s, m, "ok", "ok")
<1>1. r \in Sessions
  BY ProcessType, MessagesReceived DEF LogonOutcomes
<1> HIDE DEF r
<1>2. r.ns \in Nat /\ r.nr \in Nat
  BY <1>1, CountType
<1>3. send(r, a) \in Sessions
  BY <1>1, SimpleSendType
<1> QED
  BY <1>2, <1>3, PersisterType DEF SendOvertaken, r

=============================================================================
