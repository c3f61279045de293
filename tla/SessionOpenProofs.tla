-------------------------- MODULE SessionOpenProofs --------------------------
(***************************************************************************)
(* One engine against a counterparty of which nothing is assumed, for      *)
(* every value of the bounds and flags: what the application is handed is  *)
(* in order and handed once, the control record is never ahead of the      *)
(* number expected and behind it by what was rejected or could not be      *)
(* written only, and what was sent stays on disk.  The numbers are not     *)
(* configured to be reset at each start.                                   *)
(*                                                                         *)
(* Each operation of the session is described by what it may change: Sent, *)
(* Enforced and Handled for the parts of process(), Stepped for a whole    *)
(* operation other than a logon, LoggedOn for a logon.  The invariant      *)
(* Sound follows from those descriptions.                                  *)
(***************************************************************************)
EXTENDS SessionOpen, FixSessionProofs, TLAPS

(* The fields that only whole operations change.                           *)
SameSession(s, t) ==
    /\ t.role = s.role /\ t.per = s.per /\ t.shut = s.shut /\ t.timer = s.timer
    /\ t.wire = s.wire

(* The persister may have gained records, and a new control record with    *)
(* the number expected.                                                    *)
Persisted(s, t) ==
    /\ s.store \subseteq t.store
    /\ t.ctrl = s.ctrl \/ (s.per /\ t.ctrl[2] = s.nr)

(* t is s after a message was sent.                                        *)
Sent(s, t) ==
    /\ t \in Sessions
    /\ SameSession(s, t)
    /\ Persisted(s, t)
    /\ t.st = s.st /\ t.nr = s.nr /\ t.rtx = s.rtx
    /\ t.exc = s.exc /\ t.held = s.held /\ t.got = s.got /\ t.tr = s.tr

(* Sending changes the send number and the persister only; a message that  *)
(* is not a duplicate writes the control record.                           *)
LEMMA SendFrame ==
    ASSUME NEW s \in Sessions, NEW m \in Messages, NEW custom \in Nat, NEW noinc \in BOOLEAN
    PROVE  /\ Sent(s, send_process(s, m, custom, noinc))
           /\ s.per /\ s.wire /\ ~IsDup(m)
                 => send_process(s, m, custom, noinc).ctrl[2] = s.nr
<1> DEFINE o == [s EXCEPT !.out = Append(@, Stamp(s, m, custom))]
<1> DEFINE p == IF m.type = "App" THEN put_message(o, o.ns, m.val) ELSE o
<1> DEFINE c == put_control(p, o.ns + 1, o.nr)
<1> DEFINE d == [c EXCEPT !.ns = @ + 1]
<1> DEFINE t == send_process(s, m, custom, noinc)
<1>1. t \in Sessions
  BY SendType
<1>2. /\ SameSession(s, o) /\ o.store = s.store /\ o.ctrl = s.ctrl /\ o.st = s.st
      /\ o.nr = s.nr /\ o.ns = s.ns /\ o.rtx = s.rtx /\ o.exc = s.exc /\ o.held = s.held
      /\ o.got = s.got /\ o.tr = s.tr
  BY DEF SameSession, Sessions
<1>3. o \in Sessions
  <2>1. Append(s.out, Stamp(s, m, custom)) \in Seq(Messages)
    BY StampType DEF Sessions
  <2> QED
    BY <2>1 DEF Sessions
<1> HIDE DEF o
<1>4. /\ SameSession(s, p) /\ s.store \subseteq p.store /\ p.ctrl = s.ctrl /\ p.st = s.st
      /\ p.nr = s.nr /\ p.ns = s.ns /\ p.rtx = s.rtx /\ p.exc = s.exc /\ p.held = s.held
      /\ p.got = s.got /\ p.tr = s.tr
  BY <1>2, <1>3 DEF put_message, SameSession, Sessions
<1>5. p \in Sessions
  BY <1>3, PersisterType, CountType DEF Messages
<1> HIDE DEF p
<1>6. /\ SameSession(s, c) /\ s.store \subseteq c.store /\ c.st = s.st
      /\ c.nr = s.nr /\ c.rtx = s.rtx /\ c.exc = s.exc /\ c.held = s.held
      /\ c.got = s.got /\ c.tr = s.tr
      /\ c.ctrl = IF s.per THEN <<s.ns + 1, s.nr>> ELSE s.ctrl
  BY <1>2, <1>4, <1>5 DEF put_control, SameSession, Sessions
<1>7. c \in Sessions
  BY <1>2, <1>3, <1>5, PersisterType, CountType
<1> HIDE DEF c
<1>8. /\ SameSession(s, d) /\ s.store \subseteq d.store /\ d.st = s.st
      /\ d.nr = s.nr /\ d.rtx = s.rtx /\ d.exc = s.exc /\ d.held = s.held
      /\ d.got = s.got /\ d.tr = s.tr
      /\ d.ctrl = IF s.per THEN <<s.ns + 1, s.nr>> ELSE s.ctrl
  BY <1>6, <1>7 DEF SameSession, Sessions
<1> HIDE DEF d
<1>9. \/ t = s /\ ~s.wire
      \/ t = o /\ s.wire /\ IsDup(m)
      \/ t = c /\ s.wire /\ ~IsDup(m)
      \/ t = d /\ s.wire /\ ~IsDup(m)
  BY DEF send_process, Record, o, p, c, d
<1> HIDE DEF t
<1>10. Sent(s, t)
  <2>1. CASE t = s
    BY <1>1, <2>1 DEF Sent, SameSession, Persisted
  <2>2. CASE t = o
    BY <1>1, <1>2, <2>2 DEF Sent, Persisted
  <2>3. CASE t = c
    BY <1>1, <1>6, <2>3 DEF Sent, Persisted
  <2>4. CASE t = d
    BY <1>1, <1>8, <2>4 DEF Sent, Persisted
  <2> QED
    BY <1>9, <2>1, <2>2, <2>3, <2>4
<1>11. s.per /\ s.wire /\ ~IsDup(m) => t.ctrl[2] = s.nr
  BY <1>6, <1>8, <1>9
<1> QED
  BY <1>10, <1>11 DEF t

(* The messages the engine generates itself carry no number and are not    *)
(* duplicates.                                                             *)
LEMMA NotDup ==
    /\ \A type \in MsgTypes : ~IsDup(Msg(type))
    /\ \A v : ~IsDup(generate_application(v))
    /\ \A b : ~IsDup(generate_resend_request(b))
    /\ \A n : ~IsDup(generate_sequence_reset(n))
    /\ \A r : ~IsDup(generate_logon(r))
BY DEF IsDup, Msg, generate_application, generate_resend_request, generate_sequence_reset,
    generate_logon

(* The same for send().                                                    *)
LEMMA SimpleSendFrame ==
    ASSUME NEW s \in Sessions, NEW m \in Messages
    PROVE  /\ Sent(s, send(s, m))
           /\ s.per /\ s.wire /\ ~IsDup(m) => send(s, m).ctrl[2] = s.nr
BY SendFrame DEF send

(* e is the result of enforce for message m.                               *)
Enforced(s, m, e) ==
    /\ e \in Sessions
    /\ SameSession(s, e)
    /\ Persisted(s, e)
    /\ e.nr = s.nr /\ e.rtx = s.rtx /\ e.got = s.got
    /\ e.exc \in {"none", "logoff"}
    /\ e.st = s.st \/ (s.st = "continuous" /\ e.st = "resend_request_sent")
    /\ e.exc = "none" /\ ~e.held => IsEstablished(s.st) /\ (m.dup \/ m.seq = s.nr)

(* enforce checks and may ask for a resend; it lets the application see    *)
(* the message expected, or a duplicate, in an established session only.   *)
LEMMA EnforceFrame ==
    ASSUME NEW s \in Sessions, s.exc = "none", ~s.held, NEW m \in Received
    PROVE  Enforced(s, m, enforce(s, m))
<1> DEFINE h == [s EXCEPT !.held = TRUE]
<1> DEFINE r == send(h, generate_resend_request(s.nr))
<1> DEFINE d == do_state_change(r, "resend_request_sent")
<1> DEFINE e == enforce(s, m)
<1>1. e \in Sessions
  BY EnforceType
<1>2. h \in Sessions /\ generate_resend_request(s.nr) \in Messages
  BY GenerateType DEF Sessions
<1>3. /\ SameSession(s, h) /\ h.store = s.store /\ h.ctrl = s.ctrl /\ h.st = s.st
      /\ h.nr = s.nr /\ h.rtx = s.rtx /\ h.exc = s.exc /\ h.held /\ h.got = s.got
  BY DEF SameSession, Sessions
<1> HIDE DEF h
<1>4. Sent(h, r)
  BY <1>2, SimpleSendFrame
<1> HIDE DEF r
<1>5. /\ SameSession(s, d) /\ Persisted(s, d) /\ d.st = "resend_request_sent"
      /\ d.nr = s.nr /\ d.rtx = s.rtx /\ d.exc = "none" /\ d.held /\ d.got = s.got
  BY ZenonT(30), <1>3, <1>4 DEF Sent, SameSession, Persisted, do_state_change, Sessions
<1>6. LET x == Throw(s, "logoff")
      IN  /\ SameSession(s, x) /\ Persisted(s, x) /\ x.st = s.st
          /\ x.nr = s.nr /\ x.rtx = s.rtx /\ x.exc = "logoff" /\ x.got = s.got
  BY DEF SameSession, Persisted, Throw, Sessions
<1>7. m.seq \in Nat /\ s.nr \in Nat /\ m.dup \in BOOLEAN
  BY CountType DEF Received
<1> HIDE DEF d
<1>8. \/ e = d /\ s.st = "continuous"
      \/ e = h
      \/ e = Throw(s, "logoff")
      \/ e = s /\ IsEstablished(s.st) /\ (m.dup \/ m.seq = s.nr)
  <2>1. CASE IsEstablished(s.st) /\ m.type # "SequenceReset"
    <3>1. e = sequence_check(s, m)
      BY <2>1 DEF enforce
    <3>2. CASE m.seq > s.nr
      BY <2>1, <3>1, <3>2, <1>7 DEF sequence_check, d, r, h
    <3>3. CASE m.seq < s.nr /\ ~m.dup
      BY <2>1, <3>1, <3>3, <1>7 DEF sequence_check
    <3>4. CASE ~(m.seq > s.nr) /\ ~(m.seq < s.nr /\ ~m.dup)
      BY <2>1, <3>1, <3>4, <1>7 DEF sequence_check
    <3> QED
      BY <3>2, <3>3, <3>4
  <2>2. CASE ~(IsEstablished(s.st) /\ m.type # "SequenceReset")
    BY <2>2 DEF enforce, h
  <2> QED
    BY <2>1, <2>2
<1> HIDE DEF e
<1>9. Enforced(s, m, e)
  <2>1. CASE e = d /\ s.st = "continuous"
    BY <1>1, <1>5, <2>1 DEF Enforced
  <2>2. CASE e = h
    BY <1>1, <1>3, <2>2 DEF Enforced, Persisted
  <2>3. CASE e = Throw(s, "logoff")
    BY <1>1, <1>6, <2>3 DEF Enforced
  <2>4. CASE e = s /\ IsEstablished(s.st) /\ (m.dup \/ m.seq = s.nr)
    BY <1>1, <2>4 DEF Enforced, SameSession, Persisted
  <2> QED
    BY <1>8, <2>1, <2>2, <2>3, <2>4
<1> QED
  BY <1>9 DEF e

(* A session whose reader may take the next message.                       *)
Ready(s) ==
    /\ s \in Sessions
    /\ s.exc = "none" /\ ~s.held /\ s.got = 0
    /\ ~IsShutdown(s) /\ s.st # "none" /\ ~s.rtx.on

(* h is s after the handler of message m, which is not a logon.            *)
Handled(s, m, h) ==
    /\ h \in Sessions
    /\ SameSession(s, h)
    /\ Persisted(s, h)
    /\ h.exc \in {"none", "logoff"}
    /\ h.st # "none"
    /\ IsEstablished(h.st) => IsEstablished(s.st) \/ s.per
    /\ h.rtx.on => s.per /\ h.exc = "none" /\ h.nr = s.nr /\ h.st = "resend_request_received"
    /\ h.nr + 1 >= s.nr
    /\ h.exc = "logoff" => h.nr = s.nr
    /\ h.got # 0 => /\ h.exc = "none" /\ ~h.rtx.on /\ h.nr = s.nr
                    /\ IsEstablished(s.st) /\ m.type = "App"
                    /\ m.dup \/ m.seq = s.nr

(* A handler that only enforces.                                           *)
LEMMA EnforcedHandled ==
    ASSUME NEW s, Ready(s), NEW m, NEW e, Enforced(s, m, e)
    PROVE  Handled(s, m, e)
BY CountType DEF Ready, Handled, Enforced, IsEstablished, IsLive, Sessions

(* Sending from a session as a handler left it.                            *)
LEMMA SentHandled ==
    ASSUME NEW s, Ready(s), NEW m, NEW h, Handled(s, m, h), h.nr = s.nr, NEW t, Sent(h, t)
    PROVE  Handled(s, m, t)
BY DEF Handled, Sent, SameSession, Persisted

(* handle_application hands over what enforce lets pass.                   *)
LEMMA ApplicationFrame ==
    ASSUME NEW s, Ready(s), NEW m \in Received, m.type = "App"
    PROVE  Handled(s, m, handle_application(s, m, "ok"))
<1> DEFINE e == enforce(s, m)
<1> DEFINE g == [e EXCEPT !.got = m.val]
<1> DEFINE h == handle_application(s, m, "ok")
<1>1. h \in Sessions
  BY HandlerType DEF Ready
<1>2. Enforced(s, m, e)
  BY EnforceFrame DEF Ready
<1> HIDE DEF e
<1>3. Handled(s, m, e)
  BY <1>2, EnforcedHandled
<1>4. \/ h = e
      \/ h = g /\ e.exc = "none" /\ ~e.held
  BY <1>2 DEF handle_application, e, Enforced
<1> HIDE DEF h
<1>5. ASSUME h = g, e.exc = "none", ~e.held
      PROVE  Handled(s, m, h)
  <2>1. /\ SameSession(s, h) /\ Persisted(s, h) /\ h.exc = "none" /\ h.st = e.st
        /\ h.rtx = s.rtx /\ h.nr = s.nr
    BY <1>2, <1>5 DEF Enforced, SameSession, Persisted, Sessions
  <2> QED
    BY <1>1, <1>2, <1>3, <1>5, <2>1 DEF Handled, Enforced, Ready
<1>6. Handled(s, m, h)
  BY <1>3, <1>4, <1>5
<1> QED
  BY <1>6 DEF h

(* handle_heartbeat, handle_test_request and handle_logout.                *)
LEMMA AdminFrame ==
    ASSUME NEW s, Ready(s), NEW m \in Received
    PROVE  /\ Handled(s, m, handle_heartbeat(s, m))
           /\ Handled(s, m, handle_test_request(s, m))
           /\ Handled(s, m, handle_logout(s, m))
<1> DEFINE e == enforce(s, m)
<1>1. Enforced(s, m, e)
  BY EnforceFrame DEF Ready
<1>2. Handled(s, m, handle_logout(s, m))
  BY <1>1, EnforcedHandled DEF handle_logout
<1> HIDE DEF e
<1>3. Handled(s, m, e) /\ e.nr = s.nr /\ e \in Sessions
  BY <1>1, EnforcedHandled DEF Enforced
<1>4. Handled(s, m, handle_test_request(s, m))
  <2>1. Sent(e, send(e, Msg("Heartbeat")))
    BY <1>3, SimpleSendFrame, MsgType DEF MsgTypes
  <2>2. Handled(s, m, send(e, Msg("Heartbeat")))
    BY <1>3, <2>1, SentHandled
  <2> QED
    BY <1>3, <2>2 DEF handle_test_request, e
<1>5. Handled(s, m, handle_heartbeat(s, m))
  <2> DEFINE c == do_state_change(e, "continuous")
  <2>1. c \in Sessions
    BY <1>3, StateType DEF SessionStates
  <2>2. ASSUME e.st = "test_request_sent"
        PROVE  Handled(s, m, c)
    BY <1>3, <2>1, <2>2 DEF Handled, SameSession, Persisted, do_state_change, IsEstablished,
        IsLive, Sessions
  <2> HIDE DEF c
  <2> QED
    BY <1>3, <2>2 DEF handle_heartbeat, e, c
<1> QED
  BY <1>2, <1>4, <1>5

(* handle_sequence_reset lowers the number expected by one at most, which  *)
(* the tail of process() makes up for.                                     *)
LEMMA SequenceResetFrame ==
    ASSUME NEW s, Ready(s), NEW m \in Received, m.type = "SequenceReset"
    PROVE  Handled(s, m, handle_sequence_reset(s, m))
<1> DEFINE c == IF s.st = "resend_request_sent" THEN do_state_change(s, "continuous") ELSE s
<1> DEFINE n == [c EXCEPT !.nr = m.new - 1]
<1> DEFINE x == Throw(s, "logoff")
<1> DEFINE h == handle_sequence_reset(s, m)
<1>1. h \in Sessions
  BY HandlerType DEF Ready
<1>2. s \in Sessions /\ m.new \in Nat /\ m.new > 0 /\ s.nr \in Nat
  BY CountType DEF Ready, Received
<1>3. (h = n /\ m.new >= s.nr) \/ h = x
  BY DEF handle_sequence_reset
<1>4. /\ SameSession(s, n) /\ Persisted(s, n) /\ n.exc = s.exc /\ n.nr = m.new - 1
      /\ n.rtx = s.rtx /\ n.got = s.got /\ n.st # "none"
      /\ IsEstablished(n.st) => IsEstablished(s.st)
  BY <1>2 DEF Ready, SameSession, Persisted, do_state_change, IsEstablished, IsLive, Sessions
<1>5. /\ SameSession(s, x) /\ Persisted(s, x) /\ x.exc = "logoff" /\ x.nr = s.nr
      /\ x.rtx = s.rtx /\ x.got = s.got /\ x.st = s.st
  BY <1>2 DEF SameSession, Persisted, Throw, Sessions
<1> HIDE DEF n, x, h
<1>6. CASE h = n /\ m.new >= s.nr
  <2>1. n.nr + 1 >= s.nr
    BY <1>2, <1>4, <1>6
  <2>2. Handled(s, m, h)
    BY <1>1, <1>4, <1>6, <2>1 DEF Handled, Ready
  <2> QED
    BY <2>2 DEF h
<1>7. CASE h = x
  <2>1. x.nr + 1 >= s.nr
    BY <1>2, <1>5
  <2>2. Handled(s, m, h)
    BY <1>1, <1>5, <1>7, <2>1 DEF Handled, Ready
  <2> QED
    BY <2>2 DEF h
<1> QED
  BY <1>3, <1>6, <1>7

(* handle_resend_request rejects, fills the gap when there is no           *)
(* persister, or begins the range query.                                   *)
LEMMA ResendRequestFrame ==
    ASSUME NEW s, Ready(s), NEW m \in Received
    PROVE  Handled(s, m, handle_resend_request(s, m))
<1> DEFINE e == enforce(s, m)
<1> DEFINE nseq == IF m.begin >= e.ns THEN m.begin + 1 ELSE e.ns
<1> DEFINE x == [on |-> TRUE, begin |-> m.begin, interrupted |-> e.ns,
                 last |-> 0, todo |-> StoredRange(e, m.begin, m.end)]
<1> DEFINE g == send_process(e, generate_sequence_reset(nseq), m.begin, FALSE)
<1> DEFINE f == [g EXCEPT !.ns = nseq]
<1> DEFINE q == [e EXCEPT !.st = "resend_request_received", !.rtx = x]
<1> DEFINE h == handle_resend_request(s, m)
<1>1. h \in Sessions
  BY ResendRequestType DEF Ready
<1>2. Enforced(s, m, e)
  BY EnforceFrame DEF Ready
<1> HIDE DEF e
<1>3. Handled(s, m, e) /\ e.nr = s.nr /\ e \in Sessions /\ e.per = s.per
  BY <1>2, EnforcedHandled DEF Enforced, SameSession
<1>4. Handled(s, m, send(e, Msg("Reject")))
  <2>1. Sent(e, send(e, Msg("Reject")))
    BY <1>3, SimpleSendFrame, MsgType DEF MsgTypes
  <2> QED
    BY <1>3, <2>1, SentHandled
<1>5. nseq \in Nat /\ nseq > 0 /\ m.begin \in Nat
  <2>1. e.ns \in Nat /\ m.begin \in Nat
    BY <1>3, CountType DEF Received
  <2> QED
    BY <2>1
<1>6. g \in Sessions /\ Handled(s, m, g)
  <2>1. generate_sequence_reset(nseq) \in Messages
    BY <1>5, GenerateType
  <2> HIDE DEF nseq
  <2>2. Sent(e, g)
    BY <1>3, <1>5, <2>1, SendFrame
  <2> HIDE DEF g
  <2> QED
    BY <1>3, <2>2, SentHandled DEF Sent
<1>7. Handled(s, m, f)
  <2> HIDE DEF nseq, g
  <2>1. f \in Sessions
    BY <1>5, <1>6, NumberType
  <2>2. /\ SameSession(g, f) /\ f.store = g.store /\ f.ctrl = g.ctrl /\ f.exc = g.exc
        /\ f.st = g.st /\ f.rtx = g.rtx /\ f.nr = g.nr /\ f.got = g.got
    BY <1>6 DEF SameSession, Sessions
  <2> HIDE DEF f
  <2> QED
    BY <1>6, <2>1, <2>2 DEF Handled, SameSession, Persisted
<1>8. ASSUME e.per, e.exc = "none", h = q
      PROVE  Handled(s, m, q)
  <2>1. /\ SameSession(e, q) /\ q.store = e.store /\ q.ctrl = e.ctrl /\ q.exc = e.exc
        /\ q.st = "resend_request_received" /\ q.rtx.on /\ q.nr = e.nr /\ q.got = e.got
    BY <1>3 DEF SameSession, Sessions
  <2>2. q \in Sessions
    BY <1>1, <1>8
  <2>3. s.got = 0 /\ s.nr \in Nat /\ e.got = 0
    BY <1>2, CountType DEF Ready, Enforced
  <2> HIDE DEF q
  <2> QED
    BY <1>3, <1>8, <2>1, <2>2, <2>3 DEF Handled, SameSession, Persisted
<1>9. \/ h = e
      \/ h = send(e, Msg("Reject"))
      \/ h = f
      \/ h = q /\ e.per /\ e.exc = "none"
  <2> HIDE DEF x
  <2> QED
    BY DEF handle_resend_request, e, nseq, x, g, f, q
<1> HIDE DEF h, q, f
<1>10. Handled(s, m, h)
  BY <1>3, <1>4, <1>7, <1>8, <1>9
<1> QED
  BY <1>10 DEF h

(* Every handler but that of a logon.                                      *)
LEMMA DispatchFrame ==
    ASSUME NEW s, Ready(s), NEW m \in Received, NEW auth,
           m.type \notin {"Logon", "Malformed"}
    PROVE  Handled(s, m, Dispatch(s, m, "ok", auth))
<1>1. m.type \in MsgTypes
  BY DEF Received
<1>2. Handled(s, m, s)
  BY CountType DEF Handled, Ready, SameSession, Persisted, Sessions
<1> QED
  BY <1>1, <1>2, ApplicationFrame, AdminFrame, SequenceResetFrame, ResendRequestFrame
  DEF Dispatch, MsgTypes

(* How the control record keeps up over an operation: it is as near as it  *)
(* can be afterwards, or it is the old one, and then the operation counted *)
(* a message only if it could not write.                                   *)
KeptUp(s, t) ==
    \/ t.nr - t.ctrl[2] \in {0, 1}
    \/ t.ctrl = s.ctrl /\ (t.nr = s.nr \/ (~s.wire /\ t.nr = s.nr + 1))

(* t is s after an operation other than a logon, a start or a crash.       *)
Stepped(s, t) ==
    /\ t \in Sessions
    /\ t.role = s.role /\ t.per = s.per
    /\ s.store \subseteq t.store
    /\ t.ctrl = s.ctrl \/ (s.per /\ t.ctrl[2] \in {s.nr, t.nr})
    /\ t.nr >= s.nr
    /\ t.st # "none"
    /\ IsEstablished(t.st) => IsEstablished(s.st) \/ s.per
    /\ t.rtx.on => s.per /\ ~IsShutdown(t)
    /\ IsShutdown(t) \/ t.timer = s.timer
    /\ t.timer => s.timer
    /\ s.per => KeptUp(s, t)

(* What the application was handed, if anything, is the message expected   *)
(* or a duplicate, and it has been counted and the count persisted.        *)
HandedOver(s, m, t) ==
    t.got # 0 => /\ m.type = "App" /\ IsEstablished(s.st)
                 /\ m.dup \/ m.seq = s.nr
                 /\ t.nr = s.nr + 1
                 /\ s.per => t.ctrl[2] = t.nr

(* stop() sets the shutdown flag; nothing that is on disk changes.         *)
LEMMA StopFrame ==
    ASSUME NEW s \in Sessions
    PROVE  /\ stop(s) \in Sessions
           /\ stop(s).role = s.role /\ stop(s).per = s.per /\ stop(s).store = s.store
           /\ stop(s).ctrl = s.ctrl /\ stop(s).st = s.st /\ stop(s).rtx = s.rtx
           /\ stop(s).nr = s.nr /\ stop(s).got = s.got /\ stop(s).exc = s.exc
           /\ stop(s).shut
           /\ stop(s).timer = s.timer \/ ~stop(s).timer
<1>1. stop(s) \in Sessions
  BY StateType
<1>2. CASE s.shut
  BY <1>1, <1>2 DEF stop
<1>3. CASE ~s.shut
  BY <1>1, <1>3 DEF stop, Sessions
<1> QED
  BY <1>2, <1>3

(* The tail of process().                                                  *)
LEMMA FinishFrame ==
    ASSUME NEW s \in Sessions, NEW m, NEW h, Handled(s, m, h), h.exc = "none", ~h.rtx.on
    PROVE  Stepped(s, Finish(h, m)) /\ HandedOver(s, m, Finish(h, m))
<1> DEFINE n == [h EXCEPT !.nr = @ + 1]
<1> DEFINE p == update_persist_seqnums(n)
<1> DEFINE t == Finish(h, m)
<1>1. h \in Sessions /\ h.nr \in Nat /\ s.nr \in Nat /\ h.nr + 1 \in Nat /\ h.nr + 1 >= s.nr
  BY CountType DEF Handled, Ready
<1>2. n \in Sessions
  BY <1>1, CountType
<1>3. /\ SameSession(h, n) /\ n.store = h.store /\ n.ctrl = h.ctrl /\ n.st = h.st
      /\ n.rtx = h.rtx /\ n.nr = h.nr + 1 /\ n.got = h.got
  BY <1>1 DEF SameSession, Sessions
<1> HIDE DEF n
<1>4. p \in Sessions
  BY <1>2, PersisterType
<1>5. /\ SameSession(h, p) /\ p.store = h.store /\ p.st = h.st
      /\ p.rtx = h.rtx /\ p.nr = h.nr + 1 /\ p.got = h.got
      /\ p.ctrl = IF h.per THEN <<n.ns, h.nr + 1>> ELSE h.ctrl
  BY <1>2, <1>3 DEF SameSession, Sessions, update_persist_seqnums, put_control
<1> HIDE DEF p
<1>6. t \in Sessions
  BY <1>1, FinishType
<1>7. /\ t.role = s.role /\ t.per = s.per /\ t.store = h.store /\ t.st = h.st
      /\ t.rtx = h.rtx /\ t.nr = h.nr + 1 /\ t.got = h.got
      /\ t.ctrl = IF s.per THEN <<n.ns, h.nr + 1>> ELSE h.ctrl
      /\ t.timer = h.timer \/ (t.shut /\ ~t.timer)
  <2>1. t = p \/ t = stop(p)
    BY DEF Finish, p, n
  <2> HIDE DEF t
  <2>2. CASE t = p
    BY <1>5, <2>2 DEF SameSession, Handled
  <2>3. CASE t = stop(p)
    BY <1>4, <1>5, <2>3, StopFrame DEF SameSession, Handled
  <2> QED
    BY <2>1, <2>2, <2>3
<1> HIDE DEF t
<1>8. t.nr >= s.nr /\ (s.per => t.ctrl[2] = t.nr) /\ (~s.per => t.ctrl = s.ctrl)
  BY <1>1, <1>7 DEF Handled, Persisted
<1>9. s.per => t.nr - t.ctrl[2] \in {0, 1}
  BY <1>1, <1>7, <1>8
<1>10. Stepped(s, t)
  BY <1>6, <1>7, <1>8, <1>9 DEF Stepped, KeptUp, Handled, SameSession, Persisted, IsShutdown
<1>11. HandedOver(s, m, t)
  BY <1>7, <1>8 DEF HandedOver, Handled
<1> QED
  BY <1>10, <1>11 DEF t

(* The catch clause of an exception that forces a logoff.                  *)
LEMMA ForceLogoffFrame ==
    ASSUME NEW s, Ready(s), NEW m \in Received, NEW h, Handled(s, m, h), h.nr = s.nr,
           h.got = 0, ~h.rtx.on
    PROVE  Stepped(s, ForceLogoff(h)) /\ ForceLogoff(h).got = 0
<1> DEFINE l == send_process(h, Msg("Logout"), 0, TRUE)
<1> DEFINE d == do_state_change(l, "logoff_sent")
<1> DEFINE u == IF h.st = "logon_received" /\ ~SilentDisconnect THEN d ELSE h
<1> DEFINE r == [u EXCEPT !.st = IF u.shut THEN @ ELSE "session_terminated", !.closed = TRUE]
<1> DEFINE t == ForceLogoff(h)
<1>1. h \in Sessions /\ s.nr \in Nat
  BY CountType DEF Handled, Ready
<1>2. Sent(h, l)
  <2>1. Msg("Logout") \in Messages
    BY MsgType DEF MsgTypes
  <2>2. 0 \in Nat /\ TRUE \in BOOLEAN
    OBVIOUS
  <2> QED
    BY <1>1, <2>1, <2>2, SendFrame, Zenon
<1> HIDE DEF l
<1>3. Handled(s, m, l) /\ l.nr = s.nr /\ l.got = 0 /\ ~l.rtx.on /\ l.st = h.st
  BY <1>2, SentHandled DEF Sent
<1>4. \/ Handled(s, m, d) /\ d.nr = s.nr /\ d.got = 0 /\ ~d.rtx.on
      \/ h.st # "logon_received"
  <2>1. d \in Sessions
    BY <1>2, StateType DEF Sent, SessionStates
  <2>2. /\ SameSession(l, d) /\ d.store = l.store /\ d.ctrl = l.ctrl /\ d.exc = l.exc
        /\ d.st = "logoff_sent" /\ d.rtx = l.rtx /\ d.nr = l.nr /\ d.got = l.got
    BY <1>2 DEF Sent, SameSession, do_state_change, Sessions
  <2> HIDE DEF d
  <2>3. h.st = "logon_received" => IsEstablished(l.st)
    BY <1>3 DEF IsEstablished, IsLive
  <2> QED
    BY <1>3, <2>1, <2>2, <2>3 DEF Handled, SameSession, Persisted
<1>5. Handled(s, m, u) /\ u.nr = s.nr /\ u.got = 0 /\ ~u.rtx.on /\ u \in Sessions
  <2> HIDE DEF d
  <2> QED
    BY <1>4 DEF Handled
<1> HIDE DEF u
<1>6. t = r \/ t = stop(u)
  BY DEF ForceLogoff, u, d, l
<1>7. /\ t.role = s.role /\ t.per = s.per /\ t.store = u.store /\ t.ctrl = u.ctrl
      /\ t.nr = s.nr /\ t.got = 0 /\ ~t.rtx.on /\ IsShutdown(t)
      /\ t.st = u.st \/ t.st = "session_terminated"
      /\ t.timer = u.timer \/ ~t.timer
      /\ t \in Sessions
  <2>1. CASE t = r
    <3>1. r \in Sessions
      BY <1>5 DEF Sessions, SessionStates
    <3> QED
      BY SMTT(30), <1>5, <2>1, <3>1 DEF SameSession, Handled, IsShutdown, Sessions
  <2>2. CASE t = stop(u)
    <3> HIDE DEF t
    <3> QED
      BY <1>5, <2>2, StopFrame DEF SameSession, Handled, IsShutdown
  <2> HIDE DEF t, r
  <2> QED
    BY <1>6, <2>1, <2>2
<1> HIDE DEF t
<1>8. Stepped(s, t)
  <2>1. s.per => KeptUp(s, t)
    BY <1>1, <1>5, <1>7 DEF KeptUp, Handled, Persisted
  <2> QED
    BY <1>1, <1>5, <1>7, <2>1
    DEF Stepped, Handled, SameSession, Persisted, IsEstablished, IsLive
<1> QED
  BY <1>7, <1>8 DEF t

(* The answer to a message that does not decode counts it; the control     *)
(* record is one behind until the next message, or one further behind than *)
(* it was when the answer cannot be written.                               *)
LEMMA RejectedFrame ==
    ASSUME NEW s \in Sessions, s.st # "none", s.got = 0
    PROVE  Stepped(s, Rejected(s)) /\ Rejected(s).got = 0
<1> DEFINE r == send(s, Msg("Reject"))
<1> DEFINE t == Rejected(s)
<1>1. Sent(s, r) /\ (s.per /\ s.wire => r.ctrl[2] = s.nr)
  BY SimpleSendFrame, MsgType, NotDup DEF MsgTypes
<1> HIDE DEF r
<1>2. t = [r EXCEPT !.nr = @ + 1, !.rtx = NoRtx]
  BY DEF Rejected, r
<1>3. t \in Sessions /\ s.nr \in Nat
  BY RejectedType, CountType
<1> HIDE DEF t
<1>4. /\ SameSession(s, t) /\ t.store = r.store /\ t.ctrl = r.ctrl /\ t.st = s.st
      /\ t.nr = s.nr + 1 /\ ~t.rtx.on /\ t.got = 0
  BY <1>1, <1>2 DEF Sent, SameSession, NoRtx, Sessions
<1>5. t.nr >= s.nr /\ (s.per => KeptUp(s, t))
  BY <1>1, <1>3, <1>4 DEF KeptUp, Sent, Persisted, SameSession, Sessions
<1>6. Stepped(s, t)
  BY <1>1, <1>3, <1>4, <1>5 DEF Stepped, Sent, SameSession, Persisted
<1> QED
  BY <1>4, <1>6 DEF t

(* An operation that begins by sending.                                    *)
LEMMA SentStepped ==
    ASSUME NEW s, NEW g, Sent(s, g), NEW t, Stepped(g, t)
    PROVE  Stepped(s, t)
<1>1. s.per => KeptUp(s, t)
  BY DEF Sent, Stepped, SameSession, Persisted, KeptUp, Sessions
<1> QED
  BY <1>1 DEF Sent, Stepped, SameSession, Persisted

(* process() for everything but a logon.                                   *)
LEMMA ProcessFrame ==
    ASSUME NEW s, Ready(s), NEW m \in Received, m.type # "Logon", NEW auth
    PROVE  Stepped(s, process(s, m, "ok", auth)) /\ HandedOver(s, m, process(s, m, "ok", auth))
<1> DEFINE h == Dispatch(s, m, "ok", auth)
<1>1. CASE m.type = "Malformed"
  <2>1. process(s, m, "ok", auth) = Rejected(s)
    BY <1>1 DEF process
  <2> QED
    BY <2>1, RejectedFrame DEF Ready, HandedOver
<1>2. CASE m.type # "Malformed"
  <2>1. Handled(s, m, h)
    BY <1>2, DispatchFrame
  <2> HIDE DEF h
  <2>2. h.exc \in {"none", "logoff"}
    BY <2>1 DEF Handled
  <2>3. CASE h.exc = "logoff"
    <3>1. process(s, m, "ok", auth) = ForceLogoff(h)
      BY <1>2, <2>3 DEF process, h
    <3>2. h.nr = s.nr /\ h.got = 0 /\ ~h.rtx.on
      BY <2>1, <2>3 DEF Handled
    <3> QED
      BY <2>1, <3>1, <3>2, ForceLogoffFrame DEF HandedOver
  <2>4. CASE h.exc = "none" /\ h.rtx.on
    <3>1. process(s, m, "ok", auth) = h
      BY <1>2, <2>4 DEF process, h
    <3>2. Stepped(s, h)
      <4>1. s.nr \in Nat
        BY CountType DEF Ready
      <4> QED
        BY <2>1, <2>4, <4>1
        DEF Handled, Stepped, KeptUp, SameSession, Persisted, Ready, IsShutdown
    <3>3. h.got = 0
      BY <2>1, <2>4 DEF Handled
    <3> QED
      BY <3>1, <3>2, <3>3 DEF HandedOver
  <2>5. CASE h.exc = "none" /\ ~h.rtx.on
    <3>1. process(s, m, "ok", auth) = Finish(h, m)
      BY <1>2, <2>5 DEF process, h
    <3> QED
      BY <2>1, <2>5, <3>1, FinishFrame DEF Ready
  <2> QED
    BY <2>2, <2>3, <2>4, <2>5
<1> QED
  BY <1>1, <1>2

(* Two messages sent one after the other.                                  *)
LEMMA SentTwice ==
    ASSUME NEW s, NEW g, Sent(s, g), NEW r, Sent(g, r)
    PROVE  Sent(s, r)
BY DEF Sent, SameSession, Persisted

(* Sending a message of the application or of the timer.                   *)
LEMMA SendStepped ==
    ASSUME NEW s \in Sessions, s.st # "none", ~s.rtx.on, NEW m \in Messages
    PROVE  Stepped(s, send(s, m))
<1> DEFINE t == send(s, m)
<1>1. Sent(s, t)
  BY SimpleSendFrame
<1> HIDE DEF t
<1>2. s.nr \in Nat /\ t.nr = s.nr
  BY <1>1, CountType DEF Sent
<1>3. t.nr >= s.nr /\ (s.per => KeptUp(s, t))
  BY <1>1, <1>2 DEF KeptUp, Sent, Persisted
<1>4. Stepped(s, t)
  BY <1>1, <1>3 DEF Stepped, Sent, SameSession, Persisted
<1> QED
  BY <1>4 DEF t

(* A record is resent, or rejected when it does not decode.                *)
LEMMA ResendStepFrame ==
    ASSUME NEW s \in Sessions, s.st # "none", s.got = 0, s.rtx.on, s.per, ~IsShutdown(s),
           NEW record \in Nat \X Nat
    PROVE  Stepped(s, ResendStep(s, record))
<1> DEFINE q == record[1]
<1> DEFINE hole == IF s.rtx.last # 0 THEN s.rtx.last + 1 < q ELSE q > s.rtx.begin
<1> DEFINE custom == IF s.rtx.last # 0 THEN s.ns ELSE 0
<1> DEFINE f == send_process(s, generate_sequence_reset(q), custom, FALSE)
<1> DEFINE g == IF hole THEN f ELSE s
<1> DEFINE a == [generate_application(record[2]) EXCEPT !.seq = q]
<1> DEFINE r == send(g, a)
<1> DEFINE y == [r EXCEPT !.rtx.last = q, !.rtx.todo = IF s.wire THEN @ \ {q} ELSE {}]
<1> DEFINE t == ResendStep(s, record)
<1>1. /\ s.rtx.last \in Nat /\ s.rtx.begin \in Nat /\ s.ns \in Nat /\ q \in Nat
      /\ record[2] \in Nat /\ s.nr \in Nat
  BY DEF Sessions, RetransmissionContext
<1>2. t \in Sessions
  BY ResendStepType
<1>3. hole => q > 0
  BY <1>1
<1>4. custom \in Nat
  BY <1>1
<1>5. a \in Messages
  BY <1>1 DEF generate_application, Msg, Messages, MsgTypes
<1>6. t = Rejected(g) \/ t = y
  BY DEF ResendStep
<1> HIDE DEF q, hole, custom, a, t
<1>7. hole => Sent(s, f)
  <2>1. hole => generate_sequence_reset(q) \in Messages
    BY <1>1, <1>3, GenerateType
  <2> QED
    BY <1>4, <2>1, SendFrame
<1>8. Sent(s, s)
  BY DEF Sent, SameSession, Persisted
<1> HIDE DEF f
<1>9. Sent(s, g)
  BY <1>7, <1>8
<1> HIDE DEF g
<1>10. g \in Sessions /\ g.st # "none" /\ g.got = 0
  BY <1>9 DEF Sent, SameSession
<1>11. Stepped(s, Rejected(g))
  BY <1>9, <1>10, RejectedFrame, SentStepped
<1>12. Sent(s, r)
  BY <1>5, <1>9, <1>10, SimpleSendFrame, SentTwice
<1> HIDE DEF r
<1>13. ASSUME t = y
       PROVE  Stepped(s, y)
  <2>1. /\ SameSession(r, y) /\ y.store = r.store /\ y.ctrl = r.ctrl /\ y.st = r.st
        /\ y.nr = r.nr /\ y.rtx.on = r.rtx.on
    BY <1>12 DEF Sent, SameSession, Sessions, RetransmissionContext
  <2>2. y \in Sessions
    BY <1>2, <1>13
  <2> HIDE DEF y
  <2> QED
    BY <1>1, <1>12, <2>1, <2>2 DEF Stepped, KeptUp, Sent, SameSession, Persisted, IsShutdown
<1> HIDE DEF y
<1>14. Stepped(s, t)
  BY <1>6, <1>11, <1>13
<1> QED
  BY <1>14 DEF t

(* The final gap fill counts the resend request.                           *)
LEMMA ResendDoneFrame ==
    ASSUME NEW s \in Sessions, s.exc = "none", s.got = 0, s.per
    PROVE  Stepped(s, ResendDone(s))
<1> DEFINE x == s.rtx
<1> DEFINE from == IF x.last = 0 THEN x.begin ELSE x.last + 1
<1> DEFINE nseq == IF from >= x.interrupted THEN from + 1 ELSE x.interrupted
<1> DEFINE r == send_process(s, generate_sequence_reset(nseq), from, FALSE)
<1> DEFINE d == [r EXCEPT !.ns = nseq, !.st = "continuous", !.rtx = NoRtx]
<1> DEFINE m == Msg("ResendRequest")
<1>1. x.last \in Nat /\ x.begin \in Nat /\ x.interrupted \in Nat /\ s.nr \in Nat
  BY DEF Sessions, RetransmissionContext
<1> HIDE DEF x
<1>2. from \in Nat
  BY <1>1
<1> HIDE DEF from
<1>3. nseq \in Nat /\ nseq > 0
  BY <1>1, <1>2
<1> HIDE DEF nseq
<1>4. Sent(s, r)
  BY <1>2, <1>3, SendFrame, GenerateType
<1> HIDE DEF r
<1>5. d \in Sessions
  <2>1. NoRtx \in RetransmissionContext
    BY DEF NoRtx, RetransmissionContext
  <2> QED
    BY <1>3, <1>4, <2>1 DEF Sent, Sessions, SessionStates
<1>6. /\ SameSession(r, d) /\ d.store = r.store /\ d.ctrl = r.ctrl /\ d.st = "continuous"
      /\ d.nr = r.nr /\ ~d.rtx.on /\ d.exc = r.exc /\ d.got = r.got
  BY <1>4 DEF Sent, SameSession, NoRtx, Sessions
<1> HIDE DEF d
<1>7. s.nr + 1 >= s.nr
  BY <1>1
<1>8. Handled(s, m, d) /\ d.exc = "none"
  BY <1>4, <1>5, <1>6, <1>7 DEF Handled, Sent, SameSession, Persisted
<1>9. Stepped(s, Finish(d, m))
  BY <1>6, <1>8, FinishFrame
<1> QED
  BY <1>9 DEF ResendDone, d, r, nseq, from, x

(* The timer sends a test request, or gives up and logs out.               *)
LEMMA TickFrame ==
    ASSUME NEW s \in Sessions, s.st # "none", s.per, ~s.tr, ~s.rtx.on
    PROVE  LET h == heartbeat_service(s, FALSE, TRUE)
           IN  Stepped(s, IF h.tr THEN TestRequestSent(h) ELSE h)
<1> DEFINE o == send_process(s, Msg("Logout"), 0, TRUE)
<1> DEFINE l == do_state_change(o, "logoff_sent")
<1> DEFINE k == [l EXCEPT !.shut = TRUE, !.timer = FALSE]
<1> DEFINE q == send(s, Msg("TestRequest"))
<1> DEFINE u == [q EXCEPT !.tr = TRUE]
<1> DEFINE h == heartbeat_service(s, FALSE, TRUE)
<1> DEFINE t == IF h.tr THEN TestRequestSent(h) ELSE h
<1>1. s.nr \in Nat
  BY CountType
<1>2. Msg("Logout") \in Messages /\ Msg("TestRequest") \in Messages
  BY MsgType DEF MsgTypes
<1>3. Sent(s, o)
  <2>1. 0 \in Nat /\ TRUE \in BOOLEAN
    OBVIOUS
  <2> QED
    BY <1>2, <2>1, SendFrame, Zenon
<1>4. Sent(s, q)
  BY <1>2, SimpleSendFrame
<1>5. h = k \/ h = stop(l) \/ h = u
  BY DEF heartbeat_service
<1> HIDE DEF o, q, h
<1>6. /\ l \in Sessions /\ SameSession(o, l) /\ l.store = o.store /\ l.ctrl = o.ctrl
      /\ l.st = "logoff_sent" /\ l.nr = o.nr /\ l.rtx = o.rtx /\ ~l.tr
  <2>1. l \in Sessions
    BY <1>3, StateType DEF Sent, SessionStates
  <2> QED
    BY <1>3, <2>1 DEF Sent, SameSession, do_state_change, Sessions
<1> HIDE DEF l
<1>7. CASE h = k
  <2>1. k \in Sessions /\ k.role = l.role /\ k.per = l.per /\ k.store = l.store /\ k.ctrl = l.ctrl
        /\ k.st = l.st /\ k.nr = l.nr /\ k.shut /\ ~k.timer /\ ~k.tr /\ k.rtx = l.rtx
    BY <1>6 DEF Sessions
  <2> HIDE DEF k
  <2>2. Stepped(s, k)
    BY <1>1, <1>3, <1>6, <2>1 DEF Stepped, KeptUp, Sent, SameSession, Persisted, IsShutdown
  <2> QED
    BY <1>7, <2>1, <2>2 DEF h
<1>8. CASE h = stop(l)
  <2>1. stop(l).tr = l.tr
    BY <1>6 DEF stop, Sessions
  <2>2. Stepped(s, stop(l))
    <3> DEFINE x == stop(l)
    <3>1. /\ x \in Sessions /\ x.role = l.role /\ x.per = l.per /\ x.store = l.store
          /\ x.ctrl = l.ctrl /\ x.st = l.st /\ x.rtx = l.rtx /\ x.nr = l.nr
          /\ x.shut /\ (x.timer = l.timer \/ ~x.timer)
      BY <1>6, StopFrame
    <3> HIDE DEF x
    <3>2. Stepped(s, x)
      BY <1>1, <1>3, <1>6, <3>1 DEF Stepped, KeptUp, Sent, SameSession, Persisted, IsShutdown
    <3> QED
      BY <3>2 DEF x
  <2> QED
    BY <1>6, <1>8, <2>1, <2>2 DEF h
<1>9. CASE h = u
  <2> DEFINE v == TestRequestSent(u)
  <2>1. u \in Sessions /\ u.tr
    BY <1>4 DEF Sent, Sessions
  <2>2. v \in Sessions
    BY <2>1, StateType
  <2>3. /\ SameSession(q, v) /\ v.store = q.store /\ v.ctrl = q.ctrl
        /\ v.st = "test_request_sent" /\ v.nr = q.nr /\ v.rtx = q.rtx
    BY <1>4 DEF Sent, SameSession, TestRequestSent, Sessions
  <2> HIDE DEF v, u
  <2>4. v.nr >= s.nr /\ KeptUp(s, v)
    BY <1>1, <1>4, <2>3 DEF KeptUp, Sent, Persisted
  <2>5. Stepped(s, v)
    BY <1>4, <2>2, <2>3, <2>4 DEF Stepped, Sent, SameSession, Persisted
  <2> QED
    BY <1>9, <2>1, <2>5 DEF h, v
<1> QED
  BY <1>5, <1>7, <1>8, <1>9

(* The reader meets the end of the connection.                             *)
LEMMA ReaderEndsFrame ==
    ASSUME NEW s, Ready(s)
    PROVE  Stepped(s, ReaderEnds(s))
<1> DEFINE t == ReaderEnds(s)
<1>1. t \in Sessions /\ s \in Sessions /\ s.nr \in Nat
  BY StateType, CountType DEF Ready
<1>2. /\ SameSession(s, t) /\ t.store = s.store /\ t.ctrl = s.ctrl
      /\ t.st = "session_terminated" /\ t.nr = s.nr /\ t.rtx = s.rtx
  BY <1>1 DEF Ready, ReaderEnds, do_state_change, SameSession, Sessions
<1> HIDE DEF t
<1>3. Stepped(s, t)
  BY <1>1, <1>2 DEF Stepped, KeptUp, SameSession, Ready, IsShutdown, IsEstablished, IsLive
<1> QED
  BY <1>3 DEF t

-----------------------------------------------------------------------------
(* Logons *)

(* h is on the way from s through the logon m, with b the last number      *)
(* handed to the application: neither the control record nor the number    *)
(* expected has been set back to b.                                        *)
Carried(s, m, b, h) ==
    /\ h \in Sessions /\ h.role = s.role /\ h.got = 0
    /\ ~m.reset => s.store \subseteq h.store
    /\ b < h.ctrl[2]
    /\ h.per => b < h.nr
    /\ h.st # "none" /\ ~h.rtx.on
    /\ h.role = "initiator" \/ h.timer => h.per

(* ... and has its persister if it is established.                         *)
Admitted(s, m, b, h) == Carried(s, m, b, h) /\ (IsEstablished(h.st) => h.per)

(* An acceptor that has its persister has taken a logon.                   *)
Timed(h) == h.role = "acceptor" /\ ~IsShutdown(h) /\ h.per => h.timer

(* t is s after the whole of process() for a logon.                        *)
LoggedOn(s, m, b, t) ==
    /\ Admitted(s, m, b, t)
    /\ Timed(t)
    /\ t.per /\ ~IsShutdown(t) => t.nr - t.ctrl[2] \in {0, 1}

(* A logon that is refused ends the session.                               *)
LEMMA RefusedFrame ==
    ASSUME NEW s, NEW m, NEW b \in Int, NEW u, Carried(s, m, b, u)
    PROVE  LET h == LogonRefused(u)
           IN  Admitted(s, m, b, h) /\ IsShutdown(h) /\ h.exc = u.exc
<1> DEFINE x == stop(u)
<1> DEFINE h == LogonRefused(u)
<1>1. u \in Sessions
  BY DEF Carried
<1>2. /\ x \in Sessions /\ x.role = u.role /\ x.per = u.per /\ x.store = u.store
      /\ x.ctrl = u.ctrl /\ x.rtx = u.rtx /\ x.nr = u.nr /\ x.got = u.got /\ x.exc = u.exc
      /\ x.timer = u.timer \/ ~x.timer
  BY <1>1, StopFrame
<1> HIDE DEF x
<1>3. h = [x EXCEPT !.st = "session_terminated"]
  BY DEF LogonRefused, do_state_change, x
<1> HIDE DEF h
<1>4. /\ h \in Sessions /\ h.role = u.role /\ h.per = u.per /\ h.store = u.store
      /\ h.ctrl = u.ctrl /\ h.rtx = u.rtx /\ h.nr = u.nr /\ h.got = u.got /\ h.exc = u.exc
      /\ h.st = "session_terminated"
      /\ h.timer = u.timer \/ ~h.timer
  BY <1>2, <1>3 DEF Sessions, SessionStates
<1>5. Admitted(s, m, b, h) /\ IsShutdown(h) /\ h.exc = u.exc
  BY <1>4 DEF Admitted, Carried, IsShutdown, IsEstablished, IsLive
<1> QED
  BY <1>5 DEF h

(* enforce and sending carry a session on.                                 *)
LEMMA CarriedOn ==
    ASSUME NEW s, NEW m \in Received, NEW b \in Int, NEW u, Carried(s, m, b, u),
           u.st = "logon_received"
    PROVE  /\ \A e : Enforced(u, m, e) =>
                 /\ Carried(s, m, b, e) /\ e.st = "logon_received" /\ e.per = u.per
                 /\ e.exc \in {"none", "logoff"}
           /\ \A e : Sent(u, e) => /\ Carried(s, m, b, e) /\ e.per = u.per /\ e.exc = u.exc
                                   /\ e.st = "logon_received"
<1>1. ASSUME NEW e, Enforced(u, m, e)
      PROVE  /\ Carried(s, m, b, e) /\ e.st = "logon_received" /\ e.per = u.per
             /\ e.exc \in {"none", "logoff"}
  BY <1>1 DEF Enforced, Carried, SameSession, Persisted
<1>2. ASSUME NEW e, Sent(u, e)
      PROVE  /\ Carried(s, m, b, e) /\ e.per = u.per /\ e.exc = u.exc
             /\ e.st = "logon_received"
  BY <1>2 DEF Sent, Carried, SameSession, Persisted
<1> QED
  BY <1>1, <1>2

(* The session that a logon finds: b is the last number handed over, or -1 *)
(* when the logon is going to set the numbers back.                        *)
Greeted(s, m, auth, b) ==
    /\ Ready(s)
    /\ s.st # "continuous"
    /\ b < s.ctrl[2]
    /\ s.per => b < s.nr
    /\ s.role = "initiator" \/ s.timer => s.per
    /\ s.role = "acceptor" /\ m.reset /\ auth # "unknown" => b = -1

(* The state change to st_logon_received.                                  *)
LEMMA GreetedFrame ==
    ASSUME NEW s, NEW m, NEW auth, NEW b \in Int, Greeted(s, m, auth, b)
    PROVE  LET r == do_state_change(s, "logon_received")
           IN  Carried(s, m, b, r) /\ r.st = "logon_received" /\ r.exc = "none" /\ ~r.held
<1> DEFINE r == do_state_change(s, "logon_received")
<1>1. r \in Sessions
  BY StateType DEF Greeted, Ready, SessionStates
<1>2. /\ SameSession(s, r) /\ r.store = s.store /\ r.ctrl = s.ctrl /\ r.nr = s.nr
      /\ r.rtx = s.rtx /\ r.got = s.got /\ r.exc = s.exc /\ r.held = s.held
      /\ r.st = "logon_received"
  BY DEF Greeted, Ready, SameSession, do_state_change, Sessions
<1> HIDE DEF r
<1>3. Carried(s, m, b, r) /\ r.st = "logon_received" /\ r.exc = "none" /\ ~r.held
  BY <1>1, <1>2 DEF Greeted, Ready, Carried, SameSession
<1> QED
  BY <1>3 DEF r

(* The initiator takes the answer to its logon.                            *)
LEMMA LogonInitiatorFrame ==
    ASSUME NEW s, NEW m \in Received, NEW b \in Int, NEW r, Carried(s, m, b, r),
           r.st = "logon_received", r.exc = "none", ~r.held, r.role = "initiator", NEW auth
    PROVE  LET h == LogonInitiator(r, m, auth)
           IN  /\ Admitted(s, m, b, h) /\ h.exc \in {"none", "logoff"}
               /\ h.exc = "none" => Timed(h)
<1> DEFINE e == enforce(r, m)
<1> DEFINE c == [e EXCEPT !.st = "continuous", !.timer = TRUE]
<1> DEFINE h == LogonInitiator(r, m, auth)
<1>1. Enforced(r, m, e)
  BY EnforceFrame DEF Carried
<1> HIDE DEF e
<1>2. Carried(s, m, b, e) /\ e.exc \in {"none", "logoff"} /\ e.role = "initiator" /\ e.per
  BY <1>1, CarriedOn DEF Carried, Enforced, SameSession
<1>3. /\ Admitted(s, m, b, LogonRefused(r)) /\ IsShutdown(LogonRefused(r))
      /\ LogonRefused(r).exc = "none"
  BY RefusedFrame
<1>4. Admitted(s, m, b, c) /\ c.exc = e.exc /\ c.role = e.role
  BY <1>2 DEF Admitted, Carried, Sessions, SessionStates
<1>5. h = LogonRefused(r) \/ h = e \/ h = c
  BY DEF LogonInitiator, e
<1> HIDE DEF h, c
<1>6. /\ Admitted(s, m, b, h) /\ h.exc \in {"none", "logoff"}
      /\ h.exc = "none" => Timed(h)
  BY <1>2, <1>3, <1>4, <1>5 DEF Admitted, Timed
<1> QED
  BY <1>6 DEF h

(* The acceptor opens its persister and recovers the numbers, or purges it *)
(* and begins at 1.                                                        *)
LEMMA RecoveredFrame ==
    ASSUME NEW s, NEW m \in Received, NEW b \in Int, NEW r, Carried(s, m, b, r),
           r.st = "logon_received", m.reset => b = -1
    PROVE  LET a == AttachPersister(r, m)
               u == IF m.reset THEN [a EXCEPT !.ns = 1, !.nr = 1] ELSE recover_seqnums(a)
           IN  Carried(s, m, b, u) /\ u.per /\ u.st = "logon_received" /\ u.exc = r.exc
                  /\ u.held = r.held
<1> DEFINE a == AttachPersister(r, m)
<1> DEFINE z == [a EXCEPT !.ns = 1, !.nr = 1]
<1> DEFINE v == recover_seqnums(a)
<1> DEFINE u == IF m.reset THEN z ELSE v
<1>1. r \in Sessions /\ r.ctrl[2] \in Nat /\ r.nr \in Nat /\ r.ctrl[1] \in Nat
        /\ m.reset \in BOOLEAN
  BY DEF Carried, Sessions, Received
<1>2. a \in Sessions
  BY <1>1, AttachType
<1>3. /\ a.role = r.role /\ a.per /\ a.st = r.st /\ a.nr = r.nr /\ a.rtx = r.rtx
      /\ a.got = r.got /\ a.exc = r.exc /\ a.held = r.held
      /\ ~m.reset => a.store = r.store /\ a.ctrl = r.ctrl
  BY <1>1 DEF AttachPersister, Sessions
<1> HIDE DEF a
<1>4. CASE m.reset
  <2>1. b = -1 /\ a.ctrl[2] \in Nat
    BY <1>2, <1>4 DEF Sessions
  <2>2. /\ z \in Sessions /\ z.role = r.role /\ z.per /\ z.st = r.st /\ z.nr = 1
        /\ z.rtx = r.rtx /\ z.got = r.got /\ z.exc = r.exc /\ z.held = r.held
        /\ z.ctrl = a.ctrl
    BY <1>2, <1>3 DEF Sessions
  <2> HIDE DEF z
  <2>3. Carried(s, m, b, z)
    BY <1>4, <2>1, <2>2 DEF Carried
  <2>4. u = z
    BY <1>4
  <2> QED
    BY <2>2, <2>3, <2>4 DEF a, z
<1>5. CASE ~m.reset
  <2>1. v \in Sessions
    BY <1>2, PersisterType
  <2>2. /\ v.role = r.role /\ v.per /\ v.st = r.st /\ v.rtx = r.rtx /\ v.got = r.got
        /\ v.exc = r.exc /\ v.held = r.held /\ v.ctrl = r.ctrl /\ v.store = r.store
        /\ v.nr = r.ctrl[2] \/ (r.ctrl = <<0, 0>> /\ v.nr = r.nr)
    BY <1>2, <1>3, <1>5 DEF recover_seqnums, Sessions
  <2> HIDE DEF v
  <2>3. b < v.nr
    <3>1. CASE v.nr = r.ctrl[2]
      BY <3>1 DEF Carried
    <3>2. CASE r.ctrl = <<0, 0>> /\ v.nr = r.nr
      <4>1. b < 0
        BY <3>2 DEF Carried
      <4> QED
        BY <1>1, <3>2, <4>1
    <3> QED
      BY <2>2, <3>1, <3>2
  <2>4. Carried(s, m, b, v)
    BY <2>1, <2>2, <2>3 DEF Carried
  <2>5. u = v
    BY <1>5
  <2> QED
    BY <2>2, <2>4, <2>5 DEF a, v
<1> QED
  BY <1>4, <1>5

(* The acceptor takes a logon: refused, thrown out by the sequence check,  *)
(* or answered.                                                            *)
LEMMA LogonAcceptorFrame ==
    ASSUME NEW s, NEW m \in Received, NEW b \in Int, NEW r, Carried(s, m, b, r),
           r.st = "logon_received", r.exc = "none", ~r.held,
           NEW auth \in LogonOutcomes, m.reset /\ auth # "unknown" => b = -1
    PROVE  LET h == LogonAcceptor(r, m, auth)
           IN  /\ Admitted(s, m, b, h) /\ h.exc \in {"none", "logoff"}
               /\ h.exc = "none" => Timed(h)
<1> DEFINE a == AttachPersister(r, m)
<1> DEFINE u == IF m.reset THEN [a EXCEPT !.ns = 1, !.nr = 1] ELSE recover_seqnums(a)
<1> DEFINE e == enforce(u, m)
<1> DEFINE w == send(e, generate_logon(r.role))
<1> DEFINE l == do_state_change(w, "continuous")
<1> DEFINE y == [l EXCEPT !.timer = TRUE]
<1> DEFINE h == LogonAcceptor(r, m, auth)
<1>1. h = CASE auth = "unknown" -> LogonRefused(r)
            [] auth = "denied"  -> LogonRefused(u)
            [] auth \in {"ok", "closed"} /\ e.exc # "none" -> e
            [] auth = "closed" /\ e.exc = "none" -> LogonRefused(l)
            [] auth = "ok" /\ e.exc = "none" -> y
  BY DEF LogonAcceptor
<1> HIDE DEF h
<1>2. CASE auth = "unknown"
  <2>1. h = LogonRefused(r)
    BY <1>1, <1>2
  <2>2. Admitted(s, m, b, h) /\ h.exc = "none" /\ IsShutdown(h)
    BY <2>1, RefusedFrame
  <2> QED
    BY <2>2 DEF h, Timed
<1>3. CASE auth # "unknown"
  <2>1. Carried(s, m, b, u) /\ u.per /\ u.st = "logon_received" /\ u.exc = "none" /\ ~u.held
    <3>1. m.reset => b = -1
      BY <1>3
    <3>2. Carried(s, m, b, u) /\ u.per /\ u.st = "logon_received" /\ u.exc = r.exc
            /\ u.held = r.held
      BY <3>1, RecoveredFrame
    <3> HIDE DEF u
    <3> QED
      BY <3>2
  <2> HIDE DEF u
  <2>2. Enforced(u, m, e)
    BY <2>1, EnforceFrame DEF Carried
  <2> HIDE DEF e
  <2>3. /\ Carried(s, m, b, e) /\ e.st = "logon_received" /\ e.per
        /\ e.exc \in {"none", "logoff"} /\ e \in Sessions
    BY <2>1, <2>2, CarriedOn DEF Enforced
  <2>4. Sent(e, w)
    <3>1. generate_logon(r.role) \in Messages
      BY GenerateType DEF Carried, Sessions
    <3> QED
      BY <2>3, <3>1, SimpleSendFrame
  <2> HIDE DEF w
  <2>5. Carried(s, m, b, w) /\ w.per /\ w.exc = e.exc /\ w \in Sessions
    BY <2>3, <2>4, CarriedOn DEF Sent
  <2>6. /\ l \in Sessions /\ SameSession(w, l) /\ l.store = w.store /\ l.ctrl = w.ctrl
        /\ l.nr = w.nr /\ l.rtx = w.rtx /\ l.got = w.got /\ l.exc = w.exc
        /\ l.st = "continuous"
    <3>1. l \in Sessions
      BY <2>5, StateType DEF SessionStates
    <3> QED
      BY <2>5, <3>1 DEF do_state_change, SameSession, Sessions
  <2> HIDE DEF l
  <2>7. Carried(s, m, b, l)
    BY <2>5, <2>6 DEF Carried, SameSession
  <2>8. /\ y \in Sessions /\ y.role = l.role /\ y.per = l.per /\ y.shut = l.shut
        /\ y.store = l.store /\ y.ctrl = l.ctrl
        /\ y.nr = l.nr /\ y.rtx = l.rtx /\ y.got = l.got /\ y.exc = l.exc
        /\ y.st = l.st /\ y.timer
    BY <2>6 DEF Sessions
  <2> HIDE DEF y
  <2>9. Admitted(s, m, b, y) /\ Timed(y) /\ y.exc = e.exc
    BY <2>5, <2>6, <2>7, <2>8 DEF Admitted, Carried, SameSession, Timed
  <2>10. Admitted(s, m, b, h) /\ h.exc \in {"none", "logoff"} /\ (h.exc = "none" => Timed(h))
    <3>1. CASE auth = "denied"
      <4>1. h = LogonRefused(u)
        BY <1>1, <3>1
      <4> QED
        BY <2>1, <4>1, RefusedFrame DEF Timed
    <3>2. CASE auth \in {"ok", "closed"} /\ e.exc # "none"
      <4>1. h = e
        BY <1>1, <3>2
      <4> QED
        BY <2>3, <3>2, <4>1 DEF Admitted
    <3>3. CASE auth = "closed" /\ e.exc = "none"
      <4>1. h = LogonRefused(l)
        BY <1>1, <3>3
      <4>2. l.exc = "none"
        BY <2>5, <2>6, <3>3
      <4> QED
        BY <2>7, <4>1, <4>2, RefusedFrame DEF Timed
    <3>4. CASE auth = "ok" /\ e.exc = "none"
      <4>1. h = y
        BY <1>1, <3>4
      <4> QED
        BY <2>9, <3>4, <4>1
    <3> QED
      BY <1>3, <3>1, <3>2, <3>3, <3>4 DEF LogonOutcomes
  <2> QED
    BY <2>10 DEF h
<1> QED
  BY <1>2, <1>3

(* The tails of process() for a logon.                                     *)
LEMMA LogonTails ==
    ASSUME NEW s, NEW m \in Received, m.type = "Logon", NEW b \in Int, NEW h,
           Admitted(s, m, b, h)
    PROVE  /\ Timed(h) => LoggedOn(s, m, b, Finish(h, m))
           /\ LoggedOn(s, m, b, ForceLogoff(h))
<1>1. h \in Sessions /\ h.nr \in Nat /\ h.nr + 1 \in Nat /\ (h.per => b < h.nr)
  BY CountType DEF Admitted, Carried
<1>2. ASSUME Timed(h)
      PROVE  LoggedOn(s, m, b, Finish(h, m))
  <2> DEFINE n == [h EXCEPT !.nr = @ + 1]
  <2> DEFINE t == update_persist_seqnums(n)
  <2>1. n \in Sessions
    BY <1>1, CountType
  <2>2. /\ SameSession(h, n) /\ n.store = h.store /\ n.ctrl = h.ctrl /\ n.st = h.st
        /\ n.rtx = h.rtx /\ n.nr = h.nr + 1 /\ n.got = h.got
    BY <1>1 DEF SameSession, Sessions
  <2> HIDE DEF n
  <2>3. t \in Sessions
    BY <2>1, PersisterType
  <2>4. /\ SameSession(h, t) /\ t.store = h.store /\ t.st = h.st
        /\ t.rtx = h.rtx /\ t.nr = h.nr + 1 /\ t.got = h.got
        /\ t.ctrl = IF h.per THEN <<n.ns, h.nr + 1>> ELSE h.ctrl
    BY <2>1, <2>2 DEF SameSession, Sessions, update_persist_seqnums, put_control
  <2>5. Finish(h, m) = t
    BY DEF Finish, n
  <2> HIDE DEF t
  <2>6. /\ h.per => t.ctrl[2] = h.nr + 1 /\ b < h.nr + 1 /\ t.nr - t.ctrl[2] = 0
        /\ ~h.per => t.ctrl = h.ctrl
    BY <1>1, <2>4
  <2>7. Admitted(s, m, b, t)
    BY <2>3, <2>4, <2>6 DEF Admitted, Carried, SameSession
  <2>8. Timed(t)
    BY <1>2, <2>4 DEF Timed, SameSession, IsShutdown
  <2> QED
    BY <2>4, <2>5, <2>6, <2>7, <2>8 DEF LoggedOn, SameSession
<1>3. LoggedOn(s, m, b, ForceLogoff(h))
  <2> DEFINE o == send_process(h, Msg("Logout"), 0, TRUE)
  <2> DEFINE d == do_state_change(o, "logoff_sent")
  <2> DEFINE u == IF h.st = "logon_received" /\ ~SilentDisconnect THEN d ELSE h
  <2> DEFINE r == [u EXCEPT !.st = IF u.shut THEN @ ELSE "session_terminated", !.closed = TRUE]
  <2> DEFINE t == ForceLogoff(h)
  <2>1. Sent(h, o)
    <3>1. Msg("Logout") \in Messages /\ 0 \in Nat /\ TRUE \in BOOLEAN
      BY MsgType DEF MsgTypes
    <3> QED
      BY <1>1, <3>1, SendFrame, Zenon
  <2>2. t = r \/ t = stop(u)
    BY DEF ForceLogoff
  <2> HIDE DEF o, t
  <2>3. /\ d \in Sessions /\ SameSession(h, d) /\ h.store \subseteq d.store
        /\ d.ctrl = h.ctrl \/ (h.per /\ d.ctrl[2] = h.nr)
        /\ d.nr = h.nr /\ d.rtx = h.rtx /\ d.got = h.got /\ d.st = "logoff_sent"
    <3>1. d \in Sessions
      BY <2>1, StateType DEF Sent, SessionStates
    <3> QED
      BY <2>1, <3>1 DEF Sent, Persisted, do_state_change, SameSession, Sessions
  <2> HIDE DEF d
  <2>4. h.st = "logon_received" => Admitted(s, m, b, d)
    BY <1>1, <2>3 DEF Admitted, Carried, SameSession, IsEstablished, IsLive
  <2>5. Admitted(s, m, b, u) /\ u \in Sessions
    BY <2>4 DEF Admitted, Carried
  <2> HIDE DEF u
  <2>6. /\ t \in Sessions /\ t.role = u.role /\ t.per = u.per /\ t.store = u.store
        /\ t.ctrl = u.ctrl /\ t.nr = u.nr /\ t.got = u.got /\ t.rtx = u.rtx /\ IsShutdown(t)
        /\ t.st = u.st \/ t.st = "session_terminated"
        /\ t.timer = u.timer \/ ~t.timer
    <3>1. CASE t = r
      BY <2>5, <3>1 DEF IsShutdown, Sessions, SessionStates
    <3>2. CASE t = stop(u)
      BY <2>5, <3>2, StopFrame DEF IsShutdown
    <3> QED
      BY <2>2, <3>1, <3>2
  <2>7. LoggedOn(s, m, b, t)
    BY <2>5, <2>6 DEF LoggedOn, Admitted, Carried, Timed, IsEstablished, IsLive
  <2> QED
    BY <2>7 DEF t
<1> QED
  BY <1>2, <1>3

(* process() for a logon: a second logon of a session that is up is        *)
(* rejected and counted, any other is handled as above.                    *)
LEMMA LogonFrame ==
    ASSUME NEW s, NEW m \in Received, m.type = "Logon", NEW auth \in LogonOutcomes,
           NEW b \in Int, Ready(s),
           s.st # "continuous" => Greeted(s, m, auth, b)
    PROVE  LET t == process(s, m, "ok", auth)
           IN  /\ s.st = "continuous" => Stepped(s, t) /\ t.got = 0
               /\ s.st # "continuous" => LoggedOn(s, m, b, t)
<1> DEFINE h == Dispatch(s, m, "ok", auth)
<1> DEFINE t == process(s, m, "ok", auth)
<1>1. h = handle_logon(s, m, auth)
  BY DEF Dispatch
<1>2. t = CASE m.type # "Malformed" /\ h.exc = "logoff" -> ForceLogoff(h)
            [] m.type # "Malformed" /\ h.exc = "other"  -> h
            [] OTHER -> IF h.rtx.on THEN h ELSE Finish(h, m)
  BY DEF process
<1> HIDE DEF h, t
<1>3. CASE s.st = "continuous"
  <2> DEFINE g == send(s, Msg("Reject"))
  <2>1. h = g
    BY <1>1, <1>3 DEF handle_logon
  <2>2. s \in Sessions
    BY DEF Ready
  <2>3. Sent(s, g)
    BY <2>2, SimpleSendFrame, MsgType DEF MsgTypes
  <2> HIDE DEF g
  <2>4. Handled(s, m, s)
    BY CountType DEF Handled, Ready, SameSession, Persisted, Sessions
  <2>5. Handled(s, m, g) /\ g.exc = "none" /\ ~g.rtx.on
    BY <2>3, <2>4, SentHandled DEF Sent, Ready
  <2>6. t = Finish(g, m)
    BY <1>2, <2>1, <2>5
  <2>7. Stepped(s, t) /\ t.got = 0
    BY <2>2, <2>5, <2>6, FinishFrame DEF HandedOver
  <2> QED
    BY <1>3, <2>7 DEF t
<1>4. CASE s.st # "continuous"
  <2> DEFINE r == do_state_change(s, "logon_received")
  <2>1. Carried(s, m, b, r) /\ r.st = "logon_received" /\ r.exc = "none" /\ ~r.held
    BY <1>4, GreetedFrame
  <2>2. h = IF s.role = "initiator" THEN LogonInitiator(r, m, auth) ELSE LogonAcceptor(r, m, auth)
    BY <1>1, <1>4 DEF handle_logon
  <2> HIDE DEF r
  <2>3. s.role \in {"initiator", "acceptor"} /\ r.role = s.role
    BY <2>1 DEF Ready, Carried, Sessions, Roles
  <2>4. Admitted(s, m, b, h) /\ h.exc \in {"none", "logoff"} /\ (h.exc = "none" => Timed(h))
    <3>1. CASE s.role = "initiator"
      BY <2>1, <2>2, <2>3, <3>1, LogonInitiatorFrame
    <3>2. CASE s.role = "acceptor"
      <4>1. m.reset /\ auth # "unknown" => b = -1
        BY <1>4, <3>2 DEF Greeted
      <4>2. h = LogonAcceptor(r, m, auth)
        BY <2>2, <3>2
      <4> QED
        BY <2>1, <4>1, <4>2, LogonAcceptorFrame
    <3> QED
      BY <2>3, <3>1, <3>2
  <2>5. LoggedOn(s, m, b, t)
    <3>1. CASE h.exc = "logoff"
      <4>1. t = ForceLogoff(h)
        BY <1>2, <3>1
      <4> QED
        BY <2>4, <4>1, LogonTails
    <3>2. CASE h.exc = "none"
      <4>1. ~h.rtx.on
        BY <2>4 DEF Admitted, Carried
      <4>2. t = Finish(h, m)
        BY <1>2, <3>2, <4>1
      <4> QED
        BY <2>4, <3>2, <4>2, LogonTails
    <3> QED
      BY <2>4, <3>1, <3>2
  <2> QED
    BY <1>4, <2>5 DEF t
<1> QED
  BY <1>3, <1>4

-----------------------------------------------------------------------------
(* The invariant *)

(* The last number handed to the application, -1 if there is none.         *)
LastOf(q) == IF q = <<>> THEN -1 ELSE q[Len(q)]

(* A session between two operations, with b the last number handed to the  *)
(* application: the control record and the number expected are beyond b, a *)
(* session that is established, resends or is timed has its persister, a   *)
(* resend runs only while the session is up, and an acceptor that has its  *)
(* persister has taken a logon on this connection.                         *)
Sound(s, b) ==
    /\ s \in Sessions
    /\ s.exc = "none" /\ ~s.held /\ s.got = 0
    /\ b < s.ctrl[2]
    /\ s.per /\ s.st # "none" => b < s.nr
    /\ s.role = "initiator" \/ IsEstablished(s.st) \/ s.rtx.on \/ s.timer => s.per
    /\ s.st = "none" => ~s.timer /\ ~s.rtx.on
    /\ s.rtx.on => ~IsShutdown(s)
    /\ Timed(s)

(* RecordLag of a session after f operations that could not write.         *)
Lag(s, f) == s.timer /\ ~IsShutdown(s) => s.nr - s.ctrl[2] \in 0 .. 1 + f

OpenInv ==
    /\ log \in Seq(Nat)
    /\ used \in [{"msgs", "app", "starts", "fails"} -> Nat]
    /\ Sound(ses, LastOf(log))
    /\ ses.wire
    /\ DeliveredInOrder
    /\ RecordLag

(* Settling a session clears the fields that exist only inside an action.  *)
LEMMA SettleFrame ==
    ASSUME NEW t \in Sessions
    PROVE  LET u == Settle(t)
           IN  /\ u \in Sessions /\ u.wire /\ u.exc = "none" /\ ~u.held /\ u.got = 0
               /\ u.role = t.role /\ u.per = t.per /\ u.shut = t.shut /\ u.timer = t.timer
               /\ u.st = t.st /\ u.nr = t.nr /\ u.ctrl = t.ctrl /\ u.store = t.store
               /\ u.rtx = t.rtx
<1>1. <<>> \in Seq(Messages)
  OBVIOUS
<1> QED
  BY <1>1 DEF Settle, Sessions, Exceptions

(* An operation other than a logon leads from a sound session to a sound   *)
(* one, also when it has just handed over a number it has counted.         *)
LEMMA SteppedSound ==
    ASSUME NEW s, NEW b \in Int, Sound(s, b), s.st # "none", ~IsShutdown(s),
           NEW f \in Nat, Lag(s, f), NEW t, Stepped(s, t),
           NEW c \in Int, c = b \/ (c < t.ctrl[2] /\ c < t.nr)
    PROVE  Sound(Settle(t), c) /\ Lag(Settle(t), IF s.wire THEN f ELSE f + 1)
<1> DEFINE u == Settle(t)
<1>1. t \in Sessions /\ s \in Sessions
  BY DEF Stepped, Sound
<1>2. s.nr \in Nat /\ t.nr \in Nat /\ t.ctrl[2] \in Nat /\ s.ctrl[2] \in Nat
  BY <1>1 DEF Sessions
<1>3. /\ u \in Sessions /\ u.wire /\ u.exc = "none" /\ ~u.held /\ u.got = 0
      /\ u.role = t.role /\ u.per = t.per /\ u.shut = t.shut /\ u.timer = t.timer
      /\ u.st = t.st /\ u.nr = t.nr /\ u.ctrl = t.ctrl /\ u.store = t.store
      /\ u.rtx = t.rtx
  BY <1>1, SettleFrame
<1> HIDE DEF u
<1>4. c < t.ctrl[2] /\ (s.per => c < t.nr)
  <2>1. s.per => b < s.nr
    BY DEF Sound
  <2>2. s.per => b < t.nr
    BY <1>2, <2>1 DEF Stepped
  <2>3. b < t.ctrl[2]
    BY <1>2, <2>1, <2>2 DEF Stepped, Sound
  <2> QED
    BY <2>2, <2>3
<1>5. Timed(u)
  BY <1>3 DEF Timed, Stepped, Sound, IsShutdown
<1>6. Sound(u, c)
  BY <1>3, <1>4, <1>5 DEF Sound, Stepped, IsShutdown
<1>7. Lag(u, IF s.wire THEN f ELSE f + 1)
  <2> SUFFICES ASSUME t.timer, ~IsShutdown(t)
               PROVE  t.nr - t.ctrl[2] \in 0 .. 1 + (IF s.wire THEN f ELSE f + 1)
    BY <1>3 DEF Lag, IsShutdown
  <2>1. s.timer /\ s.per
    BY DEF Stepped, Sound
  <2>2. s.nr - s.ctrl[2] \in 0 .. 1 + f
    BY <2>1 DEF Lag
  <2>3. KeptUp(s, t)
    BY <2>1 DEF Stepped
  <2> QED
    BY <1>2, <2>2, <2>3 DEF KeptUp
<1> QED
  BY <1>6, <1>7 DEF u

(* A logon leads to a sound session.                                       *)
LEMMA LoggedOnSound ==
    ASSUME NEW s, NEW m, NEW b \in Int, NEW t, LoggedOn(s, m, b, t)
    PROVE  Sound(Settle(t), b) /\ \A f \in Nat : Lag(Settle(t), f)
<1> DEFINE u == Settle(t)
<1>1. t \in Sessions
  BY DEF LoggedOn, Admitted, Carried
<1>2. /\ u \in Sessions /\ u.wire /\ u.exc = "none" /\ ~u.held /\ u.got = 0
      /\ u.role = t.role /\ u.per = t.per /\ u.shut = t.shut /\ u.timer = t.timer
      /\ u.st = t.st /\ u.nr = t.nr /\ u.ctrl = t.ctrl /\ u.store = t.store
      /\ u.rtx = t.rtx
  BY <1>1, SettleFrame
<1> HIDE DEF u
<1>3. Sound(u, b)
  BY <1>2 DEF Sound, LoggedOn, Admitted, Carried, Timed, IsShutdown
<1>4. ASSUME NEW f \in Nat
      PROVE  Lag(u, f)
  <2>1. u.timer /\ ~IsShutdown(u) => u.nr - u.ctrl[2] \in {0, 1}
    BY <1>2 DEF LoggedOn, Admitted, Carried, IsShutdown
  <2> QED
    BY <2>1 DEF Lag
<1> QED
  BY <1>3, <1>4 DEF u

(* start() of the initiator recovers a number beyond b unless it is asked  *)
(* for one.                                                                *)
LEMMA StartRequestedSound ==
    ASSUME ~ResetSeqNums, NEW s, NEW b \in Int, Sound(s, b), s.role = "initiator",
           NEW req \in Nat \X Nat, NEW c \in Int, c = IF req = <<0, 0>> THEN b ELSE -1
    PROVE  LET u == Settle(StartRequested(s, req))
           IN  Sound(u, c) /\ ~u.timer /\ u.wire /\ s.store \subseteq u.store
<1> DEFINE i == [s EXCEPT !.st = "not_logged_in", !.ns = 1, !.nr = 1, !.shut = FALSE,
                          !.closed = FALSE, !.rtx = NoRtx, !.tr = FALSE, !.timer = FALSE]
<1> DEFINE r == recover_seqnums(i)
<1> DEFINE q == [r EXCEPT !.ns = IF req[1] # 0 THEN req[1] ELSE @,
                          !.nr = IF req[2] # 0 THEN req[2] ELSE @]
<1> DEFINE w == send(q, generate_logon("initiator"))
<1> DEFINE t == do_state_change(w, "logon_sent")
<1> DEFINE u == Settle(t)
<1>1. s \in Sessions /\ s.per /\ s.ctrl[2] \in Nat /\ s.ctrl[1] \in Nat
  BY DEF Sound, Sessions
<1>2. i \in Sessions
  <2>1. NoRtx \in RetransmissionContext
    BY DEF NoRtx, RetransmissionContext
  <2> QED
    BY <1>1, <2>1 DEF Sessions, SessionStates
<1>3. /\ i.role = "initiator" /\ i.per /\ i.nr = 1 /\ ~i.shut /\ ~i.timer /\ ~i.rtx.on
      /\ i.store = s.store /\ i.ctrl = s.ctrl
  BY <1>1 DEF Sound, NoRtx, Sessions
<1> HIDE DEF i
<1>4. r \in Sessions
  BY <1>2, PersisterType
<1>5. /\ r.role = "initiator" /\ r.per /\ ~r.shut /\ ~r.timer /\ ~r.rtx.on
      /\ r.store = s.store /\ r.ctrl = s.ctrl
      /\ r.nr = s.ctrl[2] \/ (s.ctrl = <<0, 0>> /\ r.nr = 1)
  BY <1>2, <1>3 DEF recover_seqnums, Sessions
<1> HIDE DEF r
<1>6. r.nr \in Nat /\ r.ns \in Nat /\ req[1] \in Nat /\ req[2] \in Nat
  BY <1>4, CountType
<1>7. b < r.nr
  <2>1. b < s.ctrl[2]
    BY DEF Sound
  <2> QED
    BY <1>1, <1>5, <2>1
<1>8. /\ q \in Sessions /\ q.role = "initiator" /\ q.per /\ ~q.shut /\ ~q.timer /\ ~q.rtx.on
      /\ q.store = s.store /\ q.ctrl = s.ctrl /\ q.nr = IF req[2] # 0 THEN req[2] ELSE r.nr
  BY <1>4, <1>5, <1>6 DEF Sessions
<1>9. q.nr \in Nat /\ c < q.nr /\ c < s.ctrl[2]
  <2>1. CASE req = <<0, 0>>
    BY <1>6, <1>7, <1>8, <2>1 DEF Sound
  <2>2. CASE req # <<0, 0>>
    BY <1>1, <1>6, <1>8, <2>2
  <2> QED
    BY <2>1, <2>2
<1> HIDE DEF q
<1>10. Sent(q, w)
  BY <1>8, SimpleSendFrame, GenerateType DEF Roles
<1> HIDE DEF w
<1>11. t \in Sessions
  BY <1>10, StateType DEF Sent, SessionStates
<1>12. /\ t.role = "initiator" /\ t.per /\ ~t.shut /\ ~t.timer /\ ~t.rtx.on
       /\ s.store \subseteq t.store /\ t.nr = q.nr /\ t.st = "logon_sent"
       /\ t.ctrl = s.ctrl \/ t.ctrl[2] = q.nr
  BY <1>8, <1>10 DEF Sent, SameSession, Persisted, do_state_change, Sessions
<1> HIDE DEF t
<1>13. /\ u \in Sessions /\ u.wire /\ u.exc = "none" /\ ~u.held /\ u.got = 0
       /\ u.role = t.role /\ u.per = t.per /\ u.shut = t.shut /\ u.timer = t.timer
       /\ u.st = t.st /\ u.nr = t.nr /\ u.ctrl = t.ctrl /\ u.store = t.store
       /\ u.rtx = t.rtx
  BY <1>11, SettleFrame
<1>14. StartRequested(s, req) = t
  BY DEF StartRequested, t, w, q, r, i
<1> HIDE DEF u
<1>15. Sound(u, c) /\ ~u.timer /\ u.wire /\ s.store \subseteq u.store
  BY <1>9, <1>12, <1>13 DEF Sound, Timed, IsEstablished, IsLive
<1> QED
  BY <1>14, <1>15 DEF u

(* A new acceptor has no persister until the logon.                        *)
LEMMA StartAcceptorSound ==
    ASSUME NEW s, NEW b \in Int, Sound(s, b), s.role = "acceptor"
    PROVE  LET u == Settle(StartAcceptor(s))
           IN  Sound(u, b) /\ ~u.timer /\ u.wire /\ s.store \subseteq u.store
<1> DEFINE t == StartAcceptor(s)
<1> DEFINE u == Settle(t)
<1>1. s \in Sessions /\ t \in Sessions
  BY StartType DEF Sound
<1>2. /\ t.role = s.role /\ ~t.per /\ ~t.shut /\ ~t.timer /\ ~t.rtx.on
      /\ t.store = s.store /\ t.ctrl = s.ctrl /\ t.st = "wait_for_logon"
  BY <1>1 DEF StartAcceptor, NoRtx, Sessions
<1> HIDE DEF t
<1>3. /\ u \in Sessions /\ u.wire /\ u.exc = "none" /\ ~u.held /\ u.got = 0
      /\ u.role = t.role /\ u.per = t.per /\ u.shut = t.shut /\ u.timer = t.timer
      /\ u.st = t.st /\ u.nr = t.nr /\ u.ctrl = t.ctrl /\ u.store = t.store
      /\ u.rtx = t.rtx
  BY <1>1, SettleFrame
<1> HIDE DEF u
<1>4. Sound(u, b) /\ ~u.timer /\ u.wire /\ s.store \subseteq u.store
  BY <1>2, <1>3 DEF Sound, Timed, IsEstablished, IsLive
<1> QED
  BY <1>4 DEF u, t

(* What is on disk after a crash is what was there before.                 *)
LEMMA KilledSound ==
    ASSUME ~ResetSeqNums, NEW s, NEW b \in Int, Sound(s, b)
    PROVE  /\ Sound(Killed(s), b) /\ ~Killed(s).timer /\ Killed(s).wire
           /\ Killed(s).store = s.store
<1> DEFINE u == Killed(s)
<1>1. s \in Sessions /\ u \in Sessions
  BY KilledType DEF Sound
<1>2. u = Fresh(s.role, s.store, s.ctrl)
  BY DEF Killed
<1>3. /\ u.role = s.role /\ u.per = (s.role = "initiator") /\ u.st = "none" /\ ~u.timer
      /\ ~u.rtx.on /\ u.store = s.store /\ u.ctrl = s.ctrl /\ u.wire /\ u.exc = "none"
      /\ ~u.held /\ u.got = 0
  BY <1>2 DEF Fresh, NoRtx
<1> HIDE DEF u
<1>4. s.role \in {"initiator", "acceptor"}
  BY <1>1 DEF Sessions, Roles
<1>5. Sound(u, b) /\ ~u.timer /\ u.wire /\ u.store = s.store
  BY <1>1, <1>3, <1>4 DEF Sound, Timed, IsEstablished, IsLive, IsShutdown
<1> QED
  BY <1>5 DEF u

(* The counterparty sends messages.                                        *)
LEMMA PeerMessagesType == PeerMessages \subseteq Received
<1>1. MaxSeq \in Nat
  BY OpenAssumption
<1> DEFINE seqs == 1 .. MaxSeq
<1> DEFINE types == {"App", "Logout", "Heartbeat", "TestRequest", "Reject", "Malformed"}
<1> DEFINE plain(t, q, d) ==
             [Msg(t) EXCEPT !.seq = q, !.dup = d, !.val = IF t = "App" THEN 1 ELSE 0]
<1> DEFINE reset(q, n) == [Msg("SequenceReset") EXCEPT !.seq = q, !.new = n]
<1> DEFINE again(q, b, e) == [Msg("ResendRequest") EXCEPT !.seq = q, !.begin = b, !.end = e]
<1> DEFINE logon(q, r) == [Msg("Logon") EXCEPT !.seq = q, !.reset = r]
<1> DEFINE any == [type: MsgTypes, seq: Nat, dup: BOOLEAN, val: Nat, new: Nat,
                   begin: Nat, end: Nat, reset: BOOLEAN]
<1>2. \A q \in seqs : q \in Nat
  BY <1>1
<1>3. ASSUME NEW t \in types, NEW q \in seqs, NEW d \in BOOLEAN
      PROVE  plain(t, q, d) \in Received
  <2>1. q \in Nat /\ t \in MsgTypes /\ t # "SequenceReset"
    BY <1>2, <1>3 DEF MsgTypes
  <2>2. plain(t, q, d) \in any /\ plain(t, q, d).type = t
    BY <2>1 DEF Msg
  <2> QED
    BY <2>1, <2>2 DEF Received
<1>4. ASSUME NEW q \in seqs, NEW n \in 1 .. MaxSeq + 1
      PROVE  reset(q, n) \in Received
  <2>1. q \in Nat /\ n \in Nat /\ n > 0
    BY <1>1, <1>2, <1>4
  <2>2. reset(q, n) \in any /\ reset(q, n).new = n
    BY <2>1 DEF Msg, MsgTypes
  <2> QED
    BY <2>1, <2>2 DEF Received
<1>5. ASSUME NEW q \in seqs, NEW b \in 0 .. 2, NEW e \in 0 .. 1
      PROVE  again(q, b, e) \in Received
  <2>1. q \in Nat /\ b \in Nat /\ e \in Nat
    BY <1>2, <1>5
  <2>2. again(q, b, e) \in any /\ again(q, b, e).type = "ResendRequest"
    BY <2>1 DEF Msg, MsgTypes
  <2> QED
    BY <2>1, <2>2 DEF Received
<1>6. ASSUME NEW q \in seqs, NEW r \in BOOLEAN
      PROVE  logon(q, r) \in Received
  <2>1. q \in Nat
    BY <1>2, <1>6
  <2>2. logon(q, r) \in any /\ logon(q, r).type = "Logon"
    BY <2>1, <1>6 DEF Msg, MsgTypes
  <2> QED
    BY <2>1, <2>2 DEF Received
<1>7. PeerMessages = {plain(t, q, d) : t \in types, q \in seqs, d \in BOOLEAN}
                     \cup {reset(q, n) : q \in seqs, n \in 1 .. MaxSeq + 1}
                     \cup {again(q, b, e) : q \in seqs, b \in 0 .. 2, e \in 0 .. 1}
                     \cup {logon(q, r) : q \in seqs, r \in BOOLEAN}
  BY DEF PeerMessages
<1> HIDE DEF seqs, types, plain, reset, again, logon
<1> QED
  BY <1>3, <1>4, <1>5, <1>6, <1>7

(* A number beyond the last one keeps the log in order.                    *)
LEMMA AppendInOrder ==
    ASSUME NEW q \in Seq(Nat), NEW n \in Nat, LastOf(q) < n,
           \A i, j \in DOMAIN q : i < j => q[i] < q[j]
    PROVE  /\ Append(q, n) \in Seq(Nat)
           /\ LastOf(Append(q, n)) = n
           /\ Len(Append(q, n)) = Len(q) + 1
           /\ \A i, j \in DOMAIN Append(q, n) : i < j => Append(q, n)[i] < Append(q, n)[j]
<1> DEFINE p == Append(q, n)
<1>1. /\ p \in Seq(Nat) /\ Len(p) = Len(q) + 1 /\ Len(q) \in Nat /\ p[Len(q) + 1] = n
      /\ \A i \in 1 .. Len(q) : p[i] = q[i] /\ q[i] \in Nat
      /\ DOMAIN p = 1 .. Len(q) + 1 /\ DOMAIN q = 1 .. Len(q)
  OBVIOUS
<1>2. p # <<>>
  BY <1>1
<1> HIDE DEF p
<1>3. \A i \in 1 .. Len(q) : q[i] < n
  <2>1. ASSUME NEW i \in 1 .. Len(q)
        PROVE  q[i] < n
    <3>1. q # <<>> /\ Len(q) \in 1 .. Len(q)
      BY SMTT(30), <1>1
    <3>2. q[Len(q)] < n
      BY <3>1 DEF LastOf
    <3>3. i = Len(q) \/ q[i] < q[Len(q)]
      <4>1. DOMAIN q = 1 .. Len(q)
        OBVIOUS
      <4>2. i = Len(q) \/ i < Len(q)
        <5>1. i \in Nat /\ Len(q) \in Nat /\ i <= Len(q)
          OBVIOUS
        <5> QED
          BY <5>1
      <4> QED
        BY <3>1, <4>1, <4>2
    <3>4. q[i] \in Nat /\ q[Len(q)] \in Nat
      BY <1>1, <3>1
    <3> QED
      BY <3>2, <3>3, <3>4
  <2> QED
    BY <2>1
<1>4. ASSUME NEW i \in DOMAIN p, NEW j \in DOMAIN p, i < j
      PROVE  p[i] < p[j]
  <2>1. i \in 1 .. Len(q)
    BY <1>1, <1>4
  <2>2. CASE j = Len(q) + 1
    BY <1>1, <1>3, <2>1, <2>2
  <2>3. CASE j # Len(q) + 1
    <3>1. j \in 1 .. Len(q)
      BY <1>1, <2>3
    <3> QED
      BY <1>1, <1>4, <2>1, <3>1
  <2> QED
    BY <2>2, <2>3
<1>5. LastOf(p) = n
  BY <1>1, <1>2 DEF LastOf
<1> QED
  BY <1>1, <1>4, <1>5 DEF p

(* The last number handed over is an integer.                              *)
LEMMA LastType ==
    ASSUME NEW q \in Seq(Nat)
    PROVE  LastOf(q) \in Int
BY DEF LastOf

(* A session as an operation finds it, whether or not it is going to write. *)
LEMMA WiredFrame ==
    ASSUME OpenInv, NEW w \in BOOLEAN
    PROVE  LET s == Wired(w)
           IN  /\ Sound(s, LastOf(log)) /\ Lag(s, used["fails"]) /\ s.wire = w
               /\ s.role = ses.role /\ s.st = ses.st /\ s.nr = ses.nr /\ s.ctrl = ses.ctrl
               /\ s.per = ses.per /\ s.timer = ses.timer /\ s.store = ses.store
               /\ s.rtx = ses.rtx /\ s.tr = ses.tr /\ IsShutdown(s) = IsShutdown(ses)
               /\ w => s = ses
<1> DEFINE s == Wired(w)
<1>1. Sound(ses, LastOf(log)) /\ ses \in Sessions /\ ses.wire = TRUE
  BY DEF OpenInv, Sound, Sessions
<1>2. /\ s \in Sessions /\ s.wire = w /\ s.role = ses.role /\ s.st = ses.st /\ s.nr = ses.nr
      /\ s.ctrl = ses.ctrl /\ s.per = ses.per /\ s.timer = ses.timer /\ s.store = ses.store
      /\ s.rtx = ses.rtx /\ s.tr = ses.tr /\ s.shut = ses.shut /\ s.exc = ses.exc
      /\ s.held = ses.held /\ s.got = ses.got
  BY <1>1 DEF Wired, Sessions
<1>3. w => s = ses
  BY <1>1 DEF Wired, Sessions
<1> HIDE DEF s
<1>4. Sound(s, LastOf(log)) /\ Lag(s, used["fails"]) /\ IsShutdown(s) = IsShutdown(ses)
  BY <1>1, <1>2 DEF Sound, Lag, Timed, IsShutdown, OpenInv, RecordLag, InSession
<1> QED
  BY <1>2, <1>3, <1>4 DEF s

(* The number of operations that could not write.                          *)
LEMMA FailingType ==
    ASSUME OpenInv, NEW w \in BOOLEAN, NEW c \in {"msgs", "app", "starts"},
           used' \in {Failing(w), [Failing(w) EXCEPT ![c] = @ + 1]}
    PROVE  /\ used["fails"] \in Nat
           /\ used' \in [{"msgs", "app", "starts", "fails"} -> Nat]
           /\ used'["fails"] = IF w THEN used["fails"] ELSE used["fails"] + 1
BY DEF OpenInv, Failing

(* The reader of a sound session may take a message.                       *)
LEMMA ReadyNow ==
    ASSUME OpenInv, Reading, NEW w \in BOOLEAN
    PROVE  Ready(Wired(w))
BY WiredFrame DEF Sound, Reading, Ready

(* process() for any message but a logon, with whatever is wrong with it.  *)
LEMMA ProcessAnyFrame ==
    ASSUME NEW s, Ready(s), NEW m \in Received, m.type # "Logon", NEW fault, NEW auth
    PROVE  LET t == process_any(s, m, fault, auth)
           IN  Stepped(s, t) /\ HandedOver(s, m, t)
<1> DEFINE t == process_any(s, m, fault, auth)
<1>1. Handled(s, m, s) /\ s.exc = "none" /\ s.got = 0 /\ ~s.rtx.on /\ s \in Sessions
  BY CountType DEF Handled, Ready, SameSession, Persisted, Sessions
<1>2. CASE Faulty(s, m, fault)
  <2>1. t = ForceLogoff(s)
    BY <1>2 DEF process_any
  <2> QED
    BY <1>1, <2>1, ForceLogoffFrame DEF HandedOver
<1>3. CASE ~Faulty(s, m, fault) /\ m.type = "App" /\ ~active
  <2>1. t = Finish(s, m)
    BY <1>3 DEF process_any
  <2> QED
    BY <1>1, <2>1, FinishFrame
<1>4. CASE ~Faulty(s, m, fault) /\ ~(m.type = "App" /\ ~active)
  <2>1. t = process(s, m, "ok", auth)
    BY <1>4 DEF process_any
  <2> QED
    BY <2>1, ProcessFrame
<1> QED
  BY <1>2, <1>3, <1>4

(* What one step guarantees besides the invariant: the number expected     *)
(* does not fall, an acceptor hands nothing over before it has a timer,    *)
(* and nothing stored is lost.                                             *)
StepKeeps ==
    /\ last' \in {"receive", "resend", "send", "tick", "end"} => ses'.nr >= ses.nr
    /\ ses.role = "acceptor" /\ Len(log') > Len(log) => ses.timer
    /\ last' # "reset" => ses.store \subseteq ses'.store

(* What a step does to the counters, w saying whether it could write.      *)
Counts(w) ==
    /\ used' \in [{"msgs", "app", "starts", "fails"} -> Nat]
    /\ used'["fails"] = IF w THEN used["fails"] ELSE used["fails"] + 1

(* A step that is not a logon and hands nothing over.                      *)
LEMMA QuietStep ==
    ASSUME OpenInv, NEW w \in BOOLEAN, Counts(w), NEW t, Stepped(Wired(w), t),
           ses' = Settle(t), log' = log, ses.st # "none", ~IsShutdown(ses)
    PROVE  OpenInv' /\ StepKeeps
<1> DEFINE s == Wired(w)
<1>1. log \in Seq(Nat) /\ LastOf(log) \in Int /\ t \in Sessions /\ used["fails"] \in Nat
  BY LastType DEF OpenInv, Stepped
<1>2. /\ Sound(s, LastOf(log)) /\ Lag(s, used["fails"]) /\ s.wire = w /\ s.st # "none"
      /\ ~IsShutdown(s) /\ s.nr = ses.nr /\ s.store = ses.store /\ Stepped(s, t)
  BY WiredFrame
<1> HIDE DEF s
<1>3. Sound(Settle(t), LastOf(log)) /\ Lag(Settle(t), used'["fails"])
  BY <1>1, <1>2, SteppedSound DEF Counts
<1>4. Settle(t).nr = t.nr /\ Settle(t).store = t.store /\ Settle(t).wire
  BY <1>1, SettleFrame
<1>5. OpenInv'
  BY <1>1, <1>3, <1>4 DEF OpenInv, Lag, RecordLag, InSession, DeliveredInOrder, Counts
<1>6. StepKeeps
  <2>1. Len(log) \in Nat
    BY <1>1
  <2>2. ~(Len(log') > Len(log))
    BY <2>1
  <2> QED
    BY <1>2, <1>4, <2>2 DEF StepKeeps, Stepped
<1> QED
  BY <1>5, <1>6

(* A message that is not a logon.                                          *)
LEMMA ReceiveOther ==
    ASSUME OpenInv, Reading, NEW w \in BOOLEAN, Counts(w),
           NEW m \in Received, m.type # "Logon", NEW fault, NEW auth, NEW t,
           t = process_any(Wired(w), m, fault, auth), ses' = Settle(t),
           log' = CASE Resets(m, auth) -> <<>>
                    [] t.got # 0 /\ ~m.dup -> Append(log, m.seq)
                    [] OTHER -> log
    PROVE  OpenInv' /\ StepKeeps
<1> DEFINE s == Wired(w)
<1>1. /\ Ready(s) /\ ses.st # "none" /\ ~IsShutdown(ses)
      /\ s.st = ses.st /\ s.nr = ses.nr /\ s.per = ses.per /\ s.role = ses.role
      /\ s.timer = ses.timer /\ s.store = ses.store /\ s.wire = w
      /\ IsShutdown(s) = IsShutdown(ses)
      /\ Sound(s, LastOf(log)) /\ Lag(s, used["fails"])
  BY ReadyNow, WiredFrame DEF Reading
<1>2. Stepped(s, t) /\ HandedOver(s, m, t)
  BY <1>1, ProcessAnyFrame
<1>3. ~Resets(m, auth)
  BY DEF Resets
<1>4. CASE ~(t.got # 0 /\ ~m.dup)
  <2>1. log' = log
    BY <1>3, <1>4
  <2> QED
    BY <1>1, <1>2, <2>1, QuietStep
<1>5. CASE t.got # 0 /\ ~m.dup
  <2> HIDE DEF s
  <2>1. log' = Append(log, m.seq)
    BY <1>3, <1>5
  <2>2. /\ IsEstablished(ses.st) /\ m.seq = ses.nr /\ t.nr = ses.nr + 1
        /\ ses.per => t.ctrl[2] = t.nr
    BY <1>1, <1>2, <1>5 DEF HandedOver
  <2>3. log \in Seq(Nat) /\ LastOf(log) \in Int /\ t \in Sessions /\ used["fails"] \in Nat
    BY <1>2, LastType DEF OpenInv, Stepped
  <2>4. ses.per /\ ses.nr \in Nat /\ LastOf(log) < ses.nr /\ s \in Sessions
    BY <1>1, <2>2, <2>3, CountType DEF Sound
  <2>5. ses.nr < t.ctrl[2] /\ ses.nr < t.nr
    BY <2>2, <2>4
  <2>6. Sound(Settle(t), ses.nr) /\ Lag(Settle(t), used'["fails"])
    BY <1>1, <1>2, <2>3, <2>4, <2>5, SteppedSound DEF Counts
  <2>7. /\ Append(log, ses.nr) \in Seq(Nat)
        /\ LastOf(Append(log, ses.nr)) = ses.nr
        /\ Len(Append(log, ses.nr)) = Len(log) + 1
        /\ \A i, j \in DOMAIN Append(log, ses.nr) :
              i < j => Append(log, ses.nr)[i] < Append(log, ses.nr)[j]
    BY <2>3, <2>4, AppendInOrder DEF OpenInv, DeliveredInOrder
  <2>8. log' = Append(log, ses.nr)
    BY <2>1, <2>2
  <2>9. Settle(t).nr = t.nr /\ Settle(t).store = t.store /\ Settle(t).wire
    BY <2>3, SettleFrame
  <2>10. OpenInv'
    <3>1. Sound(ses', LastOf(log')) /\ Lag(ses', used'["fails"]) /\ log' \in Seq(Nat)
      BY <2>6, <2>7, <2>8
    <3>2. DeliveredInOrder'
      BY <2>7, <2>8 DEF DeliveredInOrder
    <3> QED
      BY <2>9, <3>1, <3>2 DEF OpenInv, Lag, RecordLag, InSession, Counts
  <2>11. StepKeeps
    <3>1. ses.role = "acceptor" => ses.timer
      BY <1>1, <2>3, <2>4 DEF Sound, Timed
    <3> QED
      BY <1>1, <1>2, <2>9, <3>1 DEF StepKeeps, Stepped
  <2> QED
    BY <2>10, <2>11
<1> QED
  BY <1>4, <1>5

(* A logon.                                                                *)
LEMMA ReceiveLogon ==
    ASSUME OpenInv, Reading, NEW w \in BOOLEAN, Counts(w), NEW m \in Received, m.type = "Logon", NEW fault,
           NEW auth \in LogonOutcomes, NEW t,
           t = process_any(Wired(w), m, fault, auth), ses' = Settle(t),
           log' = CASE Resets(m, auth) -> <<>>
                    [] t.got # 0 /\ ~m.dup -> Append(log, m.seq)
                    [] OTHER -> log,
           last' = CASE m.type = "Logon" /\ m.reset  -> "reset"
                     [] m.type = "Logon" /\ ~m.reset -> "logon"
                     [] m.type # "Logon" -> "receive"
    PROVE  OpenInv' /\ StepKeeps
<1> DEFINE b == IF Resets(m, auth) THEN -1 ELSE LastOf(log)
<1> DEFINE s == Wired(w)
<1>1. /\ Ready(s) /\ ses.st # "none" /\ ~IsShutdown(ses)
      /\ s.st = ses.st /\ s.nr = ses.nr /\ s.per = ses.per /\ s.role = ses.role
      /\ s.store = ses.store /\ s.ctrl = ses.ctrl /\ Sound(s, LastOf(log))
  BY ReadyNow, WiredFrame DEF Reading
<1>2. t = process(s, m, "ok", auth)
  BY DEF process_any, Faulty
<1>3. /\ log \in Seq(Nat) /\ LastOf(log) \in Int /\ Len(log) \in Nat
      /\ ses.nr \in Nat /\ ses.ctrl[2] \in Nat
  BY LastType DEF OpenInv, Sound, Sessions
<1> HIDE DEF s
<1>4. b \in Int /\ b < ses.ctrl[2] /\ (ses.per => b < ses.nr)
  BY <1>1, <1>3 DEF Sound
<1>5. (ses.st # "continuous" /\ ses.role = "acceptor" /\ m.reset /\ auth # "unknown") => b = -1
  BY DEF Resets
<1>6. CASE ses.st = "continuous"
  <2>1. Stepped(s, t) /\ t.got = 0
    BY <1>1, <1>2, <1>4, <1>6, LogonFrame
  <2>2. ~Resets(m, auth)
    BY <1>6 DEF Resets
  <2>3. log' = log
    BY <2>1, <2>2
  <2> QED
    BY <1>1, <2>1, <2>3, QuietStep DEF s
<1>7. CASE ses.st # "continuous"
  <2> HIDE DEF b
  <2>1. Greeted(s, m, auth, b)
    BY <1>1, <1>3, <1>4, <1>5, <1>7 DEF Greeted, Sound
  <2>2. LoggedOn(s, m, b, t)
    BY <1>1, <1>2, <1>4, <2>1, <1>7, LogonFrame
  <2>3. Sound(Settle(t), b) /\ Lag(Settle(t), used'["fails"])
    <3>1. used'["fails"] \in Nat
      BY DEF Counts
    <3> QED
      BY <1>4, <2>2, <3>1, LoggedOnSound
  <2>4. t.got = 0 /\ t \in Sessions /\ (~m.reset => ses.store \subseteq t.store)
    BY <1>1, <2>2 DEF LoggedOn, Admitted, Carried
  <2>5. log' = IF Resets(m, auth) THEN <<>> ELSE log
    BY <2>4
  <2>6. LastOf(log') = b
    BY <2>5 DEF b, LastOf
  <2>7. log' \in Seq(Nat) /\ ~(Len(log') > Len(log)) /\ DeliveredInOrder'
    <3>1. CASE Resets(m, auth)
      <4>1. log' = <<>>
        BY <2>5, <3>1
      <4> QED
        BY <1>3, <4>1 DEF DeliveredInOrder
    <3>2. CASE ~Resets(m, auth)
      <4>1. log' = log
        BY <2>5, <3>2
      <4> QED
        BY <1>3, <4>1 DEF DeliveredInOrder, OpenInv
    <3> QED
      BY <3>1, <3>2
  <2>8. OpenInv'
    <3>1. Settle(t).wire
      BY <2>4, SettleFrame
    <3> QED
      BY <2>3, <2>6, <2>7, <3>1 DEF OpenInv, Lag, RecordLag, InSession, Counts
  <2>9. StepKeeps
    <3>1. last' \in {"reset", "logon"} /\ (last' = "logon" => ~m.reset)
      BY DEF Received
    <3>2. Settle(t).store = t.store
      BY <2>4, SettleFrame
    <3> QED
      BY <2>4, <2>7, <3>1, <3>2 DEF StepKeeps
  <2> QED
    BY <2>8, <2>9
<1> QED
  BY <1>6, <1>7

(* Every step keeps the invariant and what a step has to keep.             *)
LEMMA OpenStep ==
    ASSUME ~ResetSeqNums, OpenInv, [Next]_vars
    PROVE  OpenInv' /\ (Next => StepKeeps)
<1>1. /\ log \in Seq(Nat) /\ LastOf(log) \in Int /\ Sound(ses, LastOf(log)) /\ Len(log) \in Nat
      /\ ses \in Sessions /\ ses.wire /\ ses.exc = "none" /\ ses.got = 0
  BY LastType DEF OpenInv, Sound
<1>2. CASE Receive
  <2> DEFINE Taken(m, w, fault, auth) ==
                /\ Count("msgs", MaxMsgs, w)
                /\ LET t == process_any(Wired(w), m, fault, auth)
                   IN  /\ ses' = Settle(t)
                       /\ log' = CASE Resets(m, auth) -> <<>>
                                   [] t.got # 0 /\ ~m.dup -> Append(log, m.seq)
                                   [] OTHER -> log
                /\ last' = CASE m.type = "Logon" /\ m.reset  -> "reset"
                             [] m.type = "Logon" /\ ~m.reset -> "logon"
                             [] m.type # "Logon" -> "receive"
  <2>0. PICK m \in PeerMessages, w \in BOOLEAN :
               \E fault \in FaultsOf(m), auth \in OutcomesOf(m) : Taken(m, w, fault, auth)
    BY <1>2 DEF Receive
  <2>1. PICK fault \in FaultsOf(m), auth \in OutcomesOf(m) : Taken(m, w, fault, auth)
    BY <2>0
  <2>2. m \in Received /\ auth \in LogonOutcomes /\ Reading
    BY <1>2, PeerMessagesType DEF LogonOutcomes, OutcomesOf, Receive
  <2> DEFINE t == process_any(Wired(w), m, fault, auth)
  <2>3. /\ ses' = Settle(t)
        /\ log' = CASE Resets(m, auth) -> <<>>
                    [] t.got # 0 /\ ~m.dup -> Append(log, m.seq)
                    [] OTHER -> log
        /\ last' = CASE m.type = "Logon" /\ m.reset  -> "reset"
                     [] m.type = "Logon" /\ ~m.reset -> "logon"
                     [] m.type # "Logon" -> "receive"
    BY <2>1
  <2>4. t = process_any(Wired(w), m, fault, auth)
    OBVIOUS
  <2> HIDE DEF t
  <2>5. Counts(w)
    BY <2>1, FailingType DEF Count, Counts
  <2>6. CASE m.type = "Logon"
    BY <2>2, <2>3, <2>4, <2>5, <2>6, ReceiveLogon
  <2>7. CASE m.type # "Logon"
    BY <2>2, <2>3, <2>4, <2>5, <2>7, ReceiveOther
  <2> QED
    BY <2>6, <2>7
<1>3. CASE ResendNext
  <2>1. PICK record \in ses.store, w \in BOOLEAN :
          used' = Failing(w) /\ ses' = Settle(ResendStep(Wired(w), record))
    BY <1>3 DEF ResendNext
  <2>2. record \in Nat \X Nat
    BY <1>1 DEF Sessions
  <2>3. ses.rtx.on /\ ses.per /\ ses.st # "none" /\ ~IsShutdown(ses) /\ log' = log
    BY <1>1, <1>3 DEF ResendNext, Sound
  <2>4. Stepped(Wired(w), ResendStep(Wired(w), record))
    BY <2>2, <2>3, WiredFrame, ResendStepFrame DEF Sound
  <2>5. Counts(w)
    BY <2>1, FailingType DEF Counts
  <2> QED
    BY <2>1, <2>3, <2>4, <2>5, QuietStep
<1>4. CASE ResendEnd
  <2>1. /\ ses.rtx.on /\ ses.per /\ ses.st # "none" /\ ~IsShutdown(ses) /\ log' = log
    BY <1>1, <1>4 DEF ResendEnd, Sound
  <2>2. PICK w \in BOOLEAN : used' = Failing(w) /\ ses' = Settle(ResendDone(Wired(w)))
    BY <1>4 DEF ResendEnd
  <2>3. Stepped(Wired(w), ResendDone(Wired(w)))
    BY <2>1, WiredFrame, ResendDoneFrame DEF Sound
  <2>4. Counts(w)
    BY <2>2, FailingType DEF Counts
  <2> QED
    BY <2>1, <2>2, <2>3, <2>4, QuietStep
<1>5. CASE ReaderEOF
  <2>1. /\ ses.st # "none" /\ ~IsShutdown(ses) /\ log' = log
        /\ ses' = Settle(ReaderEnds(ses)) /\ Reading /\ used' = used
    BY <1>5 DEF ReaderEOF, Reading
  <2>2. Ready(Wired(TRUE)) /\ Wired(TRUE) = ses
    BY <2>1, ReadyNow, WiredFrame
  <2>3. Stepped(Wired(TRUE), ReaderEnds(ses))
    BY <2>2, ReaderEndsFrame
  <2>4. Counts(TRUE)
    BY <2>1 DEF Counts, OpenInv
  <2> QED
    BY <2>1, <2>3, <2>4, QuietStep
<1>6. CASE AppSend
  <2>1. /\ ses.st # "none" /\ ~IsShutdown(ses) /\ ~ses.rtx.on /\ log' = log
    BY <1>6 DEF AppSend, IsEstablished, IsLive
  <2>2. PICK w \in BOOLEAN : /\ Count("app", MaxApp, w)
                             /\ ses' = Settle(send(Wired(w), generate_application(1)))
    BY <1>6 DEF AppSend
  <2>3. Stepped(Wired(w), send(Wired(w), generate_application(1)))
    BY <2>1, WiredFrame, SendStepped, GenerateType DEF Sound
  <2>4. Counts(w)
    BY <2>2, FailingType DEF Count, Counts
  <2> QED
    BY <2>1, <2>2, <2>3, <2>4, QuietStep
<1>7. CASE Tick
  <2>1. /\ ses.st # "none" /\ ~IsShutdown(ses) /\ ~ses.rtx.on /\ ses.per /\ ~ses.tr
        /\ log' = log
    BY <1>1, <1>7 DEF Tick, Sound
  <2>2. PICK w \in BOOLEAN :
          /\ used' = Failing(w)
          /\ ses' = Settle(LET t == heartbeat_service(Wired(w), FALSE, TRUE)
                           IN  IF t.tr THEN TestRequestSent(t) ELSE t)
    BY <1>7 DEF Tick
  <2> DEFINE h == heartbeat_service(Wired(w), FALSE, TRUE)
  <2> DEFINE t == IF h.tr THEN TestRequestSent(h) ELSE h
  <2>3. ses' = Settle(t)
    BY <2>2
  <2>4. Stepped(Wired(w), t)
    BY <2>1, WiredFrame, TickFrame DEF Sound
  <2>5. Counts(w)
    BY <2>2, FailingType DEF Counts
  <2> HIDE DEF t
  <2> QED
    BY <2>1, <2>3, <2>4, <2>5, QuietStep
<1>8. CASE activation_service
  BY <1>1, <1>8 DEF activation_service, OpenInv, DeliveredInOrder, RecordLag, InSession,
     StepKeeps
<1>9. CASE Start
  <2>1. PICK req \in ReqSend \X ReqReceive, w \in BOOLEAN :
          /\ ses.role = "acceptor" => req = <<0, 0>> /\ w
          /\ Count("starts", MaxStarts, w)
          /\ ses' = Settle(IF ses.role = "initiator" THEN StartRequested(Wired(w), req)
                           ELSE StartAcceptor(ses))
          /\ log' = IF req = <<0, 0>> THEN log ELSE <<>>
    BY <1>9 DEF Start
  <2>2. req \in Nat \X Nat
    BY OpenAssumption
  <2> DEFINE c == IF req = <<0, 0>> THEN LastOf(log) ELSE -1
  <2>3. c \in Int /\ c = LastOf(log')
    BY <1>1, <2>1 DEF LastOf
  <2>4. Sound(ses', c) /\ ~ses'.timer /\ ses'.wire /\ ses.store \subseteq ses'.store
    <3>1. CASE ses.role = "initiator"
      <4> DEFINE s == Wired(w)
      <4>1. Sound(s, LastOf(log)) /\ s.role = "initiator" /\ s.store = ses.store
        BY <3>1, WiredFrame
      <4>2. ses' = Settle(StartRequested(s, req))
        BY <2>1, <3>1
      <4> HIDE DEF s
      <4> QED
        BY <1>1, <2>2, <2>3, <4>1, <4>2, StartRequestedSound
    <3>2. CASE ses.role = "acceptor"
      <4>1. c = LastOf(log) /\ ses' = Settle(StartAcceptor(ses))
        BY <2>1, <3>2
      <4> QED
        BY <1>1, <3>2, <4>1, StartAcceptorSound
    <3> QED
      BY <1>1, <3>1, <3>2 DEF Sessions, Roles
  <2>5. log' \in Seq(Nat) /\ ~(Len(log') > Len(log)) /\ DeliveredInOrder'
    <3>1. CASE req = <<0, 0>>
      <4>1. log' = log
        BY <2>1, <3>1
      <4> QED
        BY <1>1, <4>1 DEF DeliveredInOrder, OpenInv
    <3>2. CASE req # <<0, 0>>
      <4>1. log' = <<>>
        BY <2>1, <3>2
      <4> QED
        BY <1>1, <4>1 DEF DeliveredInOrder
    <3> QED
      BY <3>1, <3>2
  <2>6. last' = "start"
    BY <1>9 DEF Start
  <2>7. Counts(w)
    BY <2>1, FailingType DEF Count, Counts
  <2> HIDE DEF c
  <2> QED
    BY <2>3, <2>4, <2>5, <2>6, <2>7 DEF OpenInv, RecordLag, InSession, StepKeeps, Counts
<1>10. CASE Crash
  <2>1. ses' = Killed(ses) /\ log' = log /\ last' = "crash" /\ used' = used
    BY <1>10 DEF Crash
  <2>2. Sound(ses', LastOf(log)) /\ ~ses'.timer /\ ses'.wire /\ ses'.store = ses.store
    BY <1>1, <2>1, KilledSound
  <2>3. ~(Len(log') > Len(log))
    BY <1>1, <2>1
  <2> QED
    BY <1>1, <2>1, <2>2, <2>3
    DEF OpenInv, RecordLag, InSession, DeliveredInOrder, StepKeeps
<1>11. CASE UNCHANGED vars
  <2>1. ses' = ses /\ log' = log /\ last' = last /\ used' = used
    BY <1>11 DEF vars
  <2>2. OpenInv'
    BY <2>1 DEF OpenInv, DeliveredInOrder, RecordLag, InSession
  <2>3. CASE Next
    BY <1>2, <1>3, <1>4, <1>5, <1>6, <1>7, <1>8, <1>9, <1>10, <2>3 DEF Next
  <2> QED
    BY <2>2, <2>3
<1> QED
  BY <1>2, <1>3, <1>4, <1>5, <1>6, <1>7, <1>8, <1>9, <1>10, <1>11 DEF Next

(* A session that has never run is sound.                                  *)
LEMMA OpenInit == Init => OpenInv
<1> SUFFICES ASSUME Init PROVE OpenInv
  OBVIOUS
<1>1. PICK role \in Roles : ses = Fresh(role, {}, <<0, 0>>)
  BY DEF Init
<1>2. log = <<>> /\ LastOf(log) = -1
  BY DEF Init, LastOf
<1>3. ses \in Sessions
  BY <1>1, FreshType
<1>4. /\ role = "initiator" => ses.per
      /\ role # "initiator" => ~ses.per
      /\ ses.role = role /\ ses.st = "none" /\ ~ses.timer
      /\ ~ses.rtx.on /\ ses.ctrl = <<0, 0>> /\ ses.wire /\ ses.exc = "none" /\ ~ses.held
      /\ ses.got = 0
  BY <1>1 DEF Fresh, NoRtx
<1>5. Sound(ses, -1)
  <2>1. role = "acceptor" => ~ses.per
    BY <1>4
  <2>2. -1 < ses.ctrl[2]
    BY <1>4
  <2>3. Timed(ses)
    BY <1>4, <2>1 DEF Timed
  <2>4. ~IsEstablished(ses.st)
    BY <1>4 DEF IsEstablished, IsLive
  <2> QED
    BY <1>3, <1>4, <2>2, <2>3, <2>4 DEF Sound
<1>6. RecordLag
  BY <1>4 DEF RecordLag, InSession
<1>7. DeliveredInOrder /\ log \in Seq(Nat)
  BY <1>2 DEF DeliveredInOrder
<1>8. used \in [{"msgs", "app", "starts", "fails"} -> Nat]
  BY DEF Init
<1> QED
  BY <1>2, <1>4, <1>5, <1>6, <1>7, <1>8 DEF OpenInv

(* OpenInv holds in every reachable state when the numbers are not         *)
(* configured to be reset.                                                 *)
LEMMA OpenAlways ==
    ASSUME ~ResetSeqNums
    PROVE  Spec => []OpenInv
<1>1. Init => OpenInv
  BY OpenInit
<1>2. OpenInv /\ [Next]_vars => OpenInv'
  BY OpenStep
<1> QED
  BY <1>1, <1>2, PTL DEF Spec

(* Whatever the counterparty sends, the application is handed each         *)
(* original message once and in order, over any number of crashes and      *)
(* reconnections, until a logon or a start sets the numbers                *)
(* (sequence_check, process, recover_seqnums).                             *)
THEOREM DeliveryInOrder ==
    ASSUME ~ResetSeqNums
    PROVE  Spec => []DeliveredInOrder
<1>1. OpenInv => DeliveredInOrder
  BY DEF OpenInv
<1> QED
  BY <1>1, OpenAlways, PTL

(* In a session that has logged on, the control record is never ahead of   *)
(* the number expected, and behind it by the message rejected last and one *)
(* for each operation that could not write at most, whatever was received  *)
(* and however the session got there (update_persist_seqnums,              *)
(* send_process, the catch clause of process).                             *)
THEOREM RecordKeepsUp ==
    ASSUME ~ResetSeqNums
    PROVE  Spec => []RecordLag
<1>1. OpenInv => RecordLag
  BY DEF OpenInv
<1> QED
  BY <1>1, OpenAlways, PTL

(* No message other than a logon, no send and no timer lowers the number   *)
(* expected (handle_sequence_reset, process, ResendDone).                  *)
THEOREM NumberNeverFalls ==
    ASSUME ~ResetSeqNums
    PROVE  Spec => ExpectedNeverFalls
<1>1. OpenInv /\ [Next]_vars =>
        [last' \in {"receive", "resend", "send", "tick", "end"} => ses'.nr >= ses.nr]_vars
  <2> SUFFICES ASSUME OpenInv, [Next]_vars
               PROVE  [last' \in {"receive", "resend", "send", "tick", "end"}
                          => ses'.nr >= ses.nr]_vars
    OBVIOUS
  <2>1. Next => StepKeeps
    BY OpenStep
  <2> QED
    BY <2>1 DEF StepKeeps
<1> QED
  BY <1>1, OpenAlways, PTL DEF Spec, ExpectedNeverFalls

(* An acceptor hands the application nothing unless it has accepted a      *)
(* logon on this connection (enforce, handle_logon).                       *)
THEOREM LogonComesFirst ==
    ASSUME ~ResetSeqNums
    PROVE  Spec => NothingBeforeLogon
<1>1. OpenInv /\ [Next]_vars =>
        [ses.role = "acceptor" /\ Len(log') > Len(log) => ses.timer]_vars
  <2> SUFFICES ASSUME OpenInv, [Next]_vars
               PROVE  [ses.role = "acceptor" /\ Len(log') > Len(log) => ses.timer]_vars
    OBVIOUS
  <2>1. Next => StepKeeps
    BY OpenStep
  <2> QED
    BY <2>1 DEF StepKeeps
<1> QED
  BY <1>1, OpenAlways, PTL DEF Spec, NothingBeforeLogon

(* Only a logon that asks for a reset purges what was sent; no other       *)
(* message, refused logon, start or crash does (create_persister,          *)
(* handle_logon).                                                          *)
THEOREM ResendableStays ==
    ASSUME ~ResetSeqNums
    PROVE  Spec => ResendableKept
<1>1. OpenInv /\ [Next]_vars => [last' # "reset" => ses.store \subseteq ses'.store]_vars
  <2> SUFFICES ASSUME OpenInv, [Next]_vars
               PROVE  [last' # "reset" => ses.store \subseteq ses'.store]_vars
    OBVIOUS
  <2>1. Next => StepKeeps
    BY OpenStep
  <2> QED
    BY <2>1 DEF StepKeeps
<1> QED
  BY <1>1, OpenAlways, PTL DEF Spec, ResendableKept

=============================================================================
