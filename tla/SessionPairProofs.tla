------------------------- MODULE SessionPairProofs -------------------------
(***************************************************************************)
(* Type correctness of a pair of engines, for every value of the bounds    *)
(* and of the configuration flags: the operations of the session keep its  *)
(* type (FixSessionProofs), and so does each action of Next.  Then what is *)
(* on disk and in flight: every record is that of the message sent under   *)
(* its number, every retransmission comes from a record, and the state     *)
(* says when a resend is served.  Then the numbers that are sent: none is  *)
(* used twice, so that a retransmission carries the one message of its     *)
(* number.  Last, the numbers that are expected: they never run ahead of   *)
(* what the peer sends next.                                               *)
(***************************************************************************)
EXTENDS SessionPair, FixSessionProofs, TLAPS

(* Clearing the fields of an operation, or setting what the socket         *)
(* answers, keeps the type.                                                *)
LEMMA TransientType ==
    ASSUME NEW s \in Sessions
    PROVE  /\ Idle(s) \in Sessions
           /\ \A w \in BOOLEAN : [s EXCEPT !.wire = w] \in Sessions
<1>1. <<>> \in Seq(Messages)
  OBVIOUS
<1> QED
  BY <1>1 DEF Idle, Sessions, Exceptions

(* The socket's answer to a write is a Boolean.                            *)
LEMMA WritableType ==
    ASSUME TypeOK, NEW s \in Roles, NEW w \in Writable(s)
    PROVE  w \in BOOLEAN /\ Wired(s, w) \in Sessions /\ Peer(s) \in Roles
<1>1. ses[s] \in Sessions /\ link \in BOOLEAN
  BY DEF TypeOK
<1>2. ses[s].closed \in BOOLEAN
  BY <1>1 DEF Sessions
<1>3. w \in BOOLEAN
  BY <1>1, <1>2 DEF Writable
<1> QED
  BY <1>1, <1>3, TransientType DEF Wired, Peer, Roles

(* An operation that ends as a typed session preserves TypeOK.             *)
LEMMA CommitType ==
    ASSUME TypeOK, NEW s \in Roles, NEW t \in Sessions, NEW rest \in Seq(Messages),
           Commit(s, t, rest)
    PROVE  /\ ses' \in [Roles -> Sessions]
           /\ chan' \in [Roles -> Seq(Messages)]
           /\ link' \in BOOLEAN
           /\ rcvd' \in [Roles -> Seq(Nat)]
<1>1. Idle(t) \in Sessions
  BY TransientType
<1>2. ses' \in [Roles -> Sessions]
  BY <1>1 DEF Commit, TypeOK
<1>3. t.out \in Seq(Messages) /\ t.got \in Nat /\ t.closed \in BOOLEAN
  BY DEF Sessions
<1>4. chan[s] \o t.out \in Seq(Messages)
  BY <1>3 DEF TypeOK
<1>5. <<>> \in Seq(Messages) /\ Peer(s) \in Roles
  BY DEF Peer, Roles
<1>6. chan' \in [Roles -> Seq(Messages)]
  BY <1>4, <1>5 DEF Commit, TypeOK
<1>7. link' \in BOOLEAN
  BY <1>3 DEF Commit, TypeOK
<1>8. Append(rcvd[s], t.got) \in Seq(Nat)
  BY <1>3 DEF TypeOK
<1>9. rcvd' \in [Roles -> Seq(Nat)]
  BY <1>8 DEF Commit, TypeOK
<1> QED
  BY <1>2, <1>6, <1>7, <1>9

(* Using up a bound keeps the counters natural numbers.                    *)
LEMMA UseType ==
    ASSUME TypeOK, NEW c \in Counters, NEW max, Use(c, max)
    PROVE  used' \in [Counters -> Nat]
BY DEF TypeOK, Use

(* Every step of a side preserves the type invariant.                      *)
LEMMA SideType ==
    ASSUME TypeOK, NEW s \in Roles,
           \/ Receive(s) \/ ResendNext(s) \/ ResendEnd(s) \/ ReaderEOF(s)
           \/ AppSend(s) \/ AppSendBatch(s) \/ AppLogout(s) \/ SendWhileCounting(s)
           \/ Tick(s) \/ TickEnd(s) \/ Crash(s) \/ CrashInSend(s)
    PROVE  TypeOK'
<1>1. /\ ses[s] \in Sessions /\ Peer(s) \in Roles
      /\ Unread(s) \in Seq(Messages) /\ <<>> \in Seq(Messages)
      /\ ses[s].ns \in Nat /\ ses[s].ns + 1 \in Nat
  <2>1. ses[s] \in Sessions /\ Peer(s) \in Roles
    BY DEF TypeOK, Peer, Roles
  <2>2. Unread(s) \in Seq(Messages) /\ <<>> \in Seq(Messages)
    BY <2>1 DEF TypeOK, Unread
  <2> QED
    BY <2>1, <2>2, CountType
<1>2. Len(sent[s]) \in Nat /\ Len(sent[s]) + 1 \in Nat /\ Len(sent[s]) + 2 \in Nat
  BY DEF TypeOK
<1>3. /\ Append(sent[s], ses[s].ns) \in Seq(Nat)
      /\ Append(Append(sent[s], ses[s].ns), ses[s].ns + 1) \in Seq(Nat)
  BY <1>1 DEF TypeOK
<1>4. CASE Receive(s)
  <2>1. Head(Unread(s)) \in Messages /\ Tail(Unread(s)) \in Seq(Messages)
    BY <1>1, <1>4 DEF Receive
  <2>2. PICK w \in Writable(s), outcome \in {"ok", "throws"} :
           Commit(s, process(Wired(s, w), Head(Unread(s)), outcome, "ok"), Tail(Unread(s)))
    BY <1>4 DEF Receive
  <2>3. process(Wired(s, w), Head(Unread(s)), outcome, "ok") \in Sessions
    BY <2>1, WritableType, ProcessType, MessagesReceived DEF LogonOutcomes
  <2>4. used' \in [Counters -> Nat]
    BY <1>4, UseType DEF Receive, TypeOK, Counters
  <2> QED
    BY <1>4, <2>1, <2>2, <2>3, <2>4, CommitType DEF Receive, TypeOK
<1>5. CASE ResendNext(s)
  <2>1. PICK w \in Writable(s), record \in ses[s].store :
           Commit(s, ResendStep(Wired(s, w), record), Unread(s))
    BY <1>5 DEF ResendNext
  <2>2. record \in Nat \X Nat
    BY <1>1 DEF Sessions
  <2>3. ResendStep(Wired(s, w), record) \in Sessions
    BY <2>2, WritableType, ResendStepType
  <2> QED
    BY <1>1, <1>5, <2>1, <2>3, CommitType DEF ResendNext, TypeOK
<1>6. CASE ResendEnd(s)
  <2>1. PICK w \in Writable(s) : Commit(s, ResendDone(Wired(s, w)), Unread(s))
    BY <1>6 DEF ResendEnd
  <2>2. ResendDone(Wired(s, w)) \in Sessions
    BY WritableType, ResendDoneType
  <2> QED
    BY <1>1, <1>6, <2>1, <2>2, CommitType DEF ResendEnd, TypeOK
<1>7. CASE ReaderEOF(s)
  <2>1. ReaderEnds(ses[s]) \in Sessions
    BY <1>1, StateType
  <2> QED
    BY <1>1, <1>7, <2>1, CommitType DEF ReaderEOF, TypeOK
<1>8. CASE AppSend(s)
  <2>1. PICK w \in Writable(s) :
           /\ Commit(s, send(Wired(s, w), generate_application(Len(sent[s]) + 1)), Unread(s))
           /\ sent' = [sent EXCEPT ![s] = IF w THEN Append(@, ses[s].ns) ELSE @]
    BY <1>8 DEF AppSend
  <2>2. send(Wired(s, w), generate_application(Len(sent[s]) + 1)) \in Sessions
    BY <1>2, WritableType, SimpleSendType, GenerateType
  <2>3. sent' \in [Roles -> Seq(Nat)]
    BY <1>3, <2>1 DEF TypeOK
  <2> QED
    BY <1>1, <1>8, <2>1, <2>2, <2>3, CommitType DEF AppSend, TypeOK
<1>9. CASE AppSendBatch(s)
  <2> DEFINE v == Len(sent[s]) + 1
  <2>1. PICK w \in Writable(s) :
           /\ Commit(s, send_batch(Wired(s, w), generate_application(v),
                                   generate_application(v + 1)), Unread(s))
           /\ sent' = [sent EXCEPT ![s] = IF w THEN Append(Append(@, ses[s].ns), ses[s].ns + 1)
                                          ELSE Append(@, ses[s].ns)]
    BY <1>9 DEF AppSendBatch
  <2>2. v \in Nat /\ v + 1 \in Nat
    BY <1>2
  <2>3. generate_application(v) \in Messages /\ generate_application(v + 1) \in Messages
    BY <2>2, GenerateType
  <2>4. send_batch(Wired(s, w), generate_application(v), generate_application(v + 1))
           \in Sessions
    BY <2>3, WritableType, SendBatchType
  <2>5. sent' \in [Roles -> Seq(Nat)]
    BY <1>3, <2>1 DEF TypeOK
  <2> QED
    BY <1>1, <1>9, <2>1, <2>4, <2>5, CommitType DEF AppSendBatch, TypeOK
<1>10. CASE AppLogout(s)
  <2>1. PICK w \in Writable(s) : Commit(s, send(Wired(s, w), Msg("Logout")), Unread(s))
    BY <1>10 DEF AppLogout
  <2>2. send(Wired(s, w), Msg("Logout")) \in Sessions
    BY WritableType, SimpleSendType, MsgType DEF MsgTypes
  <2>3. used' \in [Counters -> Nat]
    BY <1>10, UseType DEF AppLogout, Counters
  <2> QED
    BY <1>1, <1>10, <2>1, <2>2, <2>3, CommitType DEF AppLogout, TypeOK
<1>11. CASE Tick(s)
  <2>1. PICK w \in Writable(s), due \in BOOLEAN, idle \in BOOLEAN :
           Commit(s, heartbeat_service(Wired(s, w), due, idle), Unread(s))
    BY <1>11 DEF Tick
  <2>2. heartbeat_service(Wired(s, w), due, idle) \in Sessions
    BY WritableType, HeartbeatServiceType
  <2>3. used' \in [Counters -> Nat]
    BY <1>11, UseType DEF Tick, Counters
  <2> QED
    BY <1>1, <1>11, <2>1, <2>2, <2>3, CommitType DEF Tick, TypeOK
<1>12. CASE TickEnd(s)
  <2>1. TestRequestSent(ses[s]) \in Sessions
    BY <1>1, StateType
  <2> QED
    BY <1>1, <1>12, <2>1, CommitType DEF TickEnd, TypeOK
<1>13. CASE Crash(s)
  <2>1. Killed(ses[s]) \in Sessions
    BY <1>1, KilledType
  <2>2. used' \in [Counters -> Nat]
    BY <1>13, UseType DEF Crash, Counters
  <2> QED
    BY <1>1, <1>13, <2>1, <2>2 DEF Crash, TypeOK
<1>14. CASE CrashInSend(s)
  <2> DEFINE m == Stamp(ses[s], generate_application(Len(sent[s]) + 1), 0)
  <2>1. Killed(ses[s]) \in Sessions
    BY <1>1, KilledType
  <2>2. used' \in [Counters -> Nat]
    BY <1>14, UseType DEF CrashInSend, Counters
  <2>3. m \in Messages
    BY <1>1, <1>2, GenerateType, StampType
  <2> HIDE DEF m
  <2>4. Append(chan[s], m) \in Seq(Messages)
    BY <2>3 DEF TypeOK
  <2>5. chan' = [chan EXCEPT ![s] = Append(@, m), ![Peer(s)] = <<>>]
    BY <1>14 DEF CrashInSend, m
  <2> QED
    BY <1>1, <1>3, <1>14, <2>1, <2>2, <2>4, <2>5 DEF CrashInSend, TypeOK
<1>15. CASE SendWhileCounting(s)
  <2> DEFINE m == Head(Unread(s))
  <2> DEFINE a == generate_application(Len(sent[s]) + 1)
  <2> DEFINE r == process(Wired(s, TRUE), m, "ok", "ok")
  <2> DEFINE t == SendOvertaken(Wired(s, TRUE), m, a)
  <2>1. /\ Commit(s, t, Tail(Unread(s))) /\ sent' = [sent EXCEPT ![s] = Append(@, r.ns)]
        /\ Unread(s) # <<>> /\ UNCHANGED used
    BY <1>15 DEF SendWhileCounting
  <2>2. m \in Messages /\ Tail(Unread(s)) \in Seq(Messages) /\ a \in Messages
    BY <1>1, <1>2, <2>1, GenerateType
  <2>3. Wired(s, TRUE) \in Sessions
    BY <1>1, TransientType DEF Wired
  <2> HIDE DEF m, a
  <2>4. t \in Sessions /\ r \in Sessions
    BY <2>2, <2>3, OvertakenType, ProcessType, MessagesReceived DEF LogonOutcomes
  <2> HIDE DEF t, r
  <2>5. r.ns \in Nat
    BY <2>4, CountType
  <2>6. sent' \in [Roles -> Seq(Nat)]
    BY <2>1, <2>5 DEF TypeOK
  <2> QED
    BY <2>1, <2>2, <2>4, <2>6, CommitType DEF TypeOK
<1> QED
  BY <1>4, <1>5, <1>6, <1>7, <1>8, <1>9, <1>10, <1>11, <1>12, <1>13, <1>14, <1>15

(* Type correctness for every configuration and every bound: whatever the  *)
(* threads, the network and the applications do, the sequence numbers the  *)
(* code computes stay natural numbers and the state is one of the enum's.  *)
THEOREM TypeCorrect == Spec => []TypeOK
<1>1. Init => TypeOK
  <2> SUFFICES ASSUME Init
               PROVE  TypeOK
    OBVIOUS
  <2>1. {} \in SUBSET (Nat \X Nat) /\ <<0, 0>> \in Nat \X Nat /\ <<>> \in Seq(Messages)
        /\ <<>> \in Seq(Nat)
    OBVIOUS
  <2>2. \A s \in Roles : Fresh(s, {}, <<0, 0>>) \in Sessions
    BY <2>1, FreshType
  <2> QED
    BY <2>1, <2>2 DEF Init, TypeOK
<1>2. TypeOK /\ [Next]_vars => TypeOK'
  <2> SUFFICES ASSUME TypeOK, [Next]_vars
               PROVE  TypeOK'
    OBVIOUS
  <2>1. CASE Connect
    <3> DEFINE i == StartInitiator(ses["initiator"])
    <3> DEFINE a == StartAcceptor(ses["acceptor"])
    <3>1. i \in Sessions /\ a \in Sessions
      BY StartType DEF TypeOK, Roles
    <3> HIDE DEF i, a
    <3>2. Idle(i) \in Sessions /\ i.out \in Seq(Messages) /\ <<>> \in Seq(Messages)
      BY <3>1, TransientType DEF Sessions
    <3>3. /\ ses' = [ses EXCEPT !["initiator"] = Idle(i), !["acceptor"] = a]
          /\ chan' = [chan EXCEPT !["initiator"] = i.out, !["acceptor"] = <<>>]
      BY <2>1 DEF Connect, i, a, TypeOK, Roles
    <3>4. ses' \in [Roles -> Sessions] /\ chan' \in [Roles -> Seq(Messages)]
      BY <3>1, <3>2, <3>3 DEF Roles, TypeOK
    <3>5. used' \in [Counters -> Nat]
      BY <2>1, UseType DEF Connect, Counters
    <3> QED
      BY <2>1, <3>4, <3>5 DEF Connect, TypeOK
  <2>2. CASE ConnectEnd
    <3>1. "initiator" \in Roles /\ ses["initiator"] \in Sessions
      BY DEF TypeOK, Roles
    <3>2. [ses["initiator"] EXCEPT !.st = "logon_sent", !.starting = FALSE] \in Sessions
      BY <3>1 DEF Sessions, SessionStates
    <3>3. ses' = [ses EXCEPT !["initiator"] =
                     [ses["initiator"] EXCEPT !.st = "logon_sent", !.starting = FALSE]]
      BY <2>2, <3>1 DEF ConnectEnd, TypeOK
    <3> QED
      BY <2>2, <3>1, <3>2, <3>3 DEF ConnectEnd, TypeOK
  <2>3. CASE LinkFail
    <3>1. used' \in [Counters -> Nat]
      BY <2>3, UseType DEF LinkFail, Counters
    <3>2. <<>> \in Seq(Messages)
      OBVIOUS
    <3> QED
      BY <2>3, <3>1, <3>2 DEF LinkFail, TypeOK
  <2>4. CASE \E s \in Roles :
                \/ Receive(s) \/ ResendNext(s) \/ ResendEnd(s) \/ ReaderEOF(s)
                \/ AppSend(s) \/ AppSendBatch(s) \/ AppLogout(s) \/ SendWhileCounting(s)
                \/ Tick(s) \/ TickEnd(s) \/ Crash(s) \/ CrashInSend(s)
    BY <2>4, SideType
  <2>5. CASE UNCHANGED vars
    BY <2>5 DEF vars, TypeOK
  <2> QED
    BY <2>1, <2>2, <2>3, <2>4, <2>5 DEF Next
<1> QED
  BY <1>1, <1>2, PTL DEF Spec

-----------------------------------------------------------------------------
(* What is on disk and what is resent *)

(* The records that may be on disk when the application has sent q: a      *)
(* number, and the message that was sent under it.  Only a batch leaves    *)
(* records without text, and only always_seqnum_assign files a message     *)
(* that is resent under a new number.                                      *)
Filed(q) ==
    {r \in Nat \X Nat :
        /\ r[1] # 0
        /\ ~Batches => r[2] # 0
        /\ ~AlwaysSeqnumAssign /\ r[2] # 0 => r[2] \in DOMAIN q /\ q[r[2]] = r[1]}

(* A message that is marked as a duplicate comes from one of the records.  *)
Resent(m, R) ==
    m.type = "App" /\ m.dup => <<m.seq, m.val>> \in R /\ m.val # 0 /\ ~AlwaysSeqnumAssign

(* The session has records of R only, writes duplicates of those only, and *)
(* serves a resend while its state says so.                                *)
Honest(t, R) ==
    /\ t \in Sessions
    /\ t.store \subseteq R
    /\ \A i \in DOMAIN t.out : Resent(t.out[i], R)
    /\ ~Batches /\ t.st = "resend_request_received" => t.rtx.on

(* The inductive invariant.                                                *)
RecordsTrue ==
    \A s \in Roles :
        /\ ses[s].out = <<>>
        /\ Honest(ses[s], Filed(sent[s]))
        /\ \A i \in DOMAIN chan[s] : Resent(chan[s][i], Filed(sent[s]))

(* u has no record and no message that t does not have, and does not enter *)
(* st_resend_request_received without a resend.                            *)
Alike(t, u) ==
    /\ u \in Sessions
    /\ u.store \subseteq t.store
    /\ u.out = t.out
    /\ u.st = "resend_request_received" =>
          u.rtx.on \/ (t.st = "resend_request_received" /\ u.rtx = t.rtx)

(* Such a session is honest if t is.                                       *)
LEMMA AlikeHonest ==
    ASSUME NEW R, NEW t, Honest(t, R), NEW u, Alike(t, u)
    PROVE  Honest(u, R)
<1>1. u.store \subseteq R /\ \A i \in DOMAIN u.out : Resent(u.out[i], R)
  BY DEF Honest, Alike
<1>2. ~Batches /\ u.st = "resend_request_received" => u.rtx.on
  BY DEF Honest, Alike
<1> QED
  BY <1>1, <1>2 DEF Honest, Alike

(* State changes, exceptions, stop(), counters and the control record.     *)
LEMMA StateHonest ==
    ASSUME NEW R, NEW t, Honest(t, R)
    PROVE  /\ \A st \in SessionStates : st # "resend_request_received"
                  => Honest(do_state_change(t, st), R)
           /\ \A e \in Exceptions : Honest(Throw(t, e), R)
           /\ Honest(stop(t), R)
           /\ Honest([t EXCEPT !.held = TRUE], R)
           /\ \A v \in Nat : Honest([t EXCEPT !.got = v], R)
           /\ \A w \in BOOLEAN : Honest([t EXCEPT !.wire = w], R)
           /\ Honest([t EXCEPT !.timer = TRUE], R)
           /\ Honest([t EXCEPT !.tr = TRUE], R)
           /\ \A n \in Nat : Honest([t EXCEPT !.ns = n], R) /\ Honest([t EXCEPT !.nr = n], R)
           /\ \A n, p \in Nat : Honest(put_control(t, n, p), R)
           /\ Honest(recover_seqnums(t), R)
<1>1. t \in Sessions
  BY DEF Honest
<1>2. ASSUME NEW st \in SessionStates, st # "resend_request_received"
      PROVE  Honest(do_state_change(t, st), R)
  <2>1. do_state_change(t, st) \in Sessions
    BY <1>1, StateType
  <2>2. Alike(t, do_state_change(t, st))
    BY <1>1, <1>2, <2>1 DEF Alike, do_state_change, Sessions
  <2> QED
    BY <2>2, AlikeHonest
<1>3. ASSUME NEW e \in Exceptions
      PROVE  Honest(Throw(t, e), R)
  <2>1. Throw(t, e) \in Sessions
    BY <1>1, StateType
  <2>2. Alike(t, Throw(t, e))
    BY <1>1, <2>1 DEF Alike, Throw, Sessions
  <2> QED
    BY <2>2, AlikeHonest
<1>4. Honest(stop(t), R)
  <2>1. stop(t) \in Sessions
    BY <1>1, StateType
  <2>2. Alike(t, stop(t))
    BY <1>1, <2>1 DEF Alike, stop, Sessions
  <2> QED
    BY <2>2, AlikeHonest
<1>5. /\ Alike(t, [t EXCEPT !.held = TRUE])
      /\ Alike(t, [t EXCEPT !.timer = TRUE])
      /\ Alike(t, [t EXCEPT !.tr = TRUE])
  BY <1>1 DEF Alike, Sessions
<1>6. ASSUME NEW v \in Nat
      PROVE  /\ Alike(t, [t EXCEPT !.got = v])
             /\ Alike(t, [t EXCEPT !.ns = v])
             /\ Alike(t, [t EXCEPT !.nr = v])
  BY <1>1 DEF Alike, Sessions
<1>7. ASSUME NEW w \in BOOLEAN
      PROVE  Alike(t, [t EXCEPT !.wire = w])
  BY <1>1 DEF Alike, Sessions
<1>8. ASSUME NEW n \in Nat, NEW p \in Nat
      PROVE  Honest(put_control(t, n, p), R)
  <2>1. put_control(t, n, p) \in Sessions
    BY <1>1, PersisterType
  <2>2. Alike(t, put_control(t, n, p))
    BY <1>1, <2>1 DEF Alike, put_control, Sessions
  <2> QED
    BY <2>2, AlikeHonest
<1>9. Honest(recover_seqnums(t), R)
  <2>1. recover_seqnums(t) \in Sessions
    BY <1>1, PersisterType
  <2>2. Alike(t, recover_seqnums(t))
    BY <1>1, <2>1 DEF Alike, recover_seqnums, Sessions
  <2> QED
    BY <2>2, AlikeHonest
<1> QED
  BY <1>2, <1>3, <1>4, <1>5, <1>6, <1>7, <1>8, <1>9, AlikeHonest

(* Persisting a message: if it is filed, its record has to be one of R.    *)
LEMMA RecordHonest ==
    ASSUME NEW R, NEW t, Honest(t, R), NEW m \in Messages, NEW custom \in Nat,
           NEW noinc \in BOOLEAN, NEW text \in Nat,
           m.type = "App" /\ ~IsDup(m) /\ t.ns # 0 => <<t.ns, text>> \in R
    PROVE  Honest(Record(t, m, custom, noinc, text), R)
<1> DEFINE p == IF m.type = "App" THEN put_message(t, t.ns, text) ELSE t
<1> DEFINE c == put_control(p, t.ns + 1, t.nr)
<1>1. t \in Sessions /\ t.ns \in Nat /\ t.ns + 1 \in Nat /\ t.nr \in Nat
  BY CountType DEF Honest
<1>2. ~IsDup(m) => Honest(p, R)
  <2>1. put_message(t, t.ns, text) \in Sessions
    BY <1>1, PersisterType
  <2> DEFINE u == put_message(t, t.ns, text)
  <2>2. /\ u.st = t.st /\ u.out = t.out /\ u.rtx = t.rtx
        /\ u.store \subseteq t.store \/ (t.ns # 0 /\ u.store = t.store \cup {<<t.ns, text>>})
    BY <1>1 DEF put_message, Sessions
  <2> HIDE DEF u
  <2>3. m.type = "App" /\ ~IsDup(m) => u.store \subseteq R
    BY <2>2 DEF Honest
  <2>4. m.type = "App" /\ ~IsDup(m) => Honest(u, R)
    BY <2>1, <2>2, <2>3 DEF Honest, u
  <2> QED
    BY <2>4 DEF u
<1> HIDE DEF p
<1>3. ~IsDup(m) => Honest(c, R)
  BY <1>1, <1>2, StateHonest
<1> HIDE DEF c
<1>4. ~IsDup(m) => Honest([c EXCEPT !.ns = @ + 1], R)
  <2>1. Honest(c, R) => c.ns + 1 \in Nat
    BY CountType DEF Honest
  <2>2. Honest(c, R) => Honest([c EXCEPT !.ns = c.ns + 1], R)
    BY <2>1, StateHonest
  <2> QED
    BY <1>3, <2>2
<1> QED
  BY <1>3, <1>4 DEF Record, c, p

(* Sending a message that is honest itself.                                *)
LEMMA SendHonest ==
    ASSUME NEW R, NEW t, Honest(t, R), NEW m \in Messages, NEW custom \in Nat,
           NEW noinc \in BOOLEAN,
           m.type = "App" => /\ Resent(Stamp(t, m, custom), R)
                             /\ ~IsDup(m) /\ t.ns # 0 => <<t.ns, m.val>> \in R
    PROVE  Honest(send_process(t, m, custom, noinc), R)
<1> DEFINE x == Stamp(t, m, custom)
<1> DEFINE o == [t EXCEPT !.out = Append(@, x)]
<1>1. t \in Sessions /\ m.val \in Nat /\ t.out \in Seq(Messages)
  BY DEF Honest, Sessions, Messages
<1>2. x \in Messages
  BY <1>1, StampType
<1>3. Resent(x, R)
  <2>1. x.type = m.type
    BY DEF Stamp, Messages
  <2> QED
    BY <2>1 DEF Resent
<1> HIDE DEF x
<1>4. o \in Sessions /\ o.store = t.store /\ o.st = t.st /\ o.rtx = t.rtx /\ o.ns = t.ns
        /\ o.out = Append(t.out, x)
  <2>1. Append(t.out, x) \in Seq(Messages)
    BY <1>1, <1>2
  <2> QED
    BY <1>1, <2>1 DEF Sessions
<1>5. \A i \in DOMAIN Append(t.out, x) : Resent(Append(t.out, x)[i], R)
  <2>1. ASSUME NEW i \in DOMAIN Append(t.out, x)
        PROVE  Resent(Append(t.out, x)[i], R)
    <3>1. CASE i \in 1 .. Len(t.out)
      BY <1>1, <1>2, <3>1 DEF Honest
    <3>2. CASE i = Len(t.out) + 1
      BY <1>1, <1>2, <1>3, <3>2
    <3> QED
      BY <1>1, <1>2, <3>1, <3>2
  <2> QED
    BY <2>1
<1> HIDE DEF o
<1>6. Honest(o, R)
  BY <1>4, <1>5 DEF Honest
<1>7. Honest(Record(o, m, custom, noinc, m.val), R)
  BY <1>1, <1>4, <1>6, RecordHonest
<1> QED
  BY <1>7 DEF send_process, o, x

(* The session's own messages are not application messages.                *)
LEMMA AdminHonest ==
    ASSUME NEW R, NEW t, Honest(t, R)
    PROVE  /\ \A type \in MsgTypes \ {"App", "SequenceReset"} :
                  Honest(send(t, Msg(type)), R)
           /\ \A type \in MsgTypes \ {"App", "SequenceReset"} :
                  Honest(send_process(t, Msg(type), 0, TRUE), R)
           /\ \A b \in Nat : Honest(send(t, generate_resend_request(b)), R)
           /\ \A n, c \in Nat : n > 0 =>
                  Honest(send_process(t, generate_sequence_reset(n), c, FALSE), R)
           /\ \A r \in Roles : Honest(send(t, generate_logon(r)), R)
<1>1. ASSUME NEW m \in Messages, m.type # "App"
      PROVE  \A c \in Nat, noinc \in BOOLEAN : Honest(send_process(t, m, c, noinc), R)
  BY <1>1, SendHonest
<1>2. /\ \A type \in MsgTypes \ {"App", "SequenceReset"} :
            Msg(type) \in Messages /\ Msg(type).type # "App"
      /\ \A b \in Nat : /\ generate_resend_request(b) \in Messages
                        /\ generate_resend_request(b).type # "App"
      /\ \A n \in Nat : n > 0 => /\ generate_sequence_reset(n) \in Messages
                                 /\ generate_sequence_reset(n).type # "App"
      /\ \A r \in Roles : /\ generate_logon(r) \in Messages
                          /\ generate_logon(r).type # "App"
  <2>1. \A type \in MsgTypes \ {"App", "SequenceReset"} :
            Msg(type) \in Messages /\ Msg(type).type # "App"
    BY MsgType DEF Msg
  <2>2. /\ \A b \in Nat : generate_resend_request(b).type # "App"
        /\ \A n \in Nat : generate_sequence_reset(n).type # "App"
        /\ \A r \in Roles : generate_logon(r).type # "App"
    BY DEF generate_resend_request, generate_sequence_reset, generate_logon, Msg
  <2> QED
    BY <2>1, <2>2, GenerateType
<1>3. 0 \in Nat /\ TRUE \in BOOLEAN /\ FALSE \in BOOLEAN
  OBVIOUS
<1> QED
  BY <1>1, <1>2, <1>3, Zenon DEF send

(* enforce and the handlers that send no application message.              *)
LEMMA EnforceHonest ==
    ASSUME NEW R, NEW t, Honest(t, R), NEW m \in Received
    PROVE  Honest(enforce(t, m), R)
<1> DEFINE h == [t EXCEPT !.held = TRUE]
<1> DEFINE r == send(h, generate_resend_request(t.nr))
<1>1. t \in Sessions /\ t.nr \in Nat
  BY CountType DEF Honest
<1>2. Honest(h, R) /\ Honest(Throw(t, "logoff"), R)
  BY StateHonest DEF Exceptions
<1> HIDE DEF h
<1>3. Honest(r, R)
  BY <1>1, <1>2, AdminHonest
<1> HIDE DEF r
<1>4. Honest(do_state_change(r, "resend_request_sent"), R)
  BY <1>3, StateHonest DEF SessionStates
<1>5. Honest(sequence_check(t, m), R)
  BY <1>2, <1>4 DEF sequence_check, h, r
<1> QED
  BY <1>2, <1>5 DEF enforce, h

(* The same for the handlers.                                              *)
LEMMA HandlerHonest ==
    ASSUME NEW R, NEW t, Honest(t, R), NEW m \in Received
    PROVE  /\ \A outcome : Honest(handle_application(t, m, outcome), R)
           /\ Honest(handle_heartbeat(t, m), R)
           /\ Honest(handle_test_request(t, m), R)
           /\ m.type = "SequenceReset" => Honest(handle_sequence_reset(t, m), R)
<1> DEFINE e == enforce(t, m)
<1>1. Honest(e, R) /\ m.val \in Nat
  BY EnforceHonest DEF Received
<1> HIDE DEF e
<1>2. \A outcome : Honest(handle_application(t, m, outcome), R)
  <2>1. Honest(Throw(e, "other"), R) /\ Honest([e EXCEPT !.got = m.val], R)
    BY <1>1, StateHonest DEF Exceptions
  <2> QED
    BY <1>1, <2>1 DEF handle_application, e
<1>3. Honest(handle_heartbeat(t, m), R)
  <2>1. Honest(do_state_change(e, "continuous"), R)
    BY <1>1, StateHonest DEF SessionStates
  <2> QED
    BY <1>1, <2>1 DEF handle_heartbeat, e
<1>4. Honest(handle_test_request(t, m), R)
  <2>1. Honest(send(e, Msg("Heartbeat")), R)
    BY <1>1, AdminHonest DEF MsgTypes
  <2> QED
    BY <1>1, <2>1 DEF handle_test_request, e
<1>5. ASSUME m.type = "SequenceReset"
      PROVE  Honest(handle_sequence_reset(t, m), R)
  <2> DEFINE c == IF t.st = "resend_request_sent" THEN do_state_change(t, "continuous") ELSE t
  <2>1. Honest(c, R) /\ Honest(Throw(t, "logoff"), R)
    BY StateHonest DEF SessionStates, Exceptions
  <2>2. m.new - 1 \in Nat
    BY <1>5 DEF Received
  <2> HIDE DEF c
  <2>3. Honest([c EXCEPT !.nr = m.new - 1], R)
    BY <2>1, <2>2, StateHonest
  <2> QED
    BY <2>1, <2>3 DEF handle_sequence_reset, c
<1> QED
  BY <1>2, <1>3, <1>4, <1>5

(* handle_resend_request enters the state together with the resend.        *)
LEMMA ResendRequestHonest ==
    ASSUME NEW R, NEW t, Honest(t, R), NEW m \in Received
    PROVE  Honest(handle_resend_request(t, m), R)
<1> DEFINE e == enforce(t, m)
<1> DEFINE nseq == IF m.begin >= e.ns THEN m.begin + 1 ELSE e.ns
<1> DEFINE x == [on |-> TRUE, begin |-> m.begin, interrupted |-> e.ns,
                 last |-> 0, todo |-> StoredRange(e, m.begin, m.end)]
<1> DEFINE g == send_process(e, generate_sequence_reset(nseq), m.begin, FALSE)
<1>1. Honest(e, R) /\ m.begin \in Nat
  BY EnforceHonest DEF Received
<1>2. e \in Sessions /\ e.ns \in Nat
  BY <1>1, CountType DEF Honest
<1>3. Honest(send(e, Msg("Reject")), R)
  BY <1>1, AdminHonest DEF MsgTypes
<1>4. StoredRange(e, m.begin, m.end) \in SUBSET Nat
  BY <1>2, RangeType
<1>5. CASE m.begin = 0
  BY <1>1, <1>3, <1>5 DEF handle_resend_request
<1>6. CASE m.begin # 0
  <2>1. nseq \in Nat /\ (~e.per => nseq > 0)
    BY <1>1, <1>2, <1>6
  <2>2. x \in RetransmissionContext /\ x.on
    BY <1>1, <1>2, <1>4 DEF RetransmissionContext
  <2> HIDE DEF e, x, nseq
  <2>3. ~e.per => Honest(g, R)
    BY <1>1, <2>1, AdminHonest
  <2> HIDE DEF g
  <2>4. ~e.per => Honest([g EXCEPT !.ns = nseq], R)
    BY <2>1, <2>3, StateHonest
  <2>5. Honest([e EXCEPT !.st = "resend_request_received", !.rtx = x], R)
    <3>1. Alike(e, [e EXCEPT !.st = "resend_request_received", !.rtx = x])
      BY <1>2, <2>2 DEF Alike, Sessions, SessionStates
    <3> QED
      BY <1>1, <3>1, AlikeHonest
  <2> QED
    BY <1>1, <1>3, <2>4, <2>5 DEF handle_resend_request, e, x, nseq, g
<1> QED
  BY <1>5, <1>6

(* handle_logon: the persister an acceptor opens has what was on disk, or  *)
(* nothing.                                                                *)
LEMMA LogonHonest ==
    ASSUME NEW R, NEW t, Honest(t, R), NEW m \in Received, NEW auth \in LogonOutcomes
    PROVE  Honest(handle_logon(t, m, auth), R)
<1>1. ASSUME NEW u, Honest(u, R)
      PROVE  /\ Honest(LogonRefused(u), R)
             /\ Honest([u EXCEPT !.st = "continuous", !.timer = TRUE], R)
             /\ Honest([u EXCEPT !.timer = TRUE], R)
             /\ Honest(do_state_change(u, "continuous"), R)
             /\ Honest([u EXCEPT !.ns = 1, !.nr = 1], R)
  <2>1. Honest(stop(u), R) /\ Honest([u EXCEPT !.timer = TRUE], R)
        /\ Honest(do_state_change(u, "continuous"), R)
    BY <1>1, StateHonest DEF SessionStates
  <2> DEFINE x == stop(u)
  <2>2. Honest(LogonRefused(u), R)
    <3> HIDE DEF x
    <3>1. Honest(do_state_change(x, "session_terminated"), R)
      BY <2>1, StateHonest DEF SessionStates, x
    <3> QED
      BY <3>1 DEF LogonRefused, x
  <2>3. Alike(u, [u EXCEPT !.st = "continuous", !.timer = TRUE])
    BY <1>1 DEF Alike, Honest, Sessions, SessionStates
  <2>4. Alike(u, [u EXCEPT !.ns = 1, !.nr = 1])
    BY <1>1 DEF Alike, Honest, Sessions
  <2> QED
    BY <1>1, <2>1, <2>2, <2>3, <2>4, AlikeHonest
<1> DEFINE k == do_state_change(t, "logon_received")
<1>2. Honest(k, R) /\ Honest(send(t, Msg("Reject")), R)
  BY StateHonest, AdminHonest DEF SessionStates, MsgTypes
<1> HIDE DEF k
<1>3. Honest(LogonInitiator(k, m, auth), R)
  <2> DEFINE e == enforce(k, m)
  <2>1. Honest(e, R)
    BY <1>2, EnforceHonest
  <2> HIDE DEF e
  <2> QED
    BY <1>1, <1>2, <2>1 DEF LogonInitiator, e
<1>4. Honest(LogonAcceptor(k, m, auth), R)
  <2> DEFINE a == AttachPersister(k, m)
  <2> DEFINE r == IF m.reset THEN [a EXCEPT !.ns = 1, !.nr = 1] ELSE recover_seqnums(a)
  <2> DEFINE e == enforce(r, m)
  <2> DEFINE g == send(e, generate_logon(k.role))
  <2> DEFINE l == do_state_change(g, "continuous")
  <2>1. k \in Sessions /\ k.role \in Roles
    BY <1>2 DEF Honest, Sessions
  <2>2. a \in Sessions
    BY <2>1, AttachType
  <2>3. Alike(k, a)
    BY <2>1, <2>2 DEF Alike, AttachPersister, Sessions
  <2>4. Honest(a, R)
    BY <1>2, <2>3, AlikeHonest
  <2> HIDE DEF a
  <2>5. Honest(r, R)
    BY <1>1, <2>4, StateHonest
  <2> HIDE DEF r
  <2>6. Honest(e, R)
    BY <2>5, EnforceHonest
  <2> HIDE DEF e
  <2>7. Honest(g, R)
    BY <2>1, <2>6, AdminHonest
  <2> HIDE DEF g
  <2>8. Honest(l, R)
    BY <1>1, <2>7
  <2>9. LogonAcceptor(k, m, auth) =
           CASE auth = "unknown" -> LogonRefused(k)
             [] auth = "denied"  -> LogonRefused(r)
             [] auth \in {"ok", "closed"} /\ e.exc # "none" -> e
             [] auth = "closed" /\ e.exc = "none" -> LogonRefused(l)
             [] auth = "ok" /\ e.exc = "none" -> [l EXCEPT !.timer = TRUE]
    BY DEF LogonAcceptor, l, g, e, r, a
  <2> HIDE DEF l
  <2>10. /\ Honest(LogonRefused(k), R) /\ Honest(LogonRefused(r), R)
         /\ Honest(LogonRefused(l), R) /\ Honest([l EXCEPT !.timer = TRUE], R)
    BY <1>1, <1>2, <2>5, <2>8
  <2> QED
    BY <2>6, <2>9, <2>10 DEF LogonOutcomes
<1> QED
  BY <1>2, <1>3, <1>4 DEF handle_logon, k

(* The tail of process().                                                  *)
LEMMA FinishHonest ==
    ASSUME NEW R, NEW t, Honest(t, R), NEW m
    PROVE  Honest(Finish(t, m), R)
<1> DEFINE n == [t EXCEPT !.nr = t.nr + 1]
<1> DEFINE p == put_control(n, n.ns, n.nr)
<1>1. Honest(n, R)
  <2>1. t.nr + 1 \in Nat
    BY CountType DEF Honest
  <2> QED
    BY <2>1, StateHonest
<1> HIDE DEF n
<1>2. Honest(p, R)
  BY <1>1, StateHonest, CountType DEF Honest
<1> HIDE DEF p
<1>3. Honest(stop(p), R)
  BY <1>2, StateHonest
<1> QED
  BY <1>2, <1>3 DEF Finish, update_persist_seqnums, n, p

(* Sending changes neither the state nor a resend in progress.             *)
LEMMA SendKeepsState ==
    ASSUME NEW t \in Sessions, NEW m, NEW custom \in Nat, NEW noinc \in BOOLEAN
    PROVE  /\ send_process(t, m, custom, noinc).st = t.st
           /\ send_process(t, m, custom, noinc).rtx = t.rtx
BY DEF send_process, Record, put_message, put_control, Sessions

(* Rejected ends a resend: the state must not be left behind.              *)
LEMMA RejectedHonest ==
    ASSUME NEW R, NEW t, Honest(t, R), Batches \/ t.st # "resend_request_received"
    PROVE  Honest(Rejected(t), R)
<1> DEFINE r == send(t, Msg("Reject"))
<1>1. Honest(r, R)
  BY AdminHonest DEF MsgTypes
<1>2. r.st = t.st
  <2>1. t \in Sessions /\ 0 \in Nat /\ FALSE \in BOOLEAN
    BY DEF Honest
  <2> QED
    BY <2>1, SendKeepsState, Zenon DEF send
<1>3. Rejected(t) \in Sessions
  BY RejectedType DEF Honest
<1> HIDE DEF r
<1>4. r \in Sessions
  BY <1>1 DEF Honest
<1> DEFINE u == Rejected(t)
<1>5. u.store = r.store /\ u.out = r.out /\ u.st = r.st
  BY <1>4 DEF Rejected, r, Sessions
<1> HIDE DEF u
<1>6. Honest(u, R)
  BY <1>1, <1>2, <1>3, <1>5 DEF Honest, u
<1> QED
  BY <1>6 DEF u

(* ForceLogoff leaves the session in a state of its own.                   *)
LEMMA ForceLogoffHonest ==
    ASSUME NEW R, NEW t, Honest(t, R)
    PROVE  Honest(ForceLogoff(t), R)
<1> DEFINE g == send_process(t, Msg("Logout"), 0, TRUE)
<1> DEFINE u == IF t.st = "logon_received" /\ ~SilentDisconnect
                THEN do_state_change(g, "logoff_sent") ELSE t
<1>1. Honest(g, R)
  BY AdminHonest DEF MsgTypes
<1> HIDE DEF g
<1>2. Honest(u, R)
  BY <1>1, StateHonest DEF SessionStates
<1> HIDE DEF u
<1>3. Honest(stop(u), R)
  BY <1>2, StateHonest
<1> DEFINE c == [u EXCEPT !.st = IF u.shut THEN @ ELSE "session_terminated", !.closed = TRUE]
<1>4. Alike(u, c)
  BY <1>2 DEF Alike, Honest, Sessions, SessionStates
<1>5. Honest(c, R)
  BY <1>2, <1>4, AlikeHonest
<1> QED
  BY <1>3, <1>5 DEF ForceLogoff, u, g

(* process(), which the reader calls only while no resend is in progress.  *)
LEMMA ProcessHonest ==
    ASSUME NEW R, NEW t, Honest(t, R), ~t.rtx.on, NEW m \in Received, NEW outcome,
           NEW auth \in LogonOutcomes
    PROVE  Honest(process(t, m, outcome, auth), R)
<1> DEFINE h == Dispatch(t, m, outcome, auth)
<1>1. Honest(handle_logout(t, m), R)
  BY EnforceHonest DEF handle_logout
<1>2. m.type \in MsgTypes
  BY DEF Received
<1>3. Honest(h, R)
  BY <1>1, <1>2, HandlerHonest, ResendRequestHonest, LogonHonest DEF Dispatch, MsgTypes
<1> HIDE DEF h
<1>4. Honest(Rejected(t), R)
  BY RejectedHonest, BoundsAssumption DEF Honest
<1>5. Honest(ForceLogoff(h), R) /\ Honest(Finish(h, m), R)
  BY <1>3, ForceLogoffHonest, FinishHonest
<1>6. process(t, m, outcome, auth) =
         CASE m.type = "Malformed" -> Rejected(t)
           [] m.type # "Malformed" /\ h.exc = "logoff" -> ForceLogoff(h)
           [] m.type # "Malformed" /\ h.exc = "other"  -> h
           [] OTHER -> IF h.rtx.on THEN h ELSE Finish(h, m)
  BY DEF process, h
<1> QED
  BY <1>3, <1>4, <1>5, <1>6

(* retrans_callback resends a record that is on disk, under its number or, *)
(* with always_seqnum_assign, as a new message.                            *)
LEMMA ResendStepHonest ==
    ASSUME NEW q, NEW t, Honest(t, Filed(q)), NEW record \in t.store
    PROVE  Honest(ResendStep(t, record), Filed(q))
<1> DEFINE R == Filed(q)
<1> DEFINE n == record[1]
<1> DEFINE v == record[2]
<1> DEFINE hole == IF t.rtx.last # 0 THEN t.rtx.last + 1 < n ELSE n > t.rtx.begin
<1> DEFINE c == IF t.rtx.last # 0 THEN t.ns ELSE 0
<1> DEFINE g == IF hole THEN send_process(t, generate_sequence_reset(n), c, FALSE) ELSE t
<1> DEFINE m == [generate_application(v) EXCEPT !.seq = n]
<1> DEFINE r == send(g, m)
<1>1. t \in Sessions /\ t.ns \in Nat
  BY CountType DEF Honest
<1>2. record \in R
  BY DEF Honest
<1>3. /\ n \in Nat /\ n # 0 /\ n > 0 /\ v \in Nat /\ <<n, v>> = record
      /\ ~Batches => v # 0
  BY <1>2 DEF Filed
<1>4. Honest(g, R) /\ g.st = t.st /\ g.rtx = t.rtx
  <2>1. c \in Nat /\ FALSE \in BOOLEAN
    BY <1>1
  <2> HIDE DEF R, c
  <2>2. Honest(send_process(t, generate_sequence_reset(n), c, FALSE), R)
    BY <1>3, <2>1, AdminHonest DEF R
  <2>3. /\ send_process(t, generate_sequence_reset(n), c, FALSE).st = t.st
        /\ send_process(t, generate_sequence_reset(n), c, FALSE).rtx = t.rtx
    BY <1>1, <2>1, SendKeepsState, Zenon
  <2> QED
    BY <2>2, <2>3 DEF R
<1> HIDE DEF R, hole, c, g
<1>5. g \in Sessions /\ g.ns \in Nat
  BY <1>4, CountType DEF Honest
<1>6. CASE v = 0
  <2>1. Batches
    BY <1>3, <1>6, BoundsAssumption
  <2>2. Honest(Rejected(g), R)
    BY <1>4, <2>1, RejectedHonest
  <2> QED
    BY <1>6, <2>2 DEF ResendStep, g, c, hole, R
<1>7. CASE v # 0
  <2>1. /\ m \in Messages /\ m.type = "App" /\ m.val = v /\ m.seq = n /\ m.dup = FALSE
    BY <1>3, FlagsAssumption DEF generate_application, Msg, Messages, MsgTypes
  <2> DEFINE x == Stamp(g, m, 0)
  <2>2. /\ x.val = v
        /\ ~AlwaysSeqnumAssign => x.seq = n
        /\ x.dup = ~AlwaysSeqnumAssign
    BY <1>3, <2>1, FlagsAssumption DEF Stamp, Messages
  <2> HIDE DEF m, x, n, v
  <2>3. Resent(x, R)
    BY <1>2, <1>3, <1>7, <2>2, FlagsAssumption DEF Resent
  <2>4. ~IsDup(m) /\ g.ns # 0 => <<g.ns, m.val>> \in R
    <3>1. ~IsDup(m) => AlwaysSeqnumAssign
      BY <1>3, <2>1, FlagsAssumption DEF IsDup
    <3>2. AlwaysSeqnumAssign /\ g.ns # 0 => <<g.ns, v>> \in R
      BY <1>3, <1>5, <1>7 DEF Filed, R
    <3> QED
      BY <2>1, <3>1, <3>2
  <2>5. 0 \in Nat /\ FALSE \in BOOLEAN
    OBVIOUS
  <2>6. Honest(send_process(g, m, 0, FALSE), R)
    BY <1>4, <2>1, <2>3, <2>4, <2>5, SendHonest DEF x
  <2>7. send_process(g, m, 0, FALSE).st = g.st /\ send_process(g, m, 0, FALSE).rtx = g.rtx
    BY <1>5, <2>5, SendKeepsState, Zenon
  <2>8. Honest(r, R) /\ r.st = t.st /\ r.rtx = t.rtx
    BY <1>4, <2>6, <2>7 DEF send
  <2> HIDE DEF r
  <2> DEFINE u == ResendStep(t, record)
  <2>9. u = [r EXCEPT !.rtx.last = n, !.rtx.todo = IF t.wire THEN @ \ {n} ELSE {}]
    BY <1>7 DEF ResendStep, r, m, g, c, hole, n, v
  <2>10. r \in Sessions
    BY <2>8 DEF Honest
  <2>11. u.store = r.store /\ u.out = r.out /\ u.st = r.st /\ u.rtx.on = r.rtx.on
    BY <2>9, <2>10 DEF Sessions, RetransmissionContext
  <2>12. u \in Sessions
    <3>1. record \in Nat \X Nat
      BY <1>2 DEF R, Filed
    <3> QED
      BY <1>1, <3>1, ResendStepType
  <2> HIDE DEF u
  <2>13. Honest(u, R)
    BY <2>8, <2>11, <2>12 DEF Honest
  <2> QED
    BY <2>13 DEF u, R
<1> QED
  BY <1>6, <1>7

(* ResendDone sets the state back.                                         *)
LEMMA ResendDoneHonest ==
    ASSUME NEW R, NEW t, Honest(t, R)
    PROVE  Honest(ResendDone(t), R)
<1> DEFINE x == t.rtx
<1> DEFINE from == IF x.last = 0 THEN x.begin ELSE x.last + 1
<1> DEFINE nseq == IF from >= x.interrupted THEN from + 1 ELSE x.interrupted
<1> DEFINE r == send_process(t, generate_sequence_reset(nseq), from, FALSE)
<1> DEFINE d == [r EXCEPT !.ns = nseq, !.st = "continuous", !.rtx = NoRtx]
<1>1. x.last \in Nat /\ x.begin \in Nat /\ x.interrupted \in Nat
  BY DEF Honest, Sessions, RetransmissionContext
<1> HIDE DEF x
<1>2. from \in Nat
  BY <1>1
<1> HIDE DEF from
<1>3. nseq \in Nat /\ nseq > 0
  BY <1>1, <1>2
<1> HIDE DEF nseq
<1>4. Honest(r, R)
  BY <1>2, <1>3, AdminHonest
<1> HIDE DEF r
<1>5. Alike(r, d)
  <2>1. NoRtx \in RetransmissionContext
    BY DEF NoRtx, RetransmissionContext
  <2> QED
    BY <1>3, <1>4, <2>1 DEF Alike, Honest, Sessions, SessionStates
<1>6. Honest(d, R)
  BY <1>4, <1>5, AlikeHonest
<1> HIDE DEF d
<1>7. Honest(Finish(d, Msg("ResendRequest")), R)
  BY <1>6, FinishHonest
<1> QED
  BY <1>7 DEF ResendDone, d, r, nseq, from, x

(* The timer, the end of the connection, starting and being killed.        *)
LEMMA OtherHonest ==
    ASSUME NEW R, NEW t, Honest(t, R)
    PROVE  /\ \A due, idle \in BOOLEAN : Honest(heartbeat_service(t, due, idle), R)
           /\ Honest(TestRequestSent(t), R)
           /\ Honest(ReaderEnds(t), R)
           /\ Honest(StartInitiator(t), R)
           /\ Honest(StartAcceptor(t), R)
           /\ Honest(Killed(t), R)
           /\ Honest(Idle(t), R)
<1>1. t \in Sessions /\ NoRtx \in RetransmissionContext /\ <<>> \in Seq(Messages)
  BY DEF Honest, NoRtx, RetransmissionContext
<1>2. ASSUME NEW due \in BOOLEAN, NEW idle \in BOOLEAN
      PROVE  Honest(heartbeat_service(t, due, idle), R)
  <2> DEFINE h == IF due THEN send(t, Msg("Heartbeat")) ELSE t
  <2> DEFINE g == send_process(h, Msg("Logout"), 0, TRUE)
  <2> DEFINE l == do_state_change(g, "logoff_sent")
  <2> DEFINE r == send(h, Msg("TestRequest"))
  <2>1. Honest(h, R)
    BY AdminHonest DEF MsgTypes
  <2> HIDE DEF h
  <2>2. Honest(g, R) /\ Honest(r, R)
    BY <2>1, AdminHonest DEF MsgTypes
  <2> HIDE DEF g, r
  <2>3. Honest(l, R) /\ Honest([r EXCEPT !.tr = TRUE], R)
    BY <2>2, StateHonest DEF SessionStates
  <2> HIDE DEF l
  <2>4. Honest(stop(l), R)
    BY <2>3, StateHonest
  <2>5. Alike(l, [l EXCEPT !.shut = TRUE, !.timer = FALSE])
    BY <2>3 DEF Alike, Honest, Sessions
  <2>6. Honest([l EXCEPT !.shut = TRUE, !.timer = FALSE], R)
    BY <2>3, <2>5, AlikeHonest
  <2> QED
    BY <2>1, <2>3, <2>4, <2>6 DEF heartbeat_service, h, g, l, r
<1>3. Honest(TestRequestSent(t), R)
  <2>1. Alike(t, TestRequestSent(t))
    BY <1>1 DEF Alike, TestRequestSent, Sessions, SessionStates
  <2> QED
    BY <2>1, AlikeHonest
<1>4. Honest(ReaderEnds(t), R)
  BY StateHonest DEF ReaderEnds, SessionStates
<1>5. Honest(StartInitiator(t), R)
  <2> DEFINE purge == ResetSeqNums /\ ~Reliable
  <2> DEFINE store == IF purge THEN {} ELSE t.store
  <2> DEFINE ctrl == IF purge THEN <<0, 0>> ELSE t.ctrl
  <2> DEFINE i == [t EXCEPT !.st = "not_logged_in", !.ns = 1, !.nr = 1, !.shut = FALSE,
                            !.closed = FALSE, !.starting = TRUE, !.rtx = NoRtx, !.tr = FALSE,
                            !.timer = FALSE, !.store = store, !.ctrl = ctrl]
  <2> DEFINE r == IF ResetSeqNums THEN i ELSE recover_seqnums(i)
  <2>1. /\ ctrl \in Nat \X Nat /\ store \subseteq t.store
        /\ store \in SUBSET (Nat \X Nat)
    BY <1>1 DEF Sessions
  <2> HIDE DEF store, ctrl
  <2>2. Alike(t, i)
    BY ZenonT(30), <1>1, <2>1 DEF Alike, Sessions, SessionStates
  <2>3. Honest(i, R)
    BY <2>2, AlikeHonest
  <2> HIDE DEF i
  <2>4. Honest(r, R)
    BY <2>3, StateHonest
  <2> HIDE DEF r
  <2>5. Honest(send(r, generate_logon("initiator")), R)
    BY <2>4, AdminHonest DEF Roles
  <2> QED
    BY <2>5 DEF StartInitiator, r, i, store, ctrl
<1>6. Honest(StartAcceptor(t), R)
  <2>1. Alike(t, StartAcceptor(t))
    BY ZenonT(30), <1>1 DEF Alike, StartAcceptor, Sessions, SessionStates
  <2> QED
    BY <2>1, AlikeHonest
<1>7. Honest(Killed(t), R)
  <2>1. Killed(t) \in Sessions
    BY <1>1, KilledType
  <2>2. Killed(t).store \subseteq t.store /\ Killed(t).out = <<>> /\ Killed(t).st = "none"
    BY DEF Killed, Fresh
  <2> QED
    BY <2>1, <2>2 DEF Honest
<1>8. Honest(Idle(t), R)
  <2>1. Idle(t) \in Sessions
    BY <1>1, TransientType
  <2>2. /\ Idle(t).store = t.store /\ Idle(t).out = <<>>
        /\ Idle(t).st = t.st /\ Idle(t).rtx = t.rtx
    BY <1>1 DEF Idle, Sessions
  <2> QED
    BY <2>1, <2>2 DEF Honest
<1> QED
  BY <1>2, <1>3, <1>4, <1>5, <1>6, <1>7, <1>8

(* More records, more honest sessions and messages.                        *)
LEMMA HonestGrows ==
    ASSUME NEW R, NEW S, R \subseteq S
    PROVE  /\ \A m : Resent(m, R) => Resent(m, S)
           /\ \A t : Honest(t, R) => Honest(t, S)
<1>1. \A m : Resent(m, R) => Resent(m, S)
  BY DEF Resent
<1> QED
  BY <1>1 DEF Honest

(* The records of the application's messages remain valid when it sends    *)
(* another one, whose record becomes valid.                                *)
LEMMA FiledGrows ==
    ASSUME NEW q \in Seq(Nat), NEW n \in Nat
    PROVE  /\ Filed(q) \subseteq Filed(Append(q, n))
           /\ n # 0 => <<n, Len(q) + 1>> \in Filed(Append(q, n))
<1>1. \A v \in DOMAIN q : v \in DOMAIN Append(q, n) /\ Append(q, n)[v] = q[v]
  OBVIOUS
<1>2. /\ Len(q) + 1 \in Nat /\ Len(q) + 1 # 0
      /\ Len(q) + 1 \in DOMAIN Append(q, n) /\ Append(q, n)[Len(q) + 1] = n
  OBVIOUS
<1> QED
  BY <1>1, <1>2 DEF Filed

(* An application message is an original.                                  *)
LEMMA Original ==
    ASSUME NEW t \in Sessions, NEW v \in Nat
    PROVE  /\ generate_application(v) \in Messages
           /\ generate_application(v).val = v
           /\ \A R : Resent(Stamp(t, generate_application(v), 0), R)
           /\ Stamp(t, generate_application(v), 0) \in Messages
<1> DEFINE m == generate_application(v)
<1>1. m \in Messages /\ m.val = v /\ m.seq = 0 /\ m.dup = FALSE
  <2>1. m \in Messages
    BY GenerateType
  <2> QED
    BY <2>1 DEF generate_application, Msg
<1> HIDE DEF m
<1>2. Stamp(t, m, 0).dup = FALSE
  BY <1>1 DEF Stamp, Messages
<1>3. Stamp(t, m, 0) \in Messages
  BY <1>1, StampType
<1>4. \A R : Resent(Stamp(t, m, 0), R)
  BY <1>2 DEF Resent
<1> QED
  BY <1>1, <1>3, <1>4 DEF m

(* send() of an application message files its record.                      *)
LEMMA AppSendHonest ==
    ASSUME NEW q \in Seq(Nat), NEW t, Honest(t, Filed(q))
    PROVE  LET u == send(t, generate_application(Len(q) + 1))
           IN  /\ t.wire => Honest(u, Filed(Append(q, t.ns)))
               /\ ~t.wire => Honest(u, Filed(q))
<1> DEFINE v == Len(q) + 1
<1> DEFINE m == generate_application(v)
<1> DEFINE R == Filed(Append(q, t.ns))
<1>1. t \in Sessions /\ t.ns \in Nat /\ v \in Nat
  <2>1. t \in Sessions /\ Len(q) \in Nat
    BY DEF Honest
  <2>2. t.ns \in Nat
    BY <2>1, CountType
  <2> QED
    BY <2>1, <2>2
<1>2. Filed(q) \subseteq R /\ (t.ns # 0 => <<t.ns, v>> \in R)
  BY <1>1, FiledGrows
<1>3. m \in Messages /\ m.val = v /\ Resent(Stamp(t, m, 0), R)
  BY <1>1, Original
<1> HIDE DEF R, v, m
<1>4. Honest(t, R)
  BY <1>2, HonestGrows
<1>5. 0 \in Nat /\ FALSE \in BOOLEAN
  OBVIOUS
<1>6. Honest(send_process(t, m, 0, FALSE), R)
  <2>1. m.type = "App" => /\ Resent(Stamp(t, m, 0), R)
                          /\ ~IsDup(m) /\ t.ns # 0 => <<t.ns, m.val>> \in R
    BY <1>2, <1>3
  <2> QED
    BY <1>3, <1>4, <1>5, <2>1, SendHonest, Zenon
<1>7. ~t.wire => send_process(t, m, 0, FALSE) = t
  BY DEF send_process
<1> QED
  BY <1>6, <1>7 DEF send, R, m, v

(* send_batch files the first message with its text and the second         *)
(* without.                                                                *)
LEMMA BatchHonest ==
    ASSUME NEW q \in Seq(Nat), NEW t, Honest(t, Filed(q)), Batches
    PROVE  LET v == Len(q) + 1
           IN  Honest(send_batch(t, generate_application(v), generate_application(v + 1)),
                      Filed(Append(q, t.ns)))
<1> DEFINE v == Len(q) + 1
<1> DEFINE m1 == generate_application(v)
<1> DEFINE m2 == generate_application(v + 1)
<1> DEFINE R == Filed(Append(q, t.ns))
<1> DEFINE a == Record(t, m1, 0, FALSE, m1.val)
<1> DEFINE o == [a EXCEPT !.out = @ \o <<Stamp(t, m1, 0), Stamp(a, m2, 0)>>]
<1>1. t \in Sessions /\ t.ns \in Nat /\ v \in Nat /\ v + 1 \in Nat
  <2>1. t \in Sessions /\ Len(q) \in Nat
    BY DEF Honest
  <2>2. t.ns \in Nat
    BY <2>1, CountType
  <2> QED
    BY <2>1, <2>2
<1>2. Filed(q) \subseteq R /\ (t.ns # 0 => <<t.ns, v>> \in R)
  BY <1>1, FiledGrows
<1>3. /\ m1 \in Messages /\ m1.val = v /\ m1.val \in Nat
      /\ Resent(Stamp(t, m1, 0), R) /\ Stamp(t, m1, 0) \in Messages
  BY <1>1, Original
<1>4. 0 \in Nat /\ FALSE \in BOOLEAN
  OBVIOUS
<1>5. ASSUME NEW n \in Nat, n # 0
      PROVE  <<n, 0>> \in R
  BY <1>5 DEF Filed
<1> HIDE DEF R
<1>6. Honest(t, R)
  BY <1>2, HonestGrows
<1> HIDE DEF v, m1
<1>7. Honest(a, R)
  <2>1. m1.type = "App" /\ ~IsDup(m1) /\ t.ns # 0 => <<t.ns, m1.val>> \in R
    BY <1>2, <1>3
  <2> QED
    BY <1>3, <1>4, <1>6, <2>1, RecordHonest, Zenon
<1> HIDE DEF a
<1>8. a \in Sessions /\ a.ns \in Nat /\ a.out \in Seq(Messages)
  <2>1. a \in Sessions
    BY <1>7 DEF Honest
  <2> QED
    BY <2>1 DEF Sessions
<1>9. /\ m2 \in Messages /\ Resent(Stamp(a, m2, 0), R) /\ Stamp(a, m2, 0) \in Messages
  BY <1>1, <1>8, Original
<1> HIDE DEF m2
<1> DEFINE x == Stamp(t, m1, 0)
<1> DEFINE y == Stamp(a, m2, 0)
<1>10. x \in Messages /\ y \in Messages /\ Resent(x, R) /\ Resent(y, R)
  BY <1>3, <1>9
<1> HIDE DEF x, y
<1> DEFINE w == a.out \o <<x, y>>
<1>11. w \in Seq(Messages) /\ \A i \in DOMAIN w : Resent(w[i], R)
  <2>1. <<x, y>> \in Seq(Messages)
    BY <1>10
  <2>2. w \in Seq(Messages)
    BY <1>8, <2>1
  <2>3. ASSUME NEW i \in DOMAIN w
        PROVE  Resent(w[i], R)
    <3>1. CASE i \in 1 .. Len(a.out)
      <4>1. w[i] = a.out[i] /\ i \in DOMAIN a.out
        BY <1>8, <2>1, <3>1
      <4> QED
        BY <1>7, <4>1 DEF Honest
    <3>2. CASE i \notin 1 .. Len(a.out)
      <4>1. w[i] = x \/ w[i] = y
        BY <1>8, <1>10, <2>1, <3>2
      <4> QED
        BY <1>10, <4>1
    <3> QED
      BY <3>1, <3>2
  <2> QED
    BY <2>2, <2>3
<1> HIDE DEF w
<1>12. /\ o = [a EXCEPT !.out = w] /\ o \in Sessions
       /\ o.store = a.store /\ o.st = a.st /\ o.rtx = a.rtx /\ o.ns = a.ns /\ o.out = w
  BY <1>8, <1>11 DEF w, x, y, Sessions
<1> HIDE DEF o
<1>13. Honest(o, R)
  BY <1>7, <1>11, <1>12 DEF Honest
<1>14. Honest(Record(o, m2, 0, FALSE, 0), R)
  BY <1>4, <1>5, <1>8, <1>9, <1>12, <1>13, RecordHonest
<1>15. Honest(send_batch(t, m1, m2), R)
  BY <1>7, <1>14 DEF send_batch, o, a
<1> QED
  BY <1>15 DEF m1, m2, v, R

(* What RecordsTrue says of one side, given its session, the messages it   *)
(* has in flight and what its application has sent.                        *)
SideTrue(t, c, q) ==
    /\ t.out = <<>>
    /\ Honest(t, Filed(q))
    /\ \A i \in DOMAIN c : Resent(c[i], Filed(q))

(* What is in flight and what is written after it are honest together.     *)
LEMMA ResentConcat ==
    ASSUME NEW R, NEW a \in Seq(Messages), NEW b \in Seq(Messages),
           \A i \in DOMAIN a : Resent(a[i], R), \A i \in DOMAIN b : Resent(b[i], R)
    PROVE  \A i \in DOMAIN (a \o b) : Resent((a \o b)[i], R)
<1> SUFFICES ASSUME NEW i \in DOMAIN (a \o b)
             PROVE  Resent((a \o b)[i], R)
  OBVIOUS
<1>1. /\ Len(a) \in Nat /\ Len(b) \in Nat
      /\ DOMAIN a = 1 .. Len(a) /\ DOMAIN b = 1 .. Len(b)
      /\ i \in 1 .. (Len(a) + Len(b))
  OBVIOUS
<1>2. CASE i <= Len(a)
  <2>1. i \in DOMAIN a /\ (a \o b)[i] = a[i]
    BY <1>1, <1>2
  <2> QED
    BY <2>1
<1>3. CASE i > Len(a)
  <2>1. i - Len(a) \in DOMAIN b
    BY <1>1, <1>3
  <2>2. (a \o b)[i] = b[i - Len(a)]
    BY <1>1, <1>3
  <2> QED
    BY <2>1, <2>2
<1> QED
  BY <1>1, <1>2, <1>3

(* A side that ends an operation as an honest session keeps RecordsTrue.   *)
LEMMA CommitTrue ==
    ASSUME TypeOK, RecordsTrue, NEW s \in Roles, NEW t, NEW rest, Commit(s, t, rest),
           sent' \in [Roles -> Seq(Nat)], sent'[Peer(s)] = sent[Peer(s)],
           Filed(sent[s]) \subseteq Filed(sent'[s]), Honest(t, Filed(sent'[s])),
           \A i \in DOMAIN rest : Resent(rest[i], Filed(sent[Peer(s)]))
    PROVE  RecordsTrue'
<1> DEFINE p == Peer(s)
<1> DEFINE R == Filed(sent'[s])
<1>1. p \in Roles /\ p # s /\ \A r \in Roles : r = s \/ r = p
  BY DEF Peer, Roles
<1>2. /\ ses'[s] = Idle(t) /\ ses'[p] = ses[p]
      /\ chan'[s] = IF link THEN chan[s] \o t.out ELSE chan[s]
      /\ chan'[p] = IF t.closed THEN <<>> ELSE rest
  BY <1>1 DEF Commit, TypeOK
<1>3. t \in Sessions /\ t.out \in Seq(Messages) /\ chan[s] \in Seq(Messages)
  BY DEF Honest, Sessions, TypeOK
<1>4. /\ \A i \in DOMAIN chan[s] : Resent(chan[s][i], R)
      /\ \A i \in DOMAIN t.out : Resent(t.out[i], R)
  BY HonestGrows DEF RecordsTrue, Honest
<1> HIDE DEF R, p
<1>5. \A i \in DOMAIN (chan[s] \o t.out) : Resent((chan[s] \o t.out)[i], R)
  BY <1>3, <1>4, ResentConcat
<1>6. Idle(t).out = <<>> /\ Honest(Idle(t), R)
  BY <1>3, OtherHonest DEF Idle, Sessions, R
<1>7. SideTrue(ses'[s], chan'[s], sent'[s])
  BY <1>2, <1>4, <1>5, <1>6 DEF SideTrue, R
<1>8. SideTrue(ses'[p], chan'[p], sent'[p])
  BY <1>1, <1>2 DEF SideTrue, RecordsTrue, p
<1> QED
  BY <1>1, <1>7, <1>8 DEF SideTrue, RecordsTrue

(* Every step of a side preserves RecordsTrue.                             *)
LEMMA SideRecords ==
    ASSUME TypeOK, RecordsTrue, NEW s \in Roles,
           \/ Receive(s) \/ ResendNext(s) \/ ResendEnd(s) \/ ReaderEOF(s)
           \/ AppSend(s) \/ AppSendBatch(s) \/ AppLogout(s) \/ SendWhileCounting(s)
           \/ Tick(s) \/ TickEnd(s) \/ Crash(s) \/ CrashInSend(s)
    PROVE  RecordsTrue'
<1> DEFINE p == Peer(s)
<1> DEFINE q == sent[s]
<1>1. p \in Roles /\ p # s /\ \A r \in Roles : r = s \/ r = p
  BY DEF Peer, Roles
<1>2. /\ ses[s] \in Sessions /\ ses[s].ns \in Nat /\ ses[s].ns + 1 \in Nat
      /\ q \in Seq(Nat) /\ Len(q) \in Nat /\ Unread(s) \in Seq(Messages)
  <2>1. ses[s] \in Sessions /\ q \in Seq(Nat) /\ Unread(s) \in Seq(Messages)
    BY <1>1 DEF TypeOK, Unread
  <2>2. ses[s].ns \in Nat /\ ses[s].ns + 1 \in Nat
    BY <2>1, CountType
  <2>3. Len(q) \in Nat
    BY <2>1
  <2> QED
    BY <2>1, <2>2, <2>3
<1>3. /\ Honest(ses[s], Filed(q)) /\ SideTrue(ses[p], chan[p], sent[p])
      /\ \A i \in DOMAIN Unread(s) : Resent(Unread(s)[i], Filed(sent[p]))
      /\ \A i \in DOMAIN chan[s] : Resent(chan[s][i], Filed(q))
  BY <1>1 DEF RecordsTrue, SideTrue, Unread
<1>4. ASSUME NEW w \in Writable(s)
      PROVE  /\ Honest(Wired(s, w), Filed(q)) /\ Wired(s, w).rtx = ses[s].rtx
             /\ Wired(s, w).store = ses[s].store /\ Wired(s, w).ns = ses[s].ns
             /\ Wired(s, w).wire = w /\ w \in BOOLEAN
  <2>1. w \in BOOLEAN
    BY WritableType
  <2>2. Honest(Wired(s, w), Filed(q))
    BY <1>3, <2>1, StateHonest DEF Wired
  <2> QED
    BY <1>2, <2>1, <2>2 DEF Wired, Sessions
<1>5. ASSUME NEW t, UNCHANGED sent, Commit(s, t, Unread(s)), Honest(t, Filed(q))
      PROVE  RecordsTrue'
  <2>1. sent' \in [Roles -> Seq(Nat)] /\ sent'[s] = q /\ sent'[Peer(s)] = sent[Peer(s)]
    BY <1>5 DEF TypeOK
  <2> QED
    BY <1>3, <1>5, <2>1, CommitTrue
<1>6. ASSUME Honest(ses'[s], Filed(sent'[s])), ses'[s].out = <<>>, ses'[p] = ses[p],
             sent'[p] = sent[p], Filed(q) \subseteq Filed(sent'[s]),
             chan'[p] = <<>>,
             \A i \in DOMAIN chan'[s] : Resent(chan'[s][i], Filed(sent'[s]))
      PROVE  RecordsTrue'
  <2>1. SideTrue(ses'[s], chan'[s], sent'[s]) /\ SideTrue(ses'[p], chan'[p], sent'[p])
    BY <1>3, <1>6 DEF SideTrue
  <2> QED
    BY <1>1, <2>1 DEF SideTrue, RecordsTrue
<1>7. Honest(Killed(ses[s]), Filed(q)) /\ Killed(ses[s]).out = <<>>
  BY <1>3, OtherHonest DEF Killed, Fresh
<1>8. CASE Receive(s)
  <2>1. PICK w \in Writable(s), outcome \in {"ok", "throws"} :
           Commit(s, process(Wired(s, w), Head(Unread(s)), outcome, "ok"), Tail(Unread(s)))
    BY <1>8 DEF Receive
  <2>2. Unread(s) # <<>> /\ ~ses[s].rtx.on
    BY <1>8 DEF Receive, Reading
  <2>3. Head(Unread(s)) \in Received
    BY <1>2, <2>2, MessagesReceived
  <2>4. ~Wired(s, w).rtx.on /\ "ok" \in LogonOutcomes
    BY <1>4, <2>2 DEF LogonOutcomes
  <2>5. Honest(process(Wired(s, w), Head(Unread(s)), outcome, "ok"), Filed(q))
    BY <1>4, <2>3, <2>4, ProcessHonest
  <2>6. \A i \in DOMAIN Tail(Unread(s)) : Resent(Tail(Unread(s))[i], Filed(sent[p]))
    <3>1. ASSUME NEW i \in DOMAIN Tail(Unread(s))
          PROVE  i + 1 \in DOMAIN Unread(s) /\ Tail(Unread(s))[i] = Unread(s)[i + 1]
      BY <1>2, <2>2
    <3> QED
      BY <1>3, <3>1
  <2>7. /\ sent' \in [Roles -> Seq(Nat)] /\ sent'[s] = sent[s]
        /\ sent'[Peer(s)] = sent[Peer(s)]
    BY <1>8 DEF Receive, TypeOK
  <2> QED
    BY <2>1, <2>5, <2>6, <2>7, CommitTrue
<1>9. CASE ResendNext(s)
  <2>1. PICK w \in Writable(s), record \in ses[s].store :
           Commit(s, ResendStep(Wired(s, w), record), Unread(s))
    BY <1>9 DEF ResendNext
  <2>2. Honest(ResendStep(Wired(s, w), record), Filed(q))
    BY <1>4, ResendStepHonest
  <2> QED
    BY <1>5, <1>9, <2>1, <2>2 DEF ResendNext
<1>10. CASE ResendEnd(s)
  <2>1. PICK w \in Writable(s) : Commit(s, ResendDone(Wired(s, w)), Unread(s))
    BY <1>10 DEF ResendEnd
  <2>2. Honest(ResendDone(Wired(s, w)), Filed(q))
    BY <1>4, ResendDoneHonest
  <2> QED
    BY <1>5, <1>10, <2>1, <2>2 DEF ResendEnd
<1>11. CASE ReaderEOF(s)
  <2>1. Honest(ReaderEnds(ses[s]), Filed(q))
    BY <1>3, OtherHonest
  <2>2. Commit(s, ReaderEnds(ses[s]), Unread(s))
    BY <1>11 DEF ReaderEOF
  <2> QED
    BY <1>5, <1>11, <2>1, <2>2 DEF ReaderEOF
<1>12. CASE AppSend(s)
  <2>1. PICK w \in Writable(s) :
           /\ Commit(s, send(Wired(s, w), generate_application(Len(q) + 1)), Unread(s))
           /\ sent' = [sent EXCEPT ![s] = IF w THEN Append(@, ses[s].ns) ELSE @]
    BY <1>12 DEF AppSend
  <2>2. /\ sent' \in [Roles -> Seq(Nat)] /\ sent'[Peer(s)] = sent[Peer(s)]
        /\ sent'[s] = IF w THEN Append(q, ses[s].ns) ELSE q
    BY <1>1, <1>2, <2>1 DEF TypeOK
  <2>3. Filed(q) \subseteq Filed(sent'[s])
    BY <1>2, <2>2, FiledGrows
  <2> DEFINE u == send(Wired(s, w), generate_application(Len(q) + 1))
  <2>4. /\ w => Honest(u, Filed(Append(q, ses[s].ns)))
        /\ ~w => Honest(u, Filed(q))
    BY <1>2, <1>4, AppSendHonest
  <2> HIDE DEF u
  <2>5. Honest(u, Filed(sent'[s]))
    BY <1>4, <2>2, <2>4
  <2>6. Commit(s, u, Unread(s))
    BY <2>1 DEF u
  <2> QED
    BY <1>3, <2>2, <2>3, <2>5, <2>6, CommitTrue
<1>13. CASE AppSendBatch(s)
  <2> DEFINE v == Len(q) + 1
  <2>1. PICK w \in Writable(s) :
           /\ Commit(s, send_batch(Wired(s, w), generate_application(v),
                                   generate_application(v + 1)), Unread(s))
           /\ sent' = [sent EXCEPT ![s] = IF w THEN Append(Append(@, ses[s].ns), ses[s].ns + 1)
                                          ELSE Append(@, ses[s].ns)]
    BY <1>13 DEF AppSendBatch
  <2> DEFINE b == Append(q, ses[s].ns)
  <2>2. b \in Seq(Nat) /\ Append(b, ses[s].ns + 1) \in Seq(Nat)
    BY <1>2
  <2>3. /\ sent' \in [Roles -> Seq(Nat)] /\ sent'[Peer(s)] = sent[Peer(s)]
        /\ sent'[s] = IF w THEN Append(b, ses[s].ns + 1) ELSE b
    BY <1>1, <2>1, <2>2 DEF TypeOK
  <2>4. Filed(q) \subseteq Filed(b)
    BY <1>2, FiledGrows
  <2> DEFINE u == send_batch(Wired(s, w), generate_application(v), generate_application(v + 1))
  <2>5. Honest(u, Filed(b))
    BY <1>2, <1>4, <1>13, BatchHonest DEF AppSendBatch
  <2>6. Commit(s, u, Unread(s))
    BY <2>1
  <2> HIDE DEF u, b
  <2>7. Filed(b) \subseteq Filed(Append(b, ses[s].ns + 1))
    BY <1>2, <2>2, FiledGrows
  <2>8. Filed(q) \subseteq Filed(sent'[s]) /\ Honest(u, Filed(sent'[s]))
    BY <2>3, <2>4, <2>5, <2>7, HonestGrows
  <2> QED
    BY <1>3, <2>3, <2>6, <2>8, CommitTrue
<1>14. CASE AppLogout(s)
  <2>1. PICK w \in Writable(s) : Commit(s, send(Wired(s, w), Msg("Logout")), Unread(s))
    BY <1>14 DEF AppLogout
  <2>2. Honest(send(Wired(s, w), Msg("Logout")), Filed(q))
    BY <1>4, AdminHonest DEF MsgTypes
  <2> QED
    BY <1>5, <1>14, <2>1, <2>2 DEF AppLogout
<1>15. CASE Tick(s)
  <2>1. PICK w \in Writable(s), due \in BOOLEAN, idle \in BOOLEAN :
           Commit(s, heartbeat_service(Wired(s, w), due, idle), Unread(s))
    BY <1>15 DEF Tick
  <2>2. Honest(heartbeat_service(Wired(s, w), due, idle), Filed(q))
    BY <1>4, OtherHonest
  <2> QED
    BY <1>5, <1>15, <2>1, <2>2 DEF Tick
<1>16. CASE TickEnd(s)
  <2>1. Honest(TestRequestSent(ses[s]), Filed(q))
    BY <1>3, OtherHonest
  <2> QED
    BY <1>5, <1>16, <2>1 DEF TickEnd
<1>17. CASE Crash(s)
  <2>1. /\ ses'[s] = Killed(ses[s]) /\ ses'[p] = ses[p] /\ sent' = sent
        /\ chan'[p] = <<>> /\ chan'[s] \in {chan[s], <<>>}
    BY <1>1, <1>17 DEF Crash, TypeOK
  <2>2. \A i \in DOMAIN chan'[s] : Resent(chan'[s][i], Filed(q))
    BY <1>3, <2>1
  <2> QED
    BY <1>6, <1>7, <2>1, <2>2
<1>18. CASE CrashInSend(s)
  <2> DEFINE x == Stamp(ses[s], generate_application(Len(q) + 1), 0)
  <2>1. /\ ses'[s] = Killed(ses[s]) /\ ses'[p] = ses[p]
        /\ chan'[p] = <<>> /\ chan'[s] = Append(chan[s], x)
        /\ sent'[s] = Append(q, ses[s].ns) /\ sent'[p] = sent[p]
    BY <1>1, <1>18 DEF CrashInSend, TypeOK
  <2>2. Filed(q) \subseteq Filed(sent'[s])
    BY <1>2, <2>1, FiledGrows
  <2>3. Len(q) + 1 \in Nat
    BY <1>2
  <2>4. x \in Messages /\ Resent(x, Filed(sent'[s]))
    BY <1>2, <2>3, Original
  <2> HIDE DEF x
  <2> DEFINE c == Append(chan[s], x)
  <2>5. ASSUME NEW i \in DOMAIN c
        PROVE  Resent(c[i], Filed(sent'[s]))
    <3>1. chan[s] \in Seq(Messages)
      BY DEF TypeOK
    <3>2. (i \in DOMAIN chan[s] /\ c[i] = chan[s][i]) \/ c[i] = x
      BY <2>4, <3>1
    <3>3. \A m : Resent(m, Filed(q)) => Resent(m, Filed(sent'[s]))
      BY <2>2, HonestGrows
    <3> QED
      BY <1>3, <2>4, <3>2, <3>3
  <2>6. Honest(ses'[s], Filed(sent'[s])) /\ ses'[s].out = <<>>
    BY <1>7, <2>1, <2>2, HonestGrows
  <2> QED
    BY <1>6, <2>1, <2>2, <2>5, <2>6
<1>19. CASE SendWhileCounting(s)
  <2> DEFINE b == Wired(s, TRUE)
  <2> DEFINE m == Head(Unread(s))
  <2> DEFINE a == generate_application(Len(q) + 1)
  <2> DEFINE r == process(b, m, "ok", "ok")
  <2> DEFINE g == send(r, a)
  <2> DEFINE t == SendOvertaken(b, m, a)
  <2>1. /\ Commit(s, t, Tail(Unread(s))) /\ sent' = [sent EXCEPT ![s] = Append(@, r.ns)]
        /\ Unread(s) # <<>> /\ ~ses[s].rtx.on
    BY <1>19 DEF SendWhileCounting, Reading
  <2>2. m \in Received
    BY <1>2, <2>1, MessagesReceived
  <2>3. Honest(b, Filed(q)) /\ ~b.rtx.on /\ "ok" \in LogonOutcomes
    <3>1. TRUE \in BOOLEAN
      OBVIOUS
    <3>2. Honest(b, Filed(q))
      BY <1>3, <3>1, StateHonest DEF Wired
    <3>3. b.rtx = ses[s].rtx
      BY <1>2 DEF Wired, Sessions
    <3> QED
      BY <2>1, <3>2, <3>3 DEF LogonOutcomes
  <2> HIDE DEF b, m
  <2>4. Honest(r, Filed(q))
    BY <2>2, <2>3, ProcessHonest
  <2> HIDE DEF r
  <2>5. r \in Sessions /\ r.ns \in Nat /\ r.nr \in Nat
    <3>1. r \in Sessions
      BY <2>4 DEF Honest
    <3> QED
      BY <3>1, CountType
  <2>6. /\ sent' \in [Roles -> Seq(Nat)] /\ sent'[Peer(s)] = sent[Peer(s)]
        /\ sent'[s] = Append(q, r.ns)
    BY <1>1, <1>2, <2>1, <2>5 DEF TypeOK
  <2>7. Filed(q) \subseteq Filed(sent'[s])
    BY <1>2, <2>5, <2>6, FiledGrows
  <2>8. Honest(g, Filed(sent'[s]))
    <3>1. /\ r.wire => Honest(g, Filed(Append(q, r.ns)))
          /\ ~r.wire => Honest(g, Filed(q))
      BY <1>2, <2>4, AppSendHonest
    <3> HIDE DEF g
    <3>2. ~r.wire => Honest(g, Filed(sent'[s]))
      BY <2>7, <3>1, HonestGrows
    <3> QED
      BY <2>6, <3>1, <3>2
  <2> HIDE DEF g
  <2>9. Honest(t, Filed(sent'[s]))
    <3>1. Honest(put_control(g, r.ns, r.nr), Filed(sent'[s]))
      BY <2>5, <2>8, StateHonest
    <3> QED
      BY <3>1 DEF SendOvertaken, g, r
  <2>10. \A i \in DOMAIN Tail(Unread(s)) : Resent(Tail(Unread(s))[i], Filed(sent[p]))
    <3>1. ASSUME NEW i \in DOMAIN Tail(Unread(s))
          PROVE  i + 1 \in DOMAIN Unread(s) /\ Tail(Unread(s))[i] = Unread(s)[i + 1]
      BY <1>2, <2>1
    <3> QED
      BY <1>3, <3>1
  <2> HIDE DEF t
  <2> QED
    BY <2>1, <2>6, <2>7, <2>9, <2>10, CommitTrue
<1> QED
  BY <1>8, <1>9, <1>10, <1>11, <1>12, <1>13, <1>14, <1>15, <1>16, <1>17, <1>18, <1>19

(* Whatever the threads, the network and the applications do, a record on  *)
(* disk is that of the message sent under its number, a retransmission     *)
(* comes from such a record, and the state says when a resend is served.   *)
THEOREM RecordsStayTrue == Spec => []RecordsTrue
<1>1. Init => RecordsTrue
  <2> SUFFICES ASSUME Init, NEW s \in Roles
               PROVE  /\ ses[s].out = <<>>
                      /\ Honest(ses[s], Filed(sent[s]))
                      /\ \A i \in DOMAIN chan[s] : Resent(chan[s][i], Filed(sent[s]))
    BY DEF RecordsTrue
  <2> DEFINE t == Fresh(s, {}, <<0, 0>>)
  <2>1. {} \in SUBSET (Nat \X Nat) /\ <<0, 0>> \in Nat \X Nat
    OBVIOUS
  <2>2. t \in Sessions
    BY <2>1, FreshType
  <2>3. t.out = <<>> /\ t.store = {} /\ t.st = "none"
    BY DEF Fresh
  <2>4. ses[s] = t /\ chan[s] = <<>>
    BY DEF Init
  <2> HIDE DEF t
  <2> QED
    BY <2>2, <2>3, <2>4 DEF Honest
<1>2. TypeOK /\ RecordsTrue /\ [Next]_vars => RecordsTrue'
  <2> SUFFICES ASSUME TypeOK, RecordsTrue, [Next]_vars
               PROVE  RecordsTrue'
    OBVIOUS
  <2>1. "initiator" \in Roles /\ "acceptor" \in Roles
        /\ \A r \in Roles : r = "initiator" \/ r = "acceptor"
    BY DEF Roles
  <2>2. \A r \in Roles : SideTrue(ses[r], chan[r], sent[r])
    BY DEF RecordsTrue, SideTrue
  <2>3. ASSUME SideTrue(ses'["initiator"], chan'["initiator"], sent'["initiator"]),
               SideTrue(ses'["acceptor"], chan'["acceptor"], sent'["acceptor"])
        PROVE  RecordsTrue'
    BY <2>1, <2>3 DEF SideTrue, RecordsTrue
  <2>4. CASE Connect
    <3> DEFINE i == StartInitiator(ses["initiator"])
    <3> DEFINE a == StartAcceptor(ses["acceptor"])
    <3>1. Honest(i, Filed(sent["initiator"])) /\ Honest(a, Filed(sent["acceptor"]))
      BY <2>1, OtherHonest DEF RecordsTrue
    <3>2. a.out = <<>>
      BY <2>1 DEF StartAcceptor, RecordsTrue, TypeOK, Sessions
    <3>3. /\ ses'["initiator"] = Idle(i) /\ ses'["acceptor"] = a
          /\ chan'["initiator"] = i.out /\ chan'["acceptor"] = <<>> /\ sent' = sent
      BY <2>1, <2>4 DEF Connect, TypeOK
    <3> HIDE DEF i, a
    <3>4. i \in Sessions /\ \A j \in DOMAIN i.out : Resent(i.out[j], Filed(sent["initiator"]))
      BY <3>1 DEF Honest
    <3>5. Idle(i).out = <<>> /\ Honest(Idle(i), Filed(sent["initiator"]))
      BY <3>1, <3>4, OtherHonest DEF Idle, Sessions
    <3> QED
      BY <2>3, <3>1, <3>2, <3>3, <3>4, <3>5 DEF SideTrue
  <2>5. CASE ConnectEnd
    <3> DEFINE t == ses["initiator"]
    <3> DEFINE u == [t EXCEPT !.st = "logon_sent", !.starting = FALSE]
    <3>1. t \in Sessions /\ Honest(t, Filed(sent["initiator"])) /\ t.out = <<>>
      BY <2>1 DEF RecordsTrue, TypeOK
    <3>2. /\ ses'["initiator"] = u /\ ses'["acceptor"] = ses["acceptor"]
          /\ chan' = chan /\ sent' = sent
      BY <2>1, <2>5 DEF ConnectEnd, TypeOK
    <3> HIDE DEF t
    <3>3. Alike(t, u) /\ u.out = <<>>
      BY <3>1 DEF Alike, Sessions, SessionStates
    <3>4. Honest(u, Filed(sent["initiator"]))
      BY <3>1, <3>3, AlikeHonest
    <3> QED
      BY <2>1, <2>2, <2>3, <3>2, <3>3, <3>4 DEF SideTrue
  <2>6. CASE LinkFail
    BY <2>1, <2>2, <2>3, <2>6 DEF LinkFail, SideTrue
  <2>7. CASE \E s \in Roles :
                \/ Receive(s) \/ ResendNext(s) \/ ResendEnd(s) \/ ReaderEOF(s)
                \/ AppSend(s) \/ AppSendBatch(s) \/ AppLogout(s) \/ SendWhileCounting(s)
                \/ Tick(s) \/ TickEnd(s) \/ Crash(s) \/ CrashInSend(s)
    BY <2>7, SideRecords
  <2>8. CASE UNCHANGED vars
    BY <2>8 DEF vars, RecordsTrue
  <2> QED
    BY <2>4, <2>5, <2>6, <2>7, <2>8 DEF Next
<1> QED
  BY <1>1, <1>2, TypeCorrect, PTL DEF Spec

(* A session is in st_resend_request_received only while it serves a       *)
(* resend, for every bound, every race and every flag, if no application   *)
(* sends batches: a record that a batch left without its text does not     *)
(* decode, and the exception ends the resend with the state unchanged.     *)
THEOREM ResendStateIsServed ==
    ASSUME ~Batches
    PROVE  Spec => []ResendStateServed
<1>1. RecordsTrue => ResendStateServed
  BY DEF RecordsTrue, Honest, ResendStateServed
<1> QED
  BY <1>1, RecordsStayTrue, PTL

-----------------------------------------------------------------------------
(* A sequence number is never used twice for application messages, for     *)
(* every value of the bounds and across crashes, provided that nobody      *)
(* sends while a resend is being served, that no process dies between the  *)
(* write to the socket and the write to the persister, and that the        *)
(* numbers are not reset.  NumbersAhead is the inductive invariant.  One   *)
(* lemma per operation of the session shows that it keeps the session      *)
(* ahead of a number b; the sending operations take that number beyond b.  *)

(* A started session of role r that is ahead of b.                         *)
Running(t, b, r) == t \in Sessions /\ t.role = r /\ t.st # "none" /\ Ahead(t, b)

(* Changes of state, exceptions, stop() and the fields used only inside an *)
(* action leave the numbers alone; a state past the logon needs the        *)
(* persister.                                                              *)
LEMMA StateAhead ==
    ASSUME NEW b \in Int, NEW r, NEW t, Running(t, b, r)
    PROVE  /\ \A st \in SessionStates : st # "none" /\ (IsEstablished(st) => t.per)
                  => Running(do_state_change(t, st), b, r)
           /\ \A e \in Exceptions : Running(Throw(t, e), b, r)
           /\ Running(stop(t), b, r)
           /\ Running([t EXCEPT !.held = TRUE], b, r)
           /\ \A v \in Nat : Running([t EXCEPT !.got = v], b, r)
           /\ \A o \in Seq(Messages) : Running([t EXCEPT !.out = o], b, r)
           /\ \A w \in BOOLEAN : Running([t EXCEPT !.wire = w], b, r)
           /\ Running(Idle(t), b, r)
           /\ Running([t EXCEPT !.rtx = NoRtx], b, r)
           /\ t.per => Running([t EXCEPT !.timer = TRUE], b, r)
           /\ t.per => Running([t EXCEPT !.tr = TRUE], b, r)
<1>1. t \in Sessions
  BY DEF Running
<1>2. ASSUME NEW st \in SessionStates, st # "none", IsEstablished(st) => t.per
      PROVE  Running(do_state_change(t, st), b, r)
  <2>1. do_state_change(t, st) \in Sessions
    BY <1>1, StateType
  <2> QED
    BY <1>1, <1>2, <2>1 DEF Running, Ahead, do_state_change, Sessions
<1>3. ASSUME NEW e \in Exceptions
      PROVE  Running(Throw(t, e), b, r)
  <2>1. Throw(t, e) \in Sessions
    BY <1>1, StateType
  <2> QED
    BY <1>1, <2>1 DEF Running, Ahead, Throw, Sessions
<1>4. Running(stop(t), b, r)
  <2>1. stop(t) \in Sessions
    BY <1>1, StateType
  <2> QED
    BY <1>1, <2>1 DEF Running, Ahead, stop, Sessions
<1>5. /\ Running([t EXCEPT !.held = TRUE], b, r)
      /\ \A v \in Nat : Running([t EXCEPT !.got = v], b, r)
      /\ \A o \in Seq(Messages) : Running([t EXCEPT !.out = o], b, r)
      /\ \A w \in BOOLEAN : Running([t EXCEPT !.wire = w], b, r)
  BY ZenonT(30), <1>1 DEF Running, Ahead, Sessions
<1>6. Running(Idle(t), b, r)
  <2>1. Idle(t) \in Sessions
    BY <1>1, TransientType
  <2> QED
    BY <1>1, <2>1 DEF Running, Ahead, Idle, Sessions
<1>7. Running([t EXCEPT !.rtx = NoRtx], b, r)
  <2>1. NoRtx \in RetransmissionContext /\ ~NoRtx.on
    BY DEF NoRtx, RetransmissionContext
  <2>2. [t EXCEPT !.rtx = NoRtx] \in Sessions
    BY <1>1, <2>1 DEF Sessions
  <2> QED
    BY <1>1, <2>1, <2>2 DEF Running, Ahead, Sessions
<1>8. t.per => /\ Running([t EXCEPT !.timer = TRUE], b, r)
               /\ Running([t EXCEPT !.tr = TRUE], b, r)
  BY <1>1 DEF Running, Ahead, Sessions
<1> QED
  BY <1>2, <1>3, <1>4, <1>5, <1>6, <1>7, <1>8

(* The persister's operations: the control record may be written with any  *)
(* send number beyond b, and recovery takes a number that is beyond b.     *)
LEMMA PersisterAhead ==
    ASSUME NEW b \in Int, NEW r, NEW t, Running(t, b, r)
    PROVE  /\ \A q, v \in Nat : Running(put_message(t, q, v), b, r)
           /\ \A n, m \in Nat : (t.per => b < n) => Running(put_control(t, n, m), b, r)
           /\ Running(update_persist_seqnums(t), b, r)
           /\ \A n \in Nat : b < n => Running([t EXCEPT !.ns = n], b, r)
           /\ \A n \in Nat : Running([t EXCEPT !.nr = n], b, r)
           /\ Running(recover_seqnums(t), b, r)
<1>1. t \in Sessions
  BY DEF Running
<1>2. ASSUME NEW q \in Nat, NEW v \in Nat
      PROVE  Running(put_message(t, q, v), b, r)
  <2>1. put_message(t, q, v) \in Sessions
    BY <1>1, PersisterType
  <2> QED
    BY <1>1, <2>1 DEF Running, Ahead, put_message, Sessions
<1>3. ASSUME NEW n \in Nat, NEW m \in Nat, t.per => b < n
      PROVE  Running(put_control(t, n, m), b, r)
  <2>1. put_control(t, n, m) \in Sessions
    BY <1>1, PersisterType
  <2> QED
    BY <1>1, <1>3, <2>1 DEF Running, Ahead, put_control, Sessions
<1>4. Running(update_persist_seqnums(t), b, r)
  BY <1>1, <1>3, CountType DEF update_persist_seqnums, Running, Ahead
<1>5. ASSUME NEW n \in Nat
      PROVE  /\ b < n => Running([t EXCEPT !.ns = n], b, r)
             /\ Running([t EXCEPT !.nr = n], b, r)
  BY <1>1 DEF Running, Ahead, Sessions
<1>6. Running(recover_seqnums(t), b, r)
  <2>1. recover_seqnums(t) \in Sessions
    BY <1>1, PersisterType
  <2> QED
    BY <1>1, <2>1 DEF Running, Ahead, recover_seqnums, Sessions
<1> QED
  BY <1>2, <1>3, <1>4, <1>5, <1>6

(* u differs from s only in the numbers, the persister's records and the   *)
(* fields used inside an action.                                           *)
SameLife(s, u) ==
    /\ u.role = s.role /\ u.st = s.st /\ u.per = s.per /\ u.timer = s.timer
    /\ u.tr = s.tr /\ u.starting = s.starting /\ u.rtx = s.rtx /\ u.exc = s.exc
    /\ u.wire = s.wire

(* What the persister's operations and the counter leave alone.            *)
LEMMA PutMessageKeeps ==
    ASSUME NEW s \in Sessions, NEW q, NEW v
    PROVE  /\ SameLife(s, put_message(s, q, v))
           /\ put_message(s, q, v).ns = s.ns
           /\ put_message(s, q, v).out = s.out
BY DEF SameLife, put_message, Sessions

(* Writing the control record leaves the rest of the session alone.        *)
LEMMA PutControlKeeps ==
    ASSUME NEW s \in Sessions, NEW n, NEW m
    PROVE  /\ SameLife(s, put_control(s, n, m))
           /\ put_control(s, n, m).ns = s.ns
           /\ put_control(s, n, m).out = s.out
           /\ s.per => put_control(s, n, m).ctrl[1] = n
BY DEF SameLife, put_control, Sessions

(* Counting a sent message changes the send number only.                   *)
LEMMA CountKeeps ==
    ASSUME NEW s \in Sessions
    PROVE  /\ SameLife(s, [s EXCEPT !.ns = @ + 1])
           /\ [s EXCEPT !.ns = @ + 1].ns = s.ns + 1
           /\ [s EXCEPT !.ns = @ + 1].ctrl = s.ctrl
           /\ [s EXCEPT !.ns = @ + 1].out = s.out
BY DEF SameLife, Sessions

(* A message sent with a fresh number takes a session that is ahead of b   *)
(* to one that is ahead of any c below the new number.                     *)
LEMMA RunningFrom ==
    ASSUME NEW b \in Int, NEW c \in Int, NEW r, NEW t, Running(t, b, r), NEW u \in Sessions,
           SameLife(t, u), c < u.ctrl[1], u.per => c < u.ns, b = c \/ ~t.rtx.on
    PROVE  Running(u, c, r)
BY DEF Running, Ahead, SameLife

(* Sending keeps the session ahead of b: the control record written with   *)
(* the message is one beyond the number in memory.                         *)
LEMMA RecordAhead ==
    ASSUME NEW b \in Int, NEW r, NEW t, Running(t, b, r), NEW m, NEW custom, NEW noinc,
           NEW text \in Nat
    PROVE  /\ Running(Record(t, m, custom, noinc, text), b, r)
           /\ SameLife(t, Record(t, m, custom, noinc, text))
<1> DEFINE p == IF m.type = "App" THEN put_message(t, t.ns, text) ELSE t
<1> DEFINE c == put_control(p, t.ns + 1, t.nr)
<1> DEFINE n == [c EXCEPT !.ns = @ + 1]
<1>1. t \in Sessions /\ t.ns \in Nat /\ t.ns + 1 \in Nat /\ t.nr \in Nat
  BY CountType DEF Running
<1>2. p \in Sessions /\ SameLife(t, p) /\ p.ns = t.ns /\ Running(p, b, r)
  <2>1. SameLife(t, t)
    BY DEF SameLife
  <2>2. LET u == put_message(t, t.ns, text)
        IN  u \in Sessions /\ SameLife(t, u) /\ u.ns = t.ns /\ Running(u, b, r)
    BY <1>1, PersisterType, PutMessageKeeps, PersisterAhead
  <2> QED
    BY <1>1, <2>1, <2>2
<1> HIDE DEF p
<1>3. p.per => b < t.ns + 1
  BY <1>1, <1>2 DEF Running, Ahead
<1>4. c \in Sessions /\ SameLife(p, c) /\ c.ns = t.ns /\ Running(c, b, r)
  <2>1. SameLife(p, c) /\ c.ns = t.ns
    BY <1>2, PutControlKeeps
  <2>2. Running(c, b, r)
    BY <1>1, <1>2, <1>3, PersisterAhead
  <2> QED
    BY <2>1, <2>2 DEF Running
<1> HIDE DEF c
<1>5. n \in Sessions /\ SameLife(c, n) /\ n.ns = t.ns + 1 /\ n.ctrl = c.ctrl
  BY <1>4, CountType, CountKeeps
<1> HIDE DEF n
<1>6. Running(n, b, r)
  <2>1. n.per => b < n.ns
    BY <1>1, <1>2, <1>3, <1>4, <1>5 DEF SameLife
  <2>2. b < n.ctrl[1]
    BY <1>4, <1>5 DEF Running, Ahead
  <2> QED
    BY <1>4, <1>5, <2>1, <2>2, RunningFrom
<1>7. SameLife(t, t) /\ SameLife(t, c) /\ SameLife(t, n)
  BY <1>2, <1>4, <1>5 DEF SameLife
<1> QED
  BY <1>4, <1>6, <1>7 DEF Record, n, c, p

(* An application message takes the session beyond the number it was sent  *)
(* under, unless a resend is in progress.                                  *)
LEMMA RecordBeyond ==
    ASSUME NEW b \in Int, NEW r, NEW t, Running(t, b, r), t.per, ~t.rtx.on,
           NEW m \in Messages, m.type = "App", m.seq = 0, ~m.dup, NEW text \in Nat
    PROVE  \E n \in Nat : /\ n = t.ns + 1
                         /\ Running(Record(t, m, 0, FALSE, text), t.ns, r)
                         /\ Record(t, m, 0, FALSE, text).ns = n
<1> DEFINE p == put_message(t, t.ns, text)
<1> DEFINE c == put_control(p, t.ns + 1, t.nr)
<1> DEFINE n == [c EXCEPT !.ns = @ + 1]
<1>1. t \in Sessions /\ t.ns \in Nat /\ t.ns + 1 \in Nat /\ t.nr \in Nat
  BY CountType DEF Running
<1>2. p \in Sessions /\ SameLife(t, p) /\ p.ns = t.ns /\ p.out = t.out
  BY <1>1, PersisterType, PutMessageKeeps
<1> HIDE DEF p
<1>3. /\ c \in Sessions /\ SameLife(p, c) /\ c.ns = t.ns /\ c.out = t.out
      /\ c.ctrl[1] = t.ns + 1
  <2>1. c \in Sessions
    BY <1>1, <1>2, PersisterType
  <2>2. p.per
    BY <1>2 DEF SameLife
  <2> QED
    BY <1>2, <2>1, <2>2, PutControlKeeps
<1> HIDE DEF c
<1>4. /\ n \in Sessions /\ SameLife(c, n) /\ n.ns = t.ns + 1 /\ n.out = t.out
      /\ n.ctrl[1] = t.ns + 1
  BY <1>3, CountType, CountKeeps
<1> HIDE DEF n
<1>5. SameLife(t, n)
  BY <1>2, <1>3, <1>4 DEF SameLife
<1>6. t.ns < n.ns /\ t.ns < n.ctrl[1] /\ t.ns \in Int
  BY <1>1, <1>4
<1>7. Running(n, t.ns, r)
  BY <1>4, <1>5, <1>6, RunningFrom
<1>8. Record(t, m, 0, FALSE, text) = n
  BY <1>1 DEF Record, IsDup, Messages, n, c, p
<1> QED
  BY <1>1, <1>4, <1>7, <1>8

(* send_process and send keep the session ahead of b, and change nothing   *)
(* but its numbers, its records and what it has written.                   *)
LEMMA SendAhead ==
    ASSUME NEW b \in Int, NEW r, NEW t, Running(t, b, r), NEW m \in Messages
    PROVE  /\ \A custom \in Nat, noinc \in BOOLEAN :
                  /\ Running(send_process(t, m, custom, noinc), b, r)
                  /\ SameLife(t, send_process(t, m, custom, noinc))
           /\ Running(send(t, m), b, r)
           /\ SameLife(t, send(t, m))
<1>1. ASSUME NEW custom \in Nat, NEW noinc \in BOOLEAN
      PROVE  /\ Running(send_process(t, m, custom, noinc), b, r)
             /\ SameLife(t, send_process(t, m, custom, noinc))
  <2> DEFINE o == [t EXCEPT !.out = Append(@, Stamp(t, m, custom))]
  <2>1. t \in Sessions
    BY DEF Running
  <2>2. Append(t.out, Stamp(t, m, custom)) \in Seq(Messages)
    BY <2>1, StampType DEF Sessions
  <2>3. Running(o, b, r)
    BY <2>2, StateAhead
  <2>4. SameLife(t, o) /\ SameLife(t, t)
    BY <2>1 DEF SameLife, Sessions
  <2>5. m.val \in Nat
    BY DEF Messages
  <2> HIDE DEF o
  <2>6. /\ Running(Record(o, m, custom, noinc, m.val), b, r)
        /\ SameLife(o, Record(o, m, custom, noinc, m.val))
    BY <2>3, <2>5, RecordAhead
  <2>7. SameLife(t, Record(o, m, custom, noinc, m.val))
    BY <2>4, <2>6 DEF SameLife
  <2> QED
    BY <2>4, <2>6, <2>7 DEF send_process, o
<1>2. /\ Running(send_process(t, m, 0, FALSE), b, r)
      /\ SameLife(t, send_process(t, m, 0, FALSE))
  BY <1>1
<1> QED
  BY <1>1, <1>2 DEF send

(* enforce may send a resend request and change the state to               *)
(* st_resend_request_sent, which only a session with a persister does.     *)
LEMMA EnforceAhead ==
    ASSUME NEW b \in Int, NEW r, NEW t, Running(t, b, r), NEW m \in Messages
    PROVE  Running(enforce(t, m), b, r) /\ (t.per => enforce(t, m).per)
<1> DEFINE h == [t EXCEPT !.held = TRUE]
<1> DEFINE q == generate_resend_request(t.nr)
<1> DEFINE u == send(h, q)
<1>1. t \in Sessions
  BY DEF Running
<1>2. q \in Messages
  BY <1>1, GenerateType, CountType
<1>3. Running(h, b, r) /\ h.per = t.per /\ h.st = t.st
  BY <1>1, StateAhead DEF Sessions
<1> HIDE DEF h, q
<1>4. Running(u, b, r) /\ SameLife(h, u)
  BY <1>2, <1>3, SendAhead
<1> HIDE DEF u
<1>5. ASSUME t.st = "continuous"
      PROVE  /\ Running(do_state_change(u, "resend_request_sent"), b, r)
             /\ do_state_change(u, "resend_request_sent").per
  <2>1. u.per
    BY <1>3, <1>4, <1>5 DEF Running, Ahead, IsEstablished, IsLive, SameLife
  <2>2. Running(do_state_change(u, "resend_request_sent"), b, r)
    BY <1>4, <2>1, StateAhead DEF SessionStates
  <2> QED
    BY <2>1, <2>2 DEF do_state_change
<1>6. Running(Throw(t, "logoff"), b, r) /\ Throw(t, "logoff").per = t.per
  BY <1>1, StateAhead DEF Exceptions, Throw, Sessions
<1>7. Running(sequence_check(t, m), b, r) /\ (t.per => sequence_check(t, m).per)
  BY <1>3, <1>5, <1>6 DEF sequence_check, u, h, q
<1> QED
  BY <1>3, <1>7 DEF enforce, h

(* The handlers of application and session messages.                       *)
LEMMA HandlerAhead ==
    ASSUME NEW b \in Int, NEW r, NEW t, Running(t, b, r), NEW m \in Messages
    PROVE  /\ \A outcome : Running(handle_application(t, m, outcome), b, r)
           /\ Running(handle_heartbeat(t, m), b, r)
           /\ Running(handle_test_request(t, m), b, r)
           /\ m.type = "SequenceReset" => Running(handle_sequence_reset(t, m), b, r)
<1> DEFINE e == enforce(t, m)
<1>1. Running(e, b, r)
  BY EnforceAhead
<1> HIDE DEF e
<1>2. ASSUME NEW outcome
      PROVE  Running(handle_application(t, m, outcome), b, r)
  <2>1. Running([e EXCEPT !.got = m.val], b, r)
    BY <1>1, StateAhead DEF Messages
  <2>2. Running(Throw(e, "other"), b, r)
    BY <1>1, StateAhead DEF Exceptions
  <2> QED
    BY <1>1, <2>1, <2>2 DEF handle_application, e
<1>3. Running(handle_heartbeat(t, m), b, r)
  <2>1. ASSUME e.st = "test_request_sent"
        PROVE  Running(do_state_change(e, "continuous"), b, r)
    <3>1. e.per
      BY <1>1, <2>1 DEF Running, Ahead, IsEstablished, IsLive
    <3> QED
      BY <1>1, <3>1, StateAhead DEF SessionStates
  <2> QED
    BY <1>1, <2>1 DEF handle_heartbeat, e
<1>4. Running(handle_test_request(t, m), b, r)
  BY <1>1, SendAhead, MsgType DEF handle_test_request, e, MsgTypes
<1>5. ASSUME m.type = "SequenceReset"
      PROVE  Running(handle_sequence_reset(t, m), b, r)
  <2> DEFINE c == IF t.st = "resend_request_sent" THEN do_state_change(t, "continuous") ELSE t
  <2>1. Running(c, b, r)
    <3>1. t.st = "resend_request_sent" => t.per
      BY DEF Running, Ahead, IsEstablished, IsLive
    <3> QED
      BY <3>1, StateAhead DEF SessionStates
  <2>2. Running(Throw(t, "logoff"), b, r)
    BY StateAhead DEF Exceptions
  <2>3. m.new - 1 \in Nat
    BY <1>5 DEF Messages
  <2> HIDE DEF c
  <2>4. Running([c EXCEPT !.nr = m.new - 1], b, r)
    BY <2>1, <2>3, PersisterAhead
  <2> QED
    BY <2>2, <2>4 DEF handle_sequence_reset, c
<1> QED
  BY <1>2, <1>3, <1>4, <1>5

(* A resend request starts a range query that will go back to a number     *)
(* beyond b, or is answered at once without a persister.                   *)
LEMMA ResendRequestAhead ==
    ASSUME NEW b \in Int, NEW r, NEW t, Running(t, b, r), NEW m \in Messages
    PROVE  Running(handle_resend_request(t, m), b, r)
<1> DEFINE e == enforce(t, m)
<1> DEFINE nseq == IF m.begin >= e.ns THEN m.begin + 1 ELSE e.ns
<1> DEFINE x == [on |-> TRUE, begin |-> m.begin, interrupted |-> e.ns,
                 last |-> 0, todo |-> StoredRange(e, m.begin, m.end)]
<1> DEFINE f == generate_sequence_reset(nseq)
<1> DEFINE g == send_process(e, f, m.begin, FALSE)
<1>1. Running(e, b, r) /\ e \in Sessions
  BY EnforceAhead DEF Running
<1> HIDE DEF e
<1>2. e.ns \in Nat /\ m.begin \in Nat
  BY <1>1, CountType DEF Messages
<1>3. nseq \in Nat /\ nseq > 0
  BY <1>2
<1> HIDE DEF nseq
<1>4. x \in RetransmissionContext /\ x.interrupted = e.ns
  <2>1. StoredRange(e, m.begin, m.end) \in SUBSET Nat
    BY <1>1, RangeType
  <2> QED
    BY <1>2, <2>1 DEF RetransmissionContext
<1> HIDE DEF x
<1>5. f \in Messages
  BY <1>3, GenerateType
<1> HIDE DEF f
<1>6. Running(g, b, r) /\ SameLife(e, g)
  BY <1>1, <1>2, <1>5, SendAhead
<1> HIDE DEF g
<1>7. ASSUME ~e.per
      PROVE  Running([g EXCEPT !.ns = nseq], b, r)
  <2>1. [g EXCEPT !.ns = nseq] \in Sessions
    BY <1>3, <1>6, NumberType DEF Running
  <2>2. g \in Sessions
    BY <1>6 DEF Running
  <2> QED
    BY <1>6, <1>7, <2>1, <2>2 DEF Running, Ahead, SameLife, Sessions
<1>8. ASSUME e.per
      PROVE  Running([e EXCEPT !.st = "resend_request_received", !.rtx = x], b, r)
  <2>1. [e EXCEPT !.st = "resend_request_received", !.rtx = x] \in Sessions
    BY <1>1, <1>4 DEF Sessions, SessionStates
  <2> QED
    BY <1>1, <1>4, <1>8, <2>1 DEF Running, Ahead, Sessions
<1>9. Running(send(e, Msg("Reject")), b, r)
  BY <1>1, SendAhead, MsgType DEF MsgTypes
<1> QED
  BY <1>1, <1>7, <1>8, <1>9 DEF handle_resend_request, e, nseq, x, f, g

(* The acceptor in handle_logon: it has changed its state and not yet      *)
(* opened its persister.                                                   *)
LoggingOn(t, b, r) ==
    /\ t \in Sessions /\ t.role = r /\ t.st # "none" /\ b < t.ctrl[1]
    /\ t.role = "initiator" \/ t.timer \/ t.tr \/ t.rtx.on => t.per
    /\ t.per => b < t.ns
    /\ t.rtx.on => b < t.rtx.interrupted

(* The acceptor opens its persister and takes its numbers from it: from    *)
(* then on its number is ahead of b because the control record was.        *)
LEMMA AttachAhead ==
    ASSUME NEW b \in Int, NEW r, NEW t, LoggingOn(t, b, r), NEW m, ~m.reset
    PROVE  LET u == recover_seqnums(AttachPersister(t, m))
           IN  Running(u, b, r) /\ u.per
<1> DEFINE a == [t EXCEPT !.per = TRUE]
<1> DEFINE u == recover_seqnums(a)
<1>1. t \in Sessions
  BY DEF LoggingOn
<1>2. AttachPersister(t, m) = a
  BY <1>1 DEF AttachPersister, Sessions
<1>3. /\ a \in Sessions /\ a.per /\ a.ctrl = t.ctrl /\ a.st = t.st /\ a.role = t.role
      /\ a.rtx = t.rtx /\ a.starting = t.starting
  BY <1>1 DEF Sessions
<1>4. /\ t.ctrl \in Nat \X Nat /\ b < t.ctrl[1] /\ t.st # "none" /\ t.role = r
      /\ t.rtx.on => b < t.rtx.interrupted
  BY <1>1 DEF LoggingOn, Sessions
<1> HIDE DEF a
<1>5. u \in Sessions
  BY <1>3, PersisterType
<1>6. u.per /\ u.ctrl = a.ctrl /\ u.st = a.st /\ u.role = a.role /\ u.rtx = a.rtx
  BY <1>3 DEF recover_seqnums, Sessions
<1>7. b < u.ns
  <2>1. CASE a.ctrl # <<0, 0>>
    <3>1. u.ns = a.ctrl[1]
      BY <1>3, <2>1 DEF recover_seqnums, Sessions
    <3> QED
      BY <1>3, <1>4, <3>1
  <2>2. CASE a.ctrl = <<0, 0>>
    <3>1. b < 0
      BY <1>3, <1>4, <2>2
    <3>2. u.ns \in Nat
      BY <1>5, CountType
    <3> QED
      BY <3>1, <3>2
  <2> QED
    BY <2>1, <2>2
<1> HIDE DEF u
<1>8. Running(u, b, r)
  BY <1>3, <1>4, <1>5, <1>6, <1>7 DEF Running, Ahead
<1> QED
  BY <1>2, <1>6, <1>8 DEF u

(* A logon that does not ask for a reset.                                  *)
LEMMA LogonAhead ==
    ASSUME NEW b \in Int, NEW r \in Roles, NEW t, Running(t, b, r),
           NEW m \in Messages, ~m.reset, NEW auth \in LogonOutcomes
    PROVE  Running(handle_logon(t, m, auth), b, r)
<1> DEFINE v == do_state_change(t, "logon_received")
<1>1. t \in Sessions /\ v \in Sessions
  BY StateType DEF Running, SessionStates
<1>2. LoggingOn(v, b, r)
  BY <1>1 DEF Running, Ahead, LoggingOn, do_state_change, Sessions
<1>3. ASSUME NEW u, LoggingOn(u, b, r)
      PROVE  Running(LogonRefused(u), b, r)
  <2> DEFINE p == stop(u)
  <2>1. u \in Sessions
    BY <1>3 DEF LoggingOn
  <2>2. p \in Sessions
    BY <2>1, StateType
  <2>3. LoggingOn(p, b, r)
    BY <1>3, <2>1, <2>2 DEF LoggingOn, stop, Sessions
  <2> HIDE DEF p
  <2>4. do_state_change(p, "session_terminated") \in Sessions
    BY <2>2, StateType DEF SessionStates
  <2>5. Running(do_state_change(p, "session_terminated"), b, r)
    BY <2>2, <2>3, <2>4 DEF LoggingOn, Running, Ahead, do_state_change, IsEstablished, IsLive,
        Sessions
  <2> QED
    BY <2>5 DEF LogonRefused, p
<1>4. ASSUME NEW u, Running(u, b, r)
      PROVE  LoggingOn(u, b, r)
  BY <1>4 DEF Running, Ahead, LoggingOn
<1>5. ASSUME NEW u, Running(u, b, r), u.per
      PROVE  Running([u EXCEPT !.st = "continuous", !.timer = TRUE], b, r)
  <2>1. u \in Sessions
    BY <1>5 DEF Running
  <2>2. [u EXCEPT !.st = "continuous", !.timer = TRUE] \in Sessions
    BY <2>1 DEF Sessions, SessionStates
  <2> QED
    BY <1>5, <2>1, <2>2 DEF Running, Ahead, Sessions
<1>6. Running(send(t, Msg("Reject")), b, r)
  BY SendAhead, MsgType DEF MsgTypes
<1>7. v.role = r /\ t.role = r
  BY <1>1, <1>2 DEF LoggingOn, Running
<1>8. CASE r = "initiator"
  <2>1. Running(v, b, r) /\ v.per
    BY <1>2, <1>8 DEF Running, Ahead, LoggingOn, do_state_change, Sessions
  <2> HIDE DEF v
  <2>2. Running(enforce(v, m), b, r) /\ enforce(v, m).per
    BY <2>1, EnforceAhead
  <2>3. Running(LogonInitiator(v, m, auth), b, r)
    BY <1>2, <1>3, <1>5, <2>2 DEF LogonInitiator
  <2> QED
    BY <1>6, <1>7, <1>8, <2>3 DEF handle_logon, v
<1>9. CASE r = "acceptor"
  <2> DEFINE p == recover_seqnums(AttachPersister(v, m))
  <2> DEFINE e == enforce(p, m)
  <2> DEFINE g == generate_logon(v.role)
  <2> DEFINE w == send(e, g)
  <2> DEFINE l == do_state_change(w, "continuous")
  <2> HIDE DEF v
  <2>1. Running(p, b, r) /\ p.per
    BY <1>2, AttachAhead
  <2> HIDE DEF p
  <2>2. Running(e, b, r) /\ e.per
    BY <2>1, EnforceAhead
  <2> HIDE DEF e
  <2>3. g \in Messages
    BY <1>7, GenerateType
  <2> HIDE DEF g
  <2>4. Running(w, b, r) /\ w.per
    BY <2>2, <2>3, SendAhead DEF SameLife
  <2> HIDE DEF w
  <2>5. Running(l, b, r) /\ l.per
    <3>1. Running(l, b, r)
      BY <2>4, StateAhead DEF SessionStates
    <3>2. w \in Sessions
      BY <2>4 DEF Running
    <3>3. l.per
      BY <2>4, <3>2 DEF do_state_change, Sessions
    <3> QED
      BY <3>1, <3>3
  <2> HIDE DEF l
  <2>6. Running([l EXCEPT !.timer = TRUE], b, r)
    BY <2>5, StateAhead
  <2>7. Running(LogonAcceptor(v, m, auth), b, r)
    BY <1>2, <1>3, <1>4, <2>1, <2>2, <2>5, <2>6
       DEF LogonAcceptor, LogonOutcomes, p, e, g, w, l
  <2> QED
    BY <1>6, <1>7, <1>9, <2>7 DEF handle_logon, v
<1> QED
  BY <1>8, <1>9 DEF Roles

(* The tail of process() and its catch clauses.                            *)
LEMMA TailAhead ==
    ASSUME NEW b \in Int, NEW r, NEW t, Running(t, b, r)
    PROVE  /\ \A m : Running(Finish(t, m), b, r)
           /\ Running(Rejected(t), b, r)
           /\ Running(ForceLogoff(t), b, r)
<1>1. t \in Sessions
  BY DEF Running
<1>2. ASSUME NEW m
      PROVE  Running(Finish(t, m), b, r)
  <2> DEFINE c == [t EXCEPT !.nr = @ + 1]
  <2> DEFINE p == update_persist_seqnums(c)
  <2>1. Running(c, b, r)
    BY <1>1, CountType, PersisterAhead
  <2> HIDE DEF c
  <2>2. Running(p, b, r)
    BY <2>1, PersisterAhead
  <2> HIDE DEF p
  <2>3. Running(stop(p), b, r)
    BY <2>2, StateAhead
  <2> QED
    BY <2>2, <2>3 DEF Finish, p, c
<1>3. Running(Rejected(t), b, r)
  <2> DEFINE g == send(t, Msg("Reject"))
  <2> DEFINE n == [g EXCEPT !.nr = @ + 1]
  <2>1. Running(g, b, r) /\ g \in Sessions
    BY SendAhead, MsgType DEF MsgTypes, Running
  <2> HIDE DEF g
  <2>2. Running(n, b, r)
    BY <2>1, CountType, PersisterAhead
  <2>3. [n EXCEPT !.rtx = NoRtx] = [g EXCEPT !.nr = @ + 1, !.rtx = NoRtx]
    BY <2>1 DEF Sessions
  <2> HIDE DEF n
  <2>4. Running([n EXCEPT !.rtx = NoRtx], b, r)
    BY <2>2, StateAhead
  <2> QED
    BY <2>3, <2>4 DEF Rejected, g
<1>4. Running(ForceLogoff(t), b, r)
  <2> DEFINE g == send_process(t, Msg("Logout"), 0, TRUE)
  <2> DEFINE u == IF t.st = "logon_received" /\ ~SilentDisconnect
                  THEN do_state_change(g, "logoff_sent") ELSE t
  <2>1. Running(g, b, r) /\ SameLife(t, g)
    BY SendAhead, MsgType DEF MsgTypes
  <2> HIDE DEF g
  <2>2. ASSUME t.st = "logon_received"
        PROVE  Running(do_state_change(g, "logoff_sent"), b, r)
    <3>1. g.per
      BY <2>1, <2>2 DEF Running, Ahead, SameLife, IsEstablished, IsLive
    <3> QED
      BY <2>1, <3>1, StateAhead DEF SessionStates
  <2>3. Running(u, b, r) /\ u \in Sessions
    BY <2>2 DEF Running
  <2> HIDE DEF u
  <2> DEFINE d == [u EXCEPT !.st = IF u.shut THEN @ ELSE "session_terminated",
                            !.closed = TRUE]
  <2>4. d \in Sessions
    BY <2>3 DEF Sessions, SessionStates
  <2>5. Running(d, b, r)
    BY ZenonT(30), <2>3, <2>4 DEF Running, Ahead, Sessions, IsEstablished, IsLive
  <2>6. Running(stop(u), b, r)
    BY <2>3, StateAhead
  <2> HIDE DEF d
  <2> QED
    BY <2>5, <2>6 DEF ForceLogoff, d, u, g
<1> QED
  BY <1>2, <1>3, <1>4

(* process() of a message that does not ask for a reset.                   *)
LEMMA ProcessAhead ==
    ASSUME NEW b \in Int, NEW r \in Roles, NEW t, Running(t, b, r),
           NEW m \in Messages, ~m.reset, NEW outcome, NEW auth \in LogonOutcomes
    PROVE  Running(process(t, m, outcome, auth), b, r)
<1> DEFINE h == Dispatch(t, m, outcome, auth)
<1>1. m.type \in MsgTypes
  BY DEF Messages
<1>2. Running(handle_logout(t, m), b, r)
  BY EnforceAhead DEF handle_logout
<1>3. Running(h, b, r)
  BY <1>1, <1>2, HandlerAhead, ResendRequestAhead, LogonAhead DEF Dispatch, MsgTypes
<1> HIDE DEF h
<1>4. Running(ForceLogoff(h), b, r) /\ Running(Finish(h, m), b, r)
  BY <1>3, TailAhead
<1>5. Running(Rejected(t), b, r)
  BY TailAhead
<1> QED
  BY <1>3, <1>4, <1>5 DEF process, h

(* One step of the range query.                                            *)
LEMMA ResendStepAhead ==
    ASSUME NEW b \in Int, NEW r, NEW t, Running(t, b, r), NEW record \in Nat \X Nat
    PROVE  Running(ResendStep(t, record), b, r)
<1> DEFINE q == record[1]
<1> DEFINE hole == IF t.rtx.last # 0 THEN t.rtx.last + 1 < q ELSE q > t.rtx.begin
<1> DEFINE n == IF t.rtx.last # 0 THEN t.ns ELSE 0
<1> DEFINE f == generate_sequence_reset(q)
<1> DEFINE g == IF hole THEN send_process(t, f, n, FALSE) ELSE t
<1> DEFINE a == [generate_application(record[2]) EXCEPT !.seq = q]
<1> DEFINE u == send(g, a)
<1>1. /\ t \in Sessions /\ t.rtx \in RetransmissionContext /\ n \in Nat
      /\ q \in Nat /\ record[2] \in Nat /\ t.rtx.last \in Nat /\ t.rtx.begin \in Nat
  BY DEF Running, Sessions, RetransmissionContext
<1>2. ASSUME hole
      PROVE  f \in Messages
  <2>1. q > 0
    BY <1>1, <1>2
  <2> QED
    BY <1>1, <2>1, GenerateType
<1>3. a \in Messages
  BY <1>1 DEF generate_application, Msg, Messages, MsgTypes
<1>4. Running(g, b, r)
  <2>1. ASSUME hole
        PROVE  Running(send_process(t, f, n, FALSE), b, r)
    <3> HIDE DEF f, n, hole
    <3> QED
      BY <1>1, <1>2, <2>1, SendAhead
  <2> QED
    BY <2>1
<1> HIDE DEF g, a
<1>5. Running(u, b, r) /\ Running(Rejected(g), b, r)
  BY <1>3, <1>4, SendAhead, TailAhead
<1> HIDE DEF u
<1>6. Running([u EXCEPT !.rtx.last = q, !.rtx.todo = IF t.wire THEN @ \ {q} ELSE {}], b, r)
  <2> DEFINE y == [u.rtx EXCEPT !.last = q, !.todo = IF t.wire THEN @ \ {q} ELSE {}]
  <2>1. u \in Sessions /\ u.rtx \in RetransmissionContext
    BY <1>5 DEF Running, Sessions
  <2>2. y \in RetransmissionContext /\ y.on = u.rtx.on /\ y.interrupted = u.rtx.interrupted
    BY <1>1, <2>1 DEF RetransmissionContext
  <2>3. [u EXCEPT !.rtx.last = q, !.rtx.todo = IF t.wire THEN @ \ {q} ELSE {}]
           = [u EXCEPT !.rtx = y]
    BY <2>1 DEF Sessions, RetransmissionContext
  <2> HIDE DEF y
  <2>4. [u EXCEPT !.rtx = y] \in Sessions
    BY <2>1, <2>2 DEF Sessions
  <2>5. Running([u EXCEPT !.rtx = y], b, r)
    BY <1>5, <2>1, <2>2, <2>4 DEF Running, Ahead, Sessions
  <2> QED
    BY <2>3, <2>5
<1> QED
  BY <1>5, <1>6 DEF ResendStep, u, a, g, f, n

(* The end of the resend: the number that the session goes back to is at   *)
(* least the one at which the resend interrupted it.                       *)
LEMMA ResendDoneAhead ==
    ASSUME NEW b \in Int, NEW r, NEW t, Running(t, b, r), t.rtx.on
    PROVE  Running(ResendDone(t), b, r)
<1> DEFINE x == t.rtx
<1> DEFINE from == IF x.last = 0 THEN x.begin ELSE x.last + 1
<1> DEFINE nseq == IF from >= x.interrupted THEN from + 1 ELSE x.interrupted
<1> DEFINE f == generate_sequence_reset(nseq)
<1> DEFINE g == send_process(t, f, from, FALSE)
<1> DEFINE d == [g EXCEPT !.ns = nseq, !.st = "continuous", !.rtx = NoRtx]
<1>1. x.last \in Nat /\ x.begin \in Nat /\ x.interrupted \in Nat
  BY DEF Running, Sessions, RetransmissionContext
<1>2. b < x.interrupted /\ t.per
  BY DEF Running, Ahead
<1> HIDE DEF x
<1>3. from \in Nat
  BY <1>1
<1> HIDE DEF from
<1>4. nseq \in Nat /\ nseq > 0 /\ b < nseq
  BY <1>1, <1>2, <1>3
<1> HIDE DEF nseq
<1>5. f \in Messages
  BY <1>4, GenerateType
<1> HIDE DEF f
<1>6. Running(g, b, r) /\ g.per /\ g \in Sessions
  <2>1. Running(g, b, r) /\ SameLife(t, g)
    BY <1>3, <1>5, SendAhead
  <2> QED
    BY <1>2, <2>1 DEF SameLife, Running
<1> HIDE DEF g
<1>7. NoRtx \in RetransmissionContext /\ ~NoRtx.on
  BY DEF NoRtx, RetransmissionContext
<1>8. d \in Sessions
  BY <1>4, <1>6, <1>7 DEF Sessions, SessionStates
<1>9. Running(d, b, r)
  BY <1>4, <1>6, <1>7, <1>8 DEF Running, Ahead, Sessions
<1> HIDE DEF d
<1>10. Running(Finish(d, Msg("ResendRequest")), b, r)
  BY <1>9, TailAhead
<1> QED
  BY <1>10 DEF ResendDone, d, g, f, nseq, from, x

(* Sending an application message: nothing is counted when the socket      *)
(* refuses it; otherwise the session is beyond the number it used.         *)
LEMMA AppSendBeyond ==
    ASSUME NEW b \in Int, NEW r, NEW t, Running(t, b, r), t.per, ~t.rtx.on, NEW v \in Nat
    PROVE  LET u == send(t, generate_application(v))
           IN  IF t.wire THEN Running(u, t.ns, r) ELSE Running(u, b, r)
<1> DEFINE m == generate_application(v)
<1> DEFINE o == [t EXCEPT !.out = Append(@, Stamp(t, m, 0))]
<1>1. t \in Sessions
  BY DEF Running
<1>2. m \in Messages /\ m.type = "App" /\ m.seq = 0 /\ ~m.dup /\ m.val \in Nat
  BY GenerateType DEF generate_application, Msg
<1> HIDE DEF m
<1>3. Running(send(t, m), b, r)
  BY <1>2, SendAhead
<1>4. Append(t.out, Stamp(t, m, 0)) \in Seq(Messages)
  BY <1>1, <1>2, StampType DEF Sessions
<1>5. Running(o, b, r) /\ o.per /\ ~o.rtx.on /\ o.ns = t.ns
  BY <1>1, <1>4, StateAhead DEF Sessions
<1> HIDE DEF o
<1>6. Running(Record(o, m, 0, FALSE, m.val), o.ns, r)
  BY <1>2, <1>5, RecordBeyond
<1> QED
  BY <1>3, <1>5, <1>6 DEF send, send_process, o, m

(* Sending a batch of two: the first is counted even when the flush fails. *)
LEMMA BatchBeyond ==
    ASSUME NEW b \in Int, NEW r, NEW t, Running(t, b, r), t.per, ~t.rtx.on,
           NEW v \in Nat, NEW w \in Nat
    PROVE  LET u == send_batch(t, generate_application(v), generate_application(w))
           IN  IF t.wire THEN Running(u, t.ns + 1, r) ELSE Running(u, t.ns, r)
<1> DEFINE m1 == generate_application(v)
<1> DEFINE m2 == generate_application(w)
<1> DEFINE a == Record(t, m1, 0, FALSE, m1.val)
<1> DEFINE o == [a EXCEPT !.out = @ \o <<Stamp(t, m1, 0), Stamp(a, m2, 0)>>]
<1>1. t \in Sessions /\ t.ns \in Nat
  BY CountType DEF Running
<1>2. m1 \in Messages /\ m1.type = "App" /\ m1.seq = 0 /\ ~m1.dup /\ m1.val \in Nat
  BY GenerateType DEF generate_application, Msg
<1>3. m2 \in Messages /\ m2.type = "App" /\ m2.seq = 0 /\ ~m2.dup
  BY GenerateType DEF generate_application, Msg
<1> HIDE DEF m1, m2
<1>4. Running(a, t.ns, r) /\ a.ns = t.ns + 1
  <2> DEFINE x == m1.val
  <2>1. x \in Nat
    BY <1>2
  <2> HIDE DEF x
  <2>2. /\ Running(Record(t, m1, 0, FALSE, x), t.ns, r)
        /\ Record(t, m1, 0, FALSE, x).ns = t.ns + 1
    <3>1. Running(Record(t, m1, 0, FALSE, x), t.ns, r)
      BY <1>2, <2>1, RecordBeyond
    <3>2. PICK n \in Nat : n = t.ns + 1 /\ Record(t, m1, 0, FALSE, x).ns = n
      BY <1>2, <2>1, RecordBeyond, ZenonT(30)
    <3> QED
      BY <3>1, <3>2
  <2> QED
    BY <2>2 DEF x
<1>5. SameLife(t, a)
  BY <1>2, RecordAhead
<1> HIDE DEF a
<1>6. a \in Sessions /\ a.per /\ ~a.rtx.on
  BY <1>4, <1>5 DEF Running, SameLife
<1>7. a.out \o <<Stamp(t, m1, 0), Stamp(a, m2, 0)>> \in Seq(Messages)
  <2>1. <<Stamp(t, m1, 0), Stamp(a, m2, 0)>> \in Seq(Messages)
    BY <1>1, <1>2, <1>3, <1>6, StampType
  <2> QED
    BY <1>6, <2>1 DEF Sessions
<1>8. Running(o, t.ns, r) /\ o.per /\ ~o.rtx.on /\ o.ns = t.ns + 1
  <2>1. Running(o, t.ns, r)
    <3>1. t.ns \in Int
      BY <1>1
    <3> QED
      BY <1>4, <1>7, <3>1, StateAhead
  <2> QED
    BY <1>4, <1>6, <1>7, <2>1 DEF Sessions
<1> HIDE DEF o
<1>9. Running(Record(o, m2, 0, FALSE, 0), o.ns, r)
  <2>1. t.ns \in Int /\ 0 \in Nat
    BY <1>1
  <2> QED
    BY <1>3, <1>8, <2>1, RecordBeyond, Zenon
<1> QED
  BY <1>4, <1>8, <1>9 DEF send_batch, o, a, m1, m2

(* The timer thread.                                                       *)
LEMMA HeartbeatAhead ==
    ASSUME NEW b \in Int, NEW r, NEW t, Running(t, b, r), t.per,
           NEW due \in BOOLEAN, NEW idle \in BOOLEAN
    PROVE  Running(heartbeat_service(t, due, idle), b, r)
<1> DEFINE h == IF due THEN send(t, Msg("Heartbeat")) ELSE t
<1> DEFINE g == send_process(h, Msg("Logout"), 0, TRUE)
<1> DEFINE l == do_state_change(g, "logoff_sent")
<1> DEFINE k == [l EXCEPT !.shut = TRUE, !.timer = FALSE]
<1> DEFINE q == send(h, Msg("TestRequest"))
<1>1. /\ Msg("Heartbeat") \in Messages /\ Msg("Logout") \in Messages
      /\ Msg("TestRequest") \in Messages
  BY MsgType DEF MsgTypes
<1>2. Running(h, b, r) /\ h.per
  <2>1. Running(send(t, Msg("Heartbeat")), b, r) /\ SameLife(t, send(t, Msg("Heartbeat")))
    BY <1>1, SendAhead
  <2> QED
    BY <2>1 DEF SameLife
<1> HIDE DEF h
<1>3. Running(g, b, r) /\ SameLife(h, g)
  BY <1>1, <1>2, SendAhead
<1>4. g.per /\ g \in Sessions
  BY <1>2, <1>3 DEF SameLife, Running
<1> HIDE DEF g
<1>5. Running(l, b, r) /\ l \in Sessions
  <2>1. Running(l, b, r)
    BY <1>3, <1>4, StateAhead DEF SessionStates
  <2> QED
    BY <2>1 DEF Running
<1> HIDE DEF l
<1>6. k \in Sessions
  BY <1>5 DEF Sessions
<1>7. Running(k, b, r) /\ Running(stop(l), b, r)
  <2>1. Running(k, b, r)
    BY <1>5, <1>6 DEF Running, Ahead, Sessions
  <2> QED
    BY <1>5, <2>1, StateAhead
<1> HIDE DEF k
<1>8. Running(q, b, r) /\ SameLife(h, q)
  BY <1>1, <1>2, SendAhead
<1> HIDE DEF q
<1>9. q.per
  BY <1>2, <1>8 DEF SameLife
<1>10. Running([q EXCEPT !.tr = TRUE], b, r)
  BY <1>8, <1>9, StateAhead
<1> QED
  BY <1>2, <1>7, <1>10 DEF heartbeat_service, h, g, l, k, q

(* Starting: the initiator reads its numbers back from the persister, the  *)
(* acceptor leaves its persister closed until the logon.                   *)
LEMMA StartAhead ==
    ASSUME NEW b \in Int, NEW t \in Sessions, Ahead(t, b), ~ResetSeqNums
    PROVE  /\ t.role = "initiator" => Running(StartInitiator(t), b, "initiator")
           /\ t.role = "acceptor" => Running(StartAcceptor(t), b, "acceptor")
<1> DEFINE i == [t EXCEPT !.st = "not_logged_in", !.ns = 1, !.nr = 1, !.shut = FALSE,
                          !.closed = FALSE, !.starting = TRUE, !.rtx = NoRtx, !.tr = FALSE,
                          !.timer = FALSE, !.store = @, !.ctrl = @]
<1> DEFINE p == recover_seqnums(i)
<1>1. NoRtx \in RetransmissionContext /\ ~NoRtx.on
  BY DEF NoRtx, RetransmissionContext
<1>2. ASSUME t.role = "initiator"
      PROVE  Running(StartInitiator(t), b, "initiator")
  <2>1. i \in Sessions
    BY ZenonT(30), <1>1 DEF Sessions, SessionStates
  <2>2. /\ i.per /\ i.role = "initiator" /\ i.st = "not_logged_in" /\ ~i.rtx.on
        /\ i.ctrl = t.ctrl /\ ~i.timer /\ ~i.tr
    BY <1>1, <1>2 DEF Sessions, Ahead
  <2>3. AttachPersister(i, Msg("Logon")) = i
    BY <2>2 DEF AttachPersister
  <2>4. StartInitiator(t) = send(recover_seqnums(i), generate_logon("initiator"))
    BY DEF StartInitiator, Sessions
  <2> HIDE DEF i
  <2>5. i.ctrl \in Nat \X Nat /\ b < i.ctrl[1]
    BY <2>1, <2>2 DEF Ahead, Sessions
  <2>6. p \in Sessions
    BY <2>1, PersisterType
  <2>7. /\ p.per /\ p.role = "initiator" /\ p.st = "not_logged_in" /\ ~p.rtx.on
        /\ p.ctrl = i.ctrl /\ ~p.timer /\ ~p.tr
        /\ i.ctrl # <<0, 0>> => p.ns = i.ctrl[1]
    BY <2>1, <2>2 DEF recover_seqnums, Sessions
  <2>8. b < p.ns
    <3>1. CASE i.ctrl # <<0, 0>>
      BY <2>5, <2>7, <3>1
    <3>2. CASE i.ctrl = <<0, 0>>
      <4>1. b < 0
        BY <2>5, <3>2
      <4>2. p.ns \in Nat
        BY <2>6, CountType
      <4> QED
        BY <4>1, <4>2
    <3> QED
      BY <3>1, <3>2
  <2> HIDE DEF p
  <2>9. Running(p, b, "initiator")
    BY <2>5, <2>6, <2>7, <2>8 DEF Running, Ahead, IsEstablished
  <2>10. Running(send(p, generate_logon("initiator")), b, "initiator")
    BY <2>9, SendAhead, GenerateType DEF Roles
  <2> QED
    BY <2>4, <2>10 DEF p
<1>3. ASSUME t.role = "acceptor"
      PROVE  Running(StartAcceptor(t), b, "acceptor")
  <2>1. StartAcceptor(t) \in Sessions
    BY StartType
  <2> QED
    BY <1>1, <1>3, <2>1 DEF Running, Ahead, StartAcceptor, IsEstablished, Sessions
<1> QED
  BY <1>2, <1>3

(* A number beyond the last one keeps the sequence increasing.             *)
LEMMA AppendIncreasing ==
    ASSUME NEW q \in Seq(Nat), Increasing(q), NEW n \in Nat, LastOf(q) < n
    PROVE  Increasing(Append(q, n)) /\ LastOf(Append(q, n)) = n
<1>1. Len(q) \in Nat /\ DOMAIN q = 1 .. Len(q) /\ \A i \in DOMAIN q : q[i] \in Nat
  OBVIOUS
<1>2. /\ Len(Append(q, n)) = Len(q) + 1 /\ Append(q, n)[Len(q) + 1] = n
      /\ DOMAIN Append(q, n) = 1 .. Len(q) + 1
      /\ \A i \in 1 .. Len(q) : Append(q, n)[i] = q[i]
  OBVIOUS
<1>3. \A i \in 1 .. Len(q) : q[i] < n
  <2> SUFFICES ASSUME NEW i \in 1 .. Len(q)
               PROVE  q[i] < n
    OBVIOUS
  <2>1. q # <<>> /\ Len(q) \in DOMAIN q /\ q[Len(q)] < n
    BY <1>1 DEF LastOf
  <2>2. CASE i = Len(q)
    BY <2>1, <2>2
  <2>3. CASE i < Len(q)
    <3>1. q[i] < q[Len(q)]
      BY <1>1, <2>1, <2>3 DEF Increasing
    <3>2. q[i] \in Nat /\ q[Len(q)] \in Nat
      BY <1>1, <2>1
    <3> QED
      BY <2>1, <3>1, <3>2
  <2>4. i = Len(q) \/ i < Len(q)
    <3>1. Len(q) \in Int /\ i \in Int /\ i <= Len(q)
      BY <1>1
    <3> QED
      BY <3>1
  <2> QED
    BY <2>2, <2>3, <2>4
<1>4. Increasing(Append(q, n))
  <2> SUFFICES ASSUME NEW v \in 1 .. Len(q) + 1, NEW w \in 1 .. Len(q) + 1, v < w
               PROVE  Append(q, n)[v] < Append(q, n)[w]
    BY <1>2 DEF Increasing
  <2>1. v \in 1 .. Len(q)
    BY <1>1
  <2>2. CASE w = Len(q) + 1
    BY <1>2, <1>3, <2>1, <2>2
  <2>3. CASE w \in 1 .. Len(q)
    <3>1. q[v] < q[w]
      BY <1>1, <2>1, <2>3 DEF Increasing
    <3> QED
      BY <1>2, <2>1, <2>3, <3>1
  <2> QED
    BY <1>1, <2>2, <2>3
<1>5. Append(q, n) # <<>>
  BY <1>1, <1>2
<1> QED
  BY <1>2, <1>4, <1>5 DEF LastOf

(* What a step of side s has to establish for NumbersAhead.                *)
LEMMA SideSuffices ==
    ASSUME TypeOK, NumbersAhead, NEW s \in Roles, NEW t, NEW q,
           ses' = [ses EXCEPT ![s] = t], sent' = [sent EXCEPT ![s] = q],
           t.role = s, Increasing(q), Ahead(t, LastOf(q))
    PROVE  NumbersAhead'
<1> SUFFICES ASSUME NEW z \in Roles
             PROVE  /\ ses'[z].role = z
                    /\ Increasing(sent'[z])
                    /\ Ahead(ses'[z], LastOf(sent'[z]))
  BY DEF NumbersAhead
<1>1. CASE z = s
  BY <1>1 DEF TypeOK
<1>2. CASE z # s
  BY <1>2 DEF TypeOK, NumbersAhead
<1> QED
  BY <1>1, <1>2

(* The same for an operation that ends with Commit as session t.           *)
LEMMA CommitAhead ==
    ASSUME TypeOK, NumbersAhead, NEW s \in Roles, NEW t, NEW q, NEW rest,
           Commit(s, t, rest), sent' = [sent EXCEPT ![s] = q],
           Increasing(q), Running(t, LastOf(q), s), LastOf(q) \in Int
    PROVE  NumbersAhead'
<1>1. Running(Idle(t), LastOf(q), s)
  BY StateAhead
<1>2. Idle(t).role = s /\ Ahead(Idle(t), LastOf(q))
  BY <1>1 DEF Running
<1>3. ses' = [ses EXCEPT ![s] = Idle(t)]
  BY DEF Commit
<1> QED
  BY <1>2, <1>3, SideSuffices

(* The assumptions under which numbers are never reused.                   *)
Undisturbed == {"resend", "crash", "count"} \cap Races = {} /\ ~ResetSeqNums

(* Every step of a side preserves NumbersAhead.                            *)
LEMMA SideAhead ==
    ASSUME TypeOK, NumbersAhead, Undisturbed, NEW s \in Roles,
           \/ Receive(s) \/ ResendNext(s) \/ ResendEnd(s) \/ ReaderEOF(s)
           \/ AppSend(s) \/ AppSendBatch(s) \/ AppLogout(s) \/ SendWhileCounting(s)
           \/ Tick(s) \/ TickEnd(s) \/ Crash(s) \/ CrashInSend(s)
    PROVE  NumbersAhead'
<1> DEFINE b == LastOf(sent[s])
<1>1. /\ ses[s] \in Sessions /\ sent[s] \in Seq(Nat) /\ sent \in [Roles -> Seq(Nat)]
      /\ Unread(s) \in Seq(Messages) /\ Len(sent[s]) + 1 \in Nat /\ ses[s].ns \in Nat
  <2>1. ses[s] \in Sessions /\ sent[s] \in Seq(Nat) /\ Peer(s) \in Roles
    BY DEF TypeOK, Peer, Roles
  <2>2. Unread(s) \in Seq(Messages) /\ Len(sent[s]) + 1 \in Nat
    BY <2>1 DEF TypeOK, Unread
  <2> QED
    BY <2>1, <2>2, CountType DEF TypeOK
<1>2. b \in Int
  <2>1. CASE sent[s] = <<>>
    BY <2>1 DEF LastOf
  <2>2. CASE sent[s] # <<>>
    <3>1. sent[s][Len(sent[s])] \in Nat
      BY <1>1, <2>2
    <3> QED
      BY <2>2, <3>1 DEF LastOf
  <2> QED
    BY <2>1, <2>2
<1>3. /\ ses[s].role = s /\ Increasing(sent[s]) /\ Ahead(ses[s], b)
      /\ sent = [sent EXCEPT ![s] = sent[s]]
  BY <1>1 DEF NumbersAhead
<1>4. ASSUME ses[s].st # "none", NEW w \in BOOLEAN
      PROVE  /\ Running(ses[s], b, s) /\ Running(Wired(s, w), b, s)
             /\ Wired(s, w).wire = w /\ Wired(s, w).ns = ses[s].ns
             /\ Wired(s, w).per = ses[s].per /\ Wired(s, w).rtx = ses[s].rtx
  <2>1. Running(ses[s], b, s)
    BY <1>1, <1>3, <1>4 DEF Running
  <2>2. Running([ses[s] EXCEPT !.wire = w], b, s)
    BY <1>2, <2>1, StateAhead
  <2> QED
    BY <1>1, <2>1, <2>2 DEF Wired, Sessions
<1> HIDE DEF b
<1>5. ASSUME NEW t, Running(t, b, s), NEW rest, Commit(s, t, rest), UNCHANGED sent
      PROVE  NumbersAhead'
  <2>1. sent' = [sent EXCEPT ![s] = sent[s]]
    BY <1>3, <1>5
  <2> QED
    BY <1>2, <1>3, <1>5, <2>1, CommitAhead DEF b
<1>6. \A w \in Writable(s) : w \in BOOLEAN
  BY WritableType
<1>7. CASE Receive(s)
  <2>1. Head(Unread(s)) \in Messages /\ ses[s].st # "none" /\ UNCHANGED sent
    BY <1>1, <1>7 DEF Receive, Reading
  <2>2. ~Head(Unread(s)).reset
    BY <2>1 DEF Undisturbed, Messages
  <2>3. PICK w \in Writable(s), outcome \in {"ok", "throws"} :
           Commit(s, process(Wired(s, w), Head(Unread(s)), outcome, "ok"), Tail(Unread(s)))
    BY <1>7 DEF Receive
  <2>4. Running(Wired(s, w), b, s)
    BY <1>4, <1>6, <2>1
  <2>5. Running(process(Wired(s, w), Head(Unread(s)), outcome, "ok"), b, s)
    BY <1>2, <2>1, <2>2, <2>4, ProcessAhead DEF LogonOutcomes
  <2> QED
    BY <1>5, <2>1, <2>3, <2>5
<1>8. CASE ResendNext(s)
  <2>1. PICK w \in Writable(s), record \in ses[s].store :
           Commit(s, ResendStep(Wired(s, w), record), Unread(s))
    BY <1>8 DEF ResendNext
  <2>2. record \in Nat \X Nat
    BY <1>1 DEF Sessions
  <2>3. ses[s].st # "none" /\ UNCHANGED sent
    BY <1>3, <1>8 DEF ResendNext, Ahead
  <2>4. Running(Wired(s, w), b, s)
    BY <1>4, <1>6, <2>3
  <2>5. Running(ResendStep(Wired(s, w), record), b, s)
    BY <1>2, <2>2, <2>4, ResendStepAhead
  <2> QED
    BY <1>5, <2>1, <2>3, <2>5
<1>9. CASE ResendEnd(s)
  <2>1. PICK w \in Writable(s) : Commit(s, ResendDone(Wired(s, w)), Unread(s))
    BY <1>9 DEF ResendEnd
  <2>2. ses[s].st # "none" /\ UNCHANGED sent /\ ses[s].rtx.on
    BY <1>3, <1>9 DEF ResendEnd, Ahead
  <2>3. Running(Wired(s, w), b, s) /\ Wired(s, w).rtx.on
    BY <1>4, <1>6, <2>2
  <2>4. Running(ResendDone(Wired(s, w)), b, s)
    BY <1>2, <2>3, ResendDoneAhead
  <2> QED
    BY <1>5, <2>1, <2>2, <2>4
<1>10. CASE ReaderEOF(s)
  <2>1. ses[s].st # "none" /\ UNCHANGED sent /\ Commit(s, ReaderEnds(ses[s]), <<>>)
    BY <1>10 DEF ReaderEOF, Reading
  <2>2. Running(ses[s], b, s)
    BY <1>4, <2>1
  <2>3. Running(ReaderEnds(ses[s]), b, s)
    BY <1>2, <2>2, StateAhead DEF ReaderEnds, SessionStates, IsEstablished, IsLive
  <2> QED
    BY <1>5, <2>1, <2>3
<1>11. CASE AppSend(s)
  <2> DEFINE v == Len(sent[s]) + 1
  <2>1. PICK w \in Writable(s) :
           /\ Commit(s, send(Wired(s, w), generate_application(v)), Unread(s))
           /\ sent' = [sent EXCEPT ![s] = IF w THEN Append(@, ses[s].ns) ELSE @]
    BY <1>11 DEF AppSend
  <2>2. ses[s].st # "none" /\ ses[s].per /\ ~ses[s].rtx.on
    BY <1>3, <1>11 DEF AppSend, AppMaySend, MayInterfere, Ahead, IsEstablished, IsLive,
        Undisturbed
  <2>3. /\ Running(Wired(s, w), b, s) /\ Wired(s, w).per /\ ~Wired(s, w).rtx.on
        /\ Wired(s, w).ns = ses[s].ns /\ Wired(s, w).wire = w
    BY <1>4, <1>6, <2>2
  <2> DEFINE u == send(Wired(s, w), generate_application(v))
  <2>4. IF w THEN Running(u, ses[s].ns, s) ELSE Running(u, b, s)
    BY <1>1, <1>2, <2>3, AppSendBeyond
  <2> HIDE DEF u, v
  <2>5. CASE ~w
    BY <1>2, <1>3, <2>1, <2>4, <2>5, CommitAhead DEF b, u
  <2>6. CASE w
    <3>1. b < ses[s].ns
      BY <1>3, <2>2 DEF Ahead
    <3>2. /\ Increasing(Append(sent[s], ses[s].ns))
          /\ LastOf(Append(sent[s], ses[s].ns)) = ses[s].ns
      BY <1>1, <1>3, <3>1, AppendIncreasing DEF b
    <3>3. sent' = [sent EXCEPT ![s] = Append(sent[s], ses[s].ns)]
      BY <1>1, <2>1, <2>6
    <3>4. Running(u, LastOf(Append(sent[s], ses[s].ns)), s) /\ ses[s].ns \in Int
      BY <1>1, <2>4, <2>6, <3>2
    <3> QED
      BY <2>1, <3>2, <3>3, <3>4, CommitAhead DEF u
  <2> QED
    BY <1>6, <2>5, <2>6
<1>12. CASE AppSendBatch(s)
  <2> DEFINE v == Len(sent[s]) + 1
  <2> DEFINE n == ses[s].ns
  <2> DEFINE q1 == Append(sent[s], n)
  <2> DEFINE q2 == Append(q1, n + 1)
  <2>1. PICK w \in Writable(s) :
           /\ Commit(s, send_batch(Wired(s, w), generate_application(v),
                                   generate_application(v + 1)), Unread(s))
           /\ sent' = [sent EXCEPT ![s] = IF w THEN q2 ELSE q1]
    BY <1>1, <1>12 DEF AppSendBatch
  <2>2. ses[s].st # "none" /\ ses[s].per /\ ~ses[s].rtx.on
    BY <1>3, <1>12 DEF AppSendBatch, AppMaySend, MayInterfere, Ahead, IsEstablished, IsLive,
        Undisturbed
  <2>3. /\ Running(Wired(s, w), b, s) /\ Wired(s, w).per /\ ~Wired(s, w).rtx.on
        /\ Wired(s, w).ns = n /\ Wired(s, w).wire = w
    BY <1>4, <1>6, <2>2
  <2>4. v \in Nat /\ v + 1 \in Nat /\ n \in Nat /\ n + 1 \in Nat /\ n < n + 1
    BY <1>1
  <2> DEFINE u == send_batch(Wired(s, w), generate_application(v), generate_application(v + 1))
  <2>5. IF w THEN Running(u, n + 1, s) ELSE Running(u, n, s)
    BY <1>2, <2>3, <2>4, BatchBeyond
  <2>6. b < n
    BY <1>3, <2>2 DEF Ahead
  <2> HIDE DEF u, v, n
  <2>7. Increasing(q1) /\ LastOf(q1) = n /\ q1 \in Seq(Nat)
    BY <1>1, <1>3, <2>4, <2>6, AppendIncreasing DEF b
  <2> HIDE DEF q1
  <2>8. Increasing(q2) /\ LastOf(q2) = n + 1
    BY <2>4, <2>7, AppendIncreasing
  <2> HIDE DEF q2
  <2>9. CASE ~w
    <3>1. sent' = [sent EXCEPT ![s] = q1] /\ Commit(s, u, Unread(s))
      BY <2>1, <2>9 DEF u
    <3>2. Running(u, LastOf(q1), s) /\ LastOf(q1) \in Int
      BY <2>4, <2>5, <2>7, <2>9
    <3> QED
      BY <2>7, <3>1, <3>2, CommitAhead
  <2>10. CASE w
    <3>1. sent' = [sent EXCEPT ![s] = q2] /\ Commit(s, u, Unread(s))
      BY <2>1, <2>10 DEF u
    <3>2. Running(u, LastOf(q2), s) /\ LastOf(q2) \in Int
      BY <2>4, <2>5, <2>8, <2>10
    <3> QED
      BY <2>8, <3>1, <3>2, CommitAhead
  <2> QED
    BY <1>6, <2>9, <2>10
<1>13. CASE AppLogout(s)
  <2>1. PICK w \in Writable(s) : Commit(s, send(Wired(s, w), Msg("Logout")), Unread(s))
    BY <1>13 DEF AppLogout
  <2>2. ses[s].st # "none" /\ UNCHANGED sent
    BY <1>13 DEF AppLogout, AppMaySend, IsEstablished, IsLive
  <2>3. Running(Wired(s, w), b, s)
    BY <1>4, <1>6, <2>2
  <2>4. Running(send(Wired(s, w), Msg("Logout")), b, s)
    BY <1>2, <2>3, SendAhead, MsgType DEF MsgTypes
  <2> QED
    BY <1>5, <2>1, <2>2, <2>4
<1>14. CASE Tick(s)
  <2>1. PICK w \in Writable(s), due \in BOOLEAN, idle \in BOOLEAN :
           Commit(s, heartbeat_service(Wired(s, w), due, idle), Unread(s))
    BY <1>14 DEF Tick
  <2>2. ses[s].st # "none" /\ ses[s].per /\ UNCHANGED sent
    BY <1>3, <1>14 DEF Tick, Ahead
  <2>3. Running(Wired(s, w), b, s) /\ Wired(s, w).per
    BY <1>4, <1>6, <2>2
  <2>4. Running(heartbeat_service(Wired(s, w), due, idle), b, s)
    BY <1>2, <2>3, HeartbeatAhead
  <2> QED
    BY <1>5, <2>1, <2>2, <2>4
<1>15. CASE TickEnd(s)
  <2>1. /\ ses[s].st # "none" /\ ses[s].per /\ UNCHANGED sent
        /\ Commit(s, TestRequestSent(ses[s]), Unread(s))
    BY <1>3, <1>15 DEF TickEnd, Ahead
  <2>2. Running(ses[s], b, s)
    BY <1>4, <2>1
  <2>3. TestRequestSent(ses[s]) \in Sessions
    BY <1>1, StateType
  <2>4. Running(TestRequestSent(ses[s]), b, s)
    BY <1>1, <2>1, <2>2, <2>3 DEF TestRequestSent, Running, Ahead, Sessions
  <2> QED
    BY <1>5, <2>1, <2>4
<1>16. CASE Crash(s)
  <2>1. Killed(ses[s]) = Fresh(ses[s].role, ses[s].store, ses[s].ctrl)
    BY DEF Killed, Undisturbed
  <2> DEFINE k == Killed(ses[s])
  <2>2. /\ k.role = s /\ k.ctrl = ses[s].ctrl /\ k.st = "none" /\ k.per = (s = "initiator")
        /\ ~k.timer /\ ~k.tr /\ ~k.starting /\ ~k.rtx.on
    BY <1>3, <2>1 DEF Fresh, NoRtx
  <2> HIDE DEF k
  <2>3. Ahead(k, b)
    BY <1>3, <2>2 DEF Ahead, IsEstablished, IsLive
  <2>4. ses' = [ses EXCEPT ![s] = k] /\ sent' = [sent EXCEPT ![s] = sent[s]]
    BY <1>3, <1>16 DEF Crash, k
  <2> QED
    BY <1>3, <2>2, <2>3, <2>4, SideSuffices DEF b
<1>17. CASE CrashInSend(s) \/ SendWhileCounting(s)
  BY <1>17 DEF CrashInSend, SendWhileCounting, Undisturbed
<1> QED
  BY <1>7, <1>8, <1>9, <1>10, <1>11, <1>12, <1>13, <1>14, <1>15, <1>16, <1>17

(* The inductive invariant, for every value of the constants that leaves   *)
(* the engine undisturbed.                                                 *)
THEOREM NumbersStayAhead ==
    ASSUME Undisturbed
    PROVE  Spec => []NumbersAhead
<1>1. Init => NumbersAhead
  <2> SUFFICES ASSUME Init, NEW s \in Roles
               PROVE  /\ ses[s].role = s /\ Increasing(sent[s])
                      /\ Ahead(ses[s], LastOf(sent[s]))
    BY DEF NumbersAhead
  <2>1. ses[s] = Fresh(s, {}, <<0, 0>>) /\ sent[s] = <<>>
    BY DEF Init
  <2>2. Increasing(sent[s]) /\ LastOf(sent[s]) = -1
    BY <2>1 DEF Increasing, LastOf
  <2>3. /\ ses[s].role = s /\ ses[s].ctrl = <<0, 0>> /\ ses[s].st = "none"
        /\ ses[s].per = (s = "initiator") /\ ~ses[s].timer /\ ~ses[s].tr
        /\ ~ses[s].starting /\ ~ses[s].rtx.on
    BY <2>1 DEF Fresh, NoRtx
  <2>4. LastOf(sent[s]) < ses[s].ctrl[1]
    BY <2>2, <2>3
  <2>5. Ahead(ses[s], LastOf(sent[s]))
    BY <2>3, <2>4 DEF Ahead, IsEstablished, IsLive
  <2> QED
    BY <2>2, <2>3, <2>5
<1>2. TypeOK /\ NumbersAhead /\ [Next]_vars => NumbersAhead'
  <2> SUFFICES ASSUME TypeOK, NumbersAhead, [Next]_vars
               PROVE  NumbersAhead'
    OBVIOUS
  <2>1. CASE Connect
    <3> DEFINE i == StartInitiator(ses["initiator"])
    <3> DEFINE a == StartAcceptor(ses["acceptor"])
    <3>1. /\ ses["initiator"] \in Sessions /\ ses["acceptor"] \in Sessions
          /\ sent["initiator"] \in Seq(Nat) /\ sent["acceptor"] \in Seq(Nat)
      BY DEF TypeOK, Roles
    <3>2. ASSUME NEW q \in Seq(Nat)
          PROVE  LastOf(q) \in Int
      <4>1. q # <<>> => q[Len(q)] \in Nat
        BY <3>2
      <4> QED
        BY <4>1 DEF LastOf
    <3>3. /\ Running(i, LastOf(sent["initiator"]), "initiator")
          /\ Running(a, LastOf(sent["acceptor"]), "acceptor")
      BY <3>1, <3>2, StartAhead DEF NumbersAhead, Roles, Undisturbed
    <3>4. Running(Idle(i), LastOf(sent["initiator"]), "initiator")
      <4> HIDE DEF i
      <4> QED
        BY <3>1, <3>2, <3>3, StateAhead
    <3>5. /\ ses'["initiator"] = Idle(i) /\ ses'["acceptor"] = a /\ sent' = sent
      BY <2>1 DEF Connect, TypeOK, Roles
    <3> HIDE DEF i, a
    <3>6. ASSUME NEW s \in Roles
          PROVE  /\ ses'[s].role = s /\ Increasing(sent'[s])
                 /\ Ahead(ses'[s], LastOf(sent'[s]))
      BY <3>3, <3>4, <3>5, <3>6 DEF Running, Roles, NumbersAhead
    <3> QED
      BY <3>6 DEF NumbersAhead
  <2>2. CASE ConnectEnd
    <3> DEFINE t == ses["initiator"]
    <3> DEFINE u == [t EXCEPT !.st = "logon_sent", !.starting = FALSE]
    <3>1. /\ "initiator" \in Roles /\ t \in Sessions /\ t.starting /\ t.role = "initiator"
          /\ Ahead(t, LastOf(sent["initiator"])) /\ Increasing(sent["initiator"])
      BY <2>2 DEF TypeOK, Roles, ConnectEnd, NumbersAhead
    <3>2. ses' = [ses EXCEPT !["initiator"] = u]
          /\ sent' = [sent EXCEPT !["initiator"] = sent["initiator"]]
      BY <2>2, <3>1 DEF ConnectEnd, TypeOK
    <3> HIDE DEF t
    <3>3. u.role = "initiator" /\ Ahead(u, LastOf(sent["initiator"]))
      BY <3>1 DEF Ahead, Sessions, IsEstablished
    <3> HIDE DEF u
    <3> QED
      BY <3>1, <3>2, <3>3, SideSuffices
  <2>3. CASE LinkFail
    BY <2>3 DEF LinkFail, NumbersAhead
  <2>4. CASE \E s \in Roles :
                \/ Receive(s) \/ ResendNext(s) \/ ResendEnd(s) \/ ReaderEOF(s)
                \/ AppSend(s) \/ AppSendBatch(s) \/ AppLogout(s) \/ SendWhileCounting(s)
                \/ Tick(s) \/ TickEnd(s) \/ Crash(s) \/ CrashInSend(s)
    BY <2>4, SideAhead
  <2>5. CASE UNCHANGED vars
    BY <2>5 DEF vars, NumbersAhead
  <2> QED
    BY <2>1, <2>2, <2>3, <2>4, <2>5 DEF Next
<1> QED
  BY <1>1, <1>2, TypeCorrect, PTL DEF Spec

(* No two application messages of a side carry the same number as          *)
(* originals, whatever the bounds on messages, failures, crashes and       *)
(* connections: what makes a resend by number meaningful.                  *)
THEOREM NumbersNotReused ==
    ASSUME Undisturbed
    PROVE  Spec => []NoSeqReuse
<1>1. TypeOK /\ NumbersAhead => NoSeqReuse
  <2> SUFFICES ASSUME TypeOK, NumbersAhead, NEW s \in Roles,
                      NEW v \in DOMAIN sent[s], NEW w \in DOMAIN sent[s], v # w
               PROVE  sent[s][v] # sent[s][w]
    BY DEF NoSeqReuse
  <2>1. sent[s] \in Seq(Nat)
    BY DEF TypeOK
  <2>2. v \in Nat /\ w \in Nat /\ sent[s][v] \in Nat /\ sent[s][w] \in Nat
    BY <2>1
  <2>3. (v < w => sent[s][v] < sent[s][w]) /\ (w < v => sent[s][w] < sent[s][v])
    BY DEF NumbersAhead, Increasing
  <2> QED
    BY <2>2, <2>3
<1> QED
  BY <1>1, TypeCorrect, NumbersStayAhead, PTL

(* A retransmission with PossDupFlag carries the one message that was sent *)
(* under its number: it comes from a record on disk, the record from a     *)
(* message the application sent, and numbers are not used twice.           *)
THEOREM ResendsAreFaithful ==
    ASSUME Undisturbed
    PROVE  Spec => []ResendFaithful
<1>1. TypeOK /\ NumbersAhead /\ RecordsTrue => ResendFaithful
  <2> SUFFICES ASSUME TypeOK, NumbersAhead, RecordsTrue, NEW s \in Roles,
                      NEW i \in DOMAIN chan[s],
                      chan[s][i].type = "App", chan[s][i].dup
               PROVE  LET m == chan[s][i]
                          V == {v \in DOMAIN sent[s] : sent[s][v] = m.seq}
                      IN  m.val \in V /\ \A v \in V : v <= m.val
    BY DEF ResendFaithful
  <2> DEFINE m == chan[s][i]
  <2> DEFINE q == sent[s]
  <2>1. <<m.seq, m.val>> \in Filed(q) /\ m.val # 0 /\ ~AlwaysSeqnumAssign
    BY DEF RecordsTrue, Resent
  <2> HIDE DEF m
  <2>2. m.val \in DOMAIN q /\ q[m.val] = m.seq
    BY <2>1 DEF Filed
  <2>3. ASSUME NEW v \in DOMAIN q, q[v] = m.seq
        PROVE  v <= m.val
    <3>1. q \in Seq(Nat) /\ Increasing(q)
      BY DEF TypeOK, NumbersAhead
    <3>2. v \in Nat /\ m.val \in Nat /\ m.seq \in Nat
      BY <2>2, <2>3, <3>1
    <3>3. m.val < v => q[m.val] < q[v]
      BY <2>2, <3>1 DEF Increasing
    <3> QED
      BY <2>2, <2>3, <3>2, <3>3
  <2> QED
    BY <2>2, <2>3 DEF m
<1> QED
  BY <1>1, TypeCorrect, NumbersStayAhead, RecordsStayTrue, PTL

-----------------------------------------------------------------------------
(* The number after the ones a message takes: what its receiver expects    *)
(* next, having counted it.                                                *)
After(m) == IF m.type = "SequenceReset" THEN m.new ELSE m.seq + 1

(* What an engine writes to another one: nothing it would have to reject,  *)
(* duplicates only of application messages, open-ended resend requests.    *)
Regular(m) ==
    /\ m \in Messages
    /\ m.type \notin {"Reject", "Malformed"}
    /\ m.dup => m.type = "App"
    /\ m.type = "ResendRequest" => m.begin > 0 /\ m.end = 0

(* The receiver that has counted m expects n at most; a logout ends the    *)
(* connection.                                                             *)
Covered(m, n) == m.type # "Logout" => ~m.dup /\ After(m) <= n

(* A resend request is counted when the resend is over.                    *)
Pending(t) == IF t.rtx.on THEN 1 ELSE 0

(* The session and its control record expect a positive number.            *)
Counting(t) == t.nr > 0 /\ (t.ctrl = <<0, 0>> \/ t.ctrl[2] > 0)

LastMsg(c) == c[Len(c)]

(* The connection from a session t to a session r: c is in flight.         *)
Flow(t, r, c) ==
    /\ ~t.closed /\ IsLive(t.st)
    /\ ~IsEstablished(t.st) =>
          /\ ~t.timer /\ ~t.tr /\ ~t.rtx.on
          /\ t.role = "acceptor" => c = <<>> /\ ~IsEstablished(r.st)
    /\ IsEstablished(t.st) /\ ~IsEstablished(r.st) => c # <<>>
    /\ t.starting => t.st = "not_logged_in"
    /\ \A i \in DOMAIN c :
          Regular(c[i]) /\ (c[i].type = "Logon" => i = 1 /\ ~IsEstablished(r.st))
    /\ ~IsEstablished(r.st) /\ c # <<>> => c[1].type = "Logon"
    /\ ~t.rtx.on => /\ c # <<>> => Covered(LastMsg(c), t.ns)
                    /\ c = <<>> /\ IsEstablished(r.st) => r.nr + Pending(r) <= t.ns

(* The inductive invariant.                                                *)
NumbersCovered ==
    \A s \in Roles :
        /\ ses[s].role = s
        /\ Idle(ses[s]) = ses[s]
        /\ Counting(ses[s])
        /\ link => Flow(ses[s], ses[Peer(s)], chan[s])

(* Session t in an operation that session o began, with up telling whether *)
(* the connection was there.                                               *)
Onward(t, o, up) ==
    /\ t \in Sessions
    /\ Counting(t)
    /\ t.role = o.role /\ t.starting = o.starting
    /\ up /\ ~t.closed =>
          /\ t.wire /\ IsEstablished(t.st)
          /\ \A i \in DOMAIN t.out :
                /\ Regular(t.out[i])
                /\ t.out[i].type = "Logon" =>
                      i = 1 /\ ~IsEstablished(o.st) /\ o.role = "acceptor"
          /\ ~t.rtx.on =>
                /\ t.out # <<>> => Covered(LastMsg(t.out), t.ns)
                /\ t.out = <<>> /\ (IsEstablished(o.st) \/ o.role = "initiator") => t.ns = o.ns

(* u has the numbers of t and has written the same.                        *)
SameNumbers(t, u) ==
    /\ u \in Sessions
    /\ u.nr = t.nr /\ u.ns = t.ns /\ u.ctrl = t.ctrl /\ u.out = t.out
    /\ u.role = t.role /\ u.starting = t.starting
    /\ u.rtx.on = t.rtx.on
    /\ ~u.closed => ~t.closed /\ u.wire = t.wire /\ (IsEstablished(t.st) => IsEstablished(u.st))

(* The numbers and the messages written are all that Onward looks at.      *)
LEMMA SameOnward ==
    ASSUME NEW up, NEW o, NEW t, Onward(t, o, up), NEW u, SameNumbers(t, u)
    PROVE  Onward(u, o, up)
<1>1. Counting(u)
  BY DEF Onward, SameNumbers, Counting
<1> QED
  BY <1>1 DEF Onward, SameNumbers

(* Changes of state, exceptions, stop() and the fields used only inside an *)
(* action.                                                                 *)
LEMMA StateOnward ==
    ASSUME NEW up, NEW o, NEW t, Onward(t, o, up)
    PROVE  /\ \A st \in SessionStates : IsEstablished(st) => Onward(do_state_change(t, st), o, up)
           /\ \A e \in Exceptions : Onward(Throw(t, e), o, up)
           /\ Onward(stop(t), o, up)
           /\ Onward([t EXCEPT !.held = TRUE], o, up)
           /\ \A v \in Nat : Onward([t EXCEPT !.got = v], o, up)
           /\ Onward([t EXCEPT !.timer = TRUE], o, up)
           /\ Onward([t EXCEPT !.tr = TRUE], o, up)
<1>1. t \in Sessions
  BY DEF Onward
<1>2. ASSUME NEW st \in SessionStates, IsEstablished(st)
      PROVE  SameNumbers(t, do_state_change(t, st))
  <2>1. do_state_change(t, st) \in Sessions
    BY <1>1, StateType
  <2> QED
    BY <1>1, <1>2, <2>1 DEF SameNumbers, do_state_change, Sessions
<1>3. ASSUME NEW e \in Exceptions
      PROVE  SameNumbers(t, Throw(t, e))
  <2>1. Throw(t, e) \in Sessions
    BY <1>1, StateType
  <2> QED
    BY <1>1, <2>1 DEF SameNumbers, Throw, Sessions
<1>4. SameNumbers(t, stop(t)) \/ stop(t) = t
  <2>1. stop(t) \in Sessions
    BY <1>1, StateType
  <2> QED
    BY <1>1, <2>1 DEF SameNumbers, stop, Sessions
<1>5. /\ SameNumbers(t, [t EXCEPT !.held = TRUE])
      /\ SameNumbers(t, [t EXCEPT !.timer = TRUE])
      /\ SameNumbers(t, [t EXCEPT !.tr = TRUE])
      /\ \A v \in Nat : SameNumbers(t, [t EXCEPT !.got = v])
  BY <1>1 DEF SameNumbers, Sessions
<1> QED
  BY <1>2, <1>3, <1>4, <1>5, SameOnward

(* The number under which session t writes a message.                      *)
Numbered(t, m, custom) == [m EXCEPT !.seq = IF custom # 0 THEN custom ELSE t.ns]

(* Session t became u by writing m, a new message: the control record it   *)
(* leaves has the number expected next.                                    *)
Wrote(t, u, m, custom, noinc) ==
    /\ u \in Sessions /\ Numbered(t, m, custom) \in Messages
    /\ SameLife(t, u) /\ u.nr = t.nr /\ u.closed = t.closed /\ u.shut = t.shut
    /\ u.held = t.held /\ u.got = t.got
    /\ ~t.wire => u = t
    /\ t.wire => /\ u.out = Append(t.out, Numbered(t, m, custom))
                 /\ u.ns = IF custom # 0 \/ noinc \/ m.type = "SequenceReset"
                           THEN t.ns ELSE t.ns + 1
                 /\ u.ctrl = IF t.per THEN <<t.ns + 1, t.nr>> ELSE t.ctrl

(* What send_process does to a session: it numbers, writes and counts.     *)
LEMMA SendExact ==
    ASSUME NEW t \in Sessions, NEW m \in Messages, m.seq = 0, ~m.dup, NEW custom \in Nat,
           NEW noinc \in BOOLEAN
    PROVE  Wrote(t, send_process(t, m, custom, noinc), m, custom, noinc)
<1> DEFINE u == send_process(t, m, custom, noinc)
<1> DEFINE x == Numbered(t, m, custom)
<1> DEFINE w == [t EXCEPT !.out = Append(@, Stamp(t, m, custom))]
<1> DEFINE p == IF m.type = "App" THEN put_message(w, w.ns, m.val) ELSE w
<1> DEFINE c == put_control(p, w.ns + 1, w.nr)
<1> DEFINE n == [c EXCEPT !.ns = @ + 1]
<1>1. u \in Sessions
  BY SendType
<1>2. SameLife(t, t)
  BY DEF SameLife
<1>3. Stamp(t, m, custom) = x /\ x \in Messages /\ ~IsDup(m)
  <2>1. Stamp(t, m, custom) = x /\ ~IsDup(m)
    BY DEF Stamp, IsDup, Messages, Numbered
  <2> QED
    BY <2>1, StampType
<1>4. /\ w \in Sessions /\ SameLife(t, w) /\ w.ns = t.ns /\ w.nr = t.nr /\ w.closed = t.closed
      /\ w.shut = t.shut /\ w.held = t.held /\ w.got = t.got
      /\ w.out = Append(t.out, x) /\ w.ctrl = t.ctrl
  <2>1. Append(t.out, x) \in Seq(Messages)
    BY <1>3 DEF Sessions
  <2> HIDE DEF x
  <2> QED
    BY <1>3, <2>1 DEF SameLife, Sessions
<1> HIDE DEF w
<1>5. /\ p \in Sessions /\ SameLife(w, p) /\ p.ns = w.ns /\ p.nr = w.nr /\ p.closed = w.closed
      /\ p.shut = w.shut /\ p.held = w.held /\ p.got = w.got /\ p.out = w.out /\ p.ctrl = w.ctrl
  <2>1. w.ns \in Nat /\ m.val \in Nat
    BY <1>4, CountType DEF Messages
  <2>2. put_message(w, w.ns, m.val) \in Sessions
    BY <1>4, <2>1, PersisterType
  <2> DEFINE v == put_message(w, w.ns, m.val)
  <2>3. /\ SameLife(w, v) /\ v.ns = w.ns /\ v.nr = w.nr /\ v.closed = w.closed
        /\ v.shut = w.shut /\ v.held = w.held /\ v.got = w.got /\ v.out = w.out
        /\ v.ctrl = w.ctrl
    BY <1>4 DEF put_message, SameLife, Sessions
  <2>4. SameLife(w, w)
    BY DEF SameLife
  <2> HIDE DEF v
  <2> QED
    BY <1>4, <2>2, <2>3, <2>4 DEF v
<1> HIDE DEF p
<1>6. /\ c \in Sessions /\ SameLife(p, c) /\ c.ns = p.ns /\ c.nr = p.nr /\ c.closed = p.closed
      /\ c.shut = p.shut /\ c.held = p.held /\ c.got = p.got /\ c.out = p.out
      /\ c.ctrl = IF p.per THEN <<w.ns + 1, w.nr>> ELSE p.ctrl
  <2>1. w.ns + 1 \in Nat /\ w.nr \in Nat
    BY <1>4, CountType
  <2>2. c \in Sessions
    BY <1>5, <2>1, PersisterType
  <2> QED
    BY ZenonT(30), <1>5, <2>2 DEF put_control, SameLife, Sessions
<1> HIDE DEF c
<1>7. /\ SameLife(c, n) /\ n.ns = c.ns + 1 /\ n.nr = c.nr /\ n.closed = c.closed
      /\ n.shut = c.shut /\ n.held = c.held /\ n.got = c.got /\ n.out = c.out /\ n.ctrl = c.ctrl
  BY <1>6, CountType DEF SameLife, Sessions
<1> HIDE DEF n
<1>8. /\ ~t.wire => u = t
      /\ t.wire => u = IF custom # 0 \/ noinc \/ m.type = "SequenceReset" THEN c ELSE n
  BY <1>3 DEF send_process, Record, w, p, c, n
<1> HIDE DEF u, x
<1>9. /\ SameLife(t, c) /\ c.nr = t.nr /\ c.closed = t.closed /\ c.shut = t.shut
      /\ c.held = t.held /\ c.got = t.got /\ c.out = Append(t.out, x) /\ c.ns = t.ns
  BY <1>4, <1>5, <1>6 DEF SameLife
<1>10. c.ctrl = IF t.per THEN <<t.ns + 1, t.nr>> ELSE t.ctrl
  BY <1>4, <1>5, <1>6 DEF SameLife
<1>11. /\ SameLife(t, n) /\ n.nr = t.nr /\ n.closed = t.closed /\ n.shut = t.shut
       /\ n.held = t.held /\ n.got = t.got /\ n.out = Append(t.out, x)
       /\ n.ns = t.ns + 1 /\ n.ctrl = c.ctrl
  BY <1>7, <1>9 DEF SameLife
<1>12. CASE ~t.wire
  BY <1>1, <1>2, <1>3, <1>8, <1>12 DEF Wrote, x, u
<1>13. CASE t.wire /\ (custom # 0 \/ noinc \/ m.type = "SequenceReset")
  <2>1. u = c
    BY <1>8, <1>13
  <2> QED
    BY <1>1, <1>3, <1>9, <1>10, <1>13, <2>1 DEF Wrote, x, u
<1>14. CASE t.wire /\ ~(custom # 0 \/ noinc \/ m.type = "SequenceReset")
  <2>1. u = n
    BY <1>8, <1>14
  <2> QED
    BY <1>1, <1>3, <1>10, <1>11, <1>14, <2>1 DEF Wrote, x, u
<1> QED
  BY <1>12, <1>13, <1>14

(* Writing a message that the receiver will have counted.                  *)
LEMMA AppendOnward ==
    ASSUME NEW up, NEW o, NEW t, Onward(t, o, up), t.wire,
           NEW u \in Sessions, NEW x, u.out = Append(t.out, x),
           u.role = t.role, u.starting = t.starting, u.closed = t.closed, u.wire = t.wire,
           IsEstablished(t.st) => IsEstablished(u.st), Counting(u), Regular(x),
           x.type = "Logon" => t.out = <<>> /\ ~IsEstablished(o.st) /\ o.role = "acceptor",
           ~u.rtx.on => Covered(x, u.ns)
    PROVE  Onward(u, o, up)
<1>1. t.out \in Seq(Messages) /\ x \in Messages
  BY DEF Onward, Sessions, Regular
<1>2. u.out # <<>> /\ LastMsg(u.out) = x
  BY <1>1 DEF LastMsg
<1>3. ASSUME up, ~u.closed, NEW i \in DOMAIN u.out
      PROVE  /\ Regular(u.out[i])
             /\ u.out[i].type = "Logon" => i = 1 /\ ~IsEstablished(o.st) /\ o.role = "acceptor"
  <2>1. CASE i \in DOMAIN t.out
    <3>1. u.out[i] = t.out[i]
      BY <1>1, <2>1
    <3> QED
      BY <1>3, <2>1, <3>1 DEF Onward
  <2>2. CASE i \notin DOMAIN t.out
    <3>1. u.out[i] = x /\ (t.out = <<>> => i = 1)
      BY <1>1, <1>3, <2>2
    <3> QED
      BY <3>1
  <2> QED
    BY <2>1, <2>2
<1> QED
  BY <1>2, <1>3 DEF Onward

(* Without a connection only the numbers expected matter.                  *)
LEMMA DownOnward ==
    ASSUME NEW up, NEW o, NEW u \in Sessions, Counting(u), u.role = o.role,
           u.starting = o.starting, ~up \/ u.closed
    PROVE  Onward(u, o, up)
BY DEF Onward

(* send_process of a message with a fresh number; only a logout is not     *)
(* counted.                                                                *)
LEMMA SendOnward ==
    ASSUME NEW up, NEW o, NEW t, Onward(t, o, up),
           NEW m \in Messages, m.seq = 0, ~m.dup,
           m.type \notin {"Reject", "Malformed", "SequenceReset"},
           m.type = "ResendRequest" => m.begin > 0 /\ m.end = 0,
           m.type = "Logon" => t.out = <<>> /\ ~IsEstablished(o.st) /\ o.role = "acceptor",
           NEW noinc \in BOOLEAN, noinc => m.type = "Logout"
    PROVE  Onward(send_process(t, m, 0, noinc), o, up)
<1> DEFINE u == send_process(t, m, 0, noinc)
<1> DEFINE x == Numbered(t, m, 0)
<1>1. t \in Sessions /\ t.ns \in Nat /\ t.nr \in Nat /\ Counting(t)
  BY CountType DEF Onward
<1>2. /\ u \in Sessions /\ x \in Messages
      /\ SameLife(t, u) /\ u.nr = t.nr /\ u.closed = t.closed
      /\ ~t.wire => u = t
      /\ t.wire => /\ u.out = Append(t.out, x)
                   /\ u.ns = IF noinc THEN t.ns ELSE t.ns + 1
                   /\ u.ctrl = IF t.per THEN <<t.ns + 1, t.nr>> ELSE t.ctrl
  <2>1. 0 \in Nat
    OBVIOUS
  <2>2. Wrote(t, u, m, 0, noinc)
    BY <1>1, <2>1, SendExact
  <2> HIDE DEF u, x
  <2> QED
    BY <2>2 DEF Wrote, x
<1>3. /\ x.type = m.type /\ ~x.dup /\ x.seq = t.ns /\ x.begin = m.begin /\ x.end = m.end
  BY DEF Messages, Numbered
<1> HIDE DEF u, x
<1>4. CASE ~t.wire
  BY <1>2, <1>4 DEF u
<1>5. CASE t.wire
  <2>1. Counting(u)
    BY <1>1, <1>2, <1>5 DEF Counting
  <2>2. Regular(x)
    BY <1>2, <1>3 DEF Regular
  <2>3. Covered(x, u.ns)
    BY <1>1, <1>2, <1>3, <1>5 DEF Covered, After
  <2>4. Onward(u, o, up)
    BY <1>2, <1>3, <1>5, <2>1, <2>2, <2>3, AppendOnward DEF SameLife
  <2> QED
    BY <2>4 DEF u
<1> QED
  BY <1>4, <1>5

(* Session t fills a gap up to n and takes n over as its next number.      *)
GapFilled(t, n, custom) ==
    [send_process(t, generate_sequence_reset(n), custom, FALSE) EXCEPT !.ns = n]

(* So does a session without a persister, and any at the end of a resend.  *)
LEMMA GapFillOnward ==
    ASSUME NEW up, NEW o, NEW t, Onward(t, o, up), NEW n \in Nat, n > 0, NEW custom \in Nat
    PROVE  /\ Onward(GapFilled(t, n, custom), o, up)
           /\ GapFilled(t, n, custom).nr = t.nr
           /\ GapFilled(t, n, custom).closed = t.closed
           /\ GapFilled(t, n, custom).shut = t.shut
           /\ GapFilled(t, n, custom).exc = t.exc
           /\ GapFilled(t, n, custom).rtx = t.rtx
           /\ t.wire => GapFilled(t, n, custom).out # <<>>
<1> DEFINE m == generate_sequence_reset(n)
<1> DEFINE x == Numbered(t, m, custom)
<1> DEFINE g == send_process(t, m, custom, FALSE)
<1> DEFINE u == [g EXCEPT !.ns = n]
<1>1. t \in Sessions /\ t.ns \in Nat /\ t.nr \in Nat /\ Counting(t)
  BY CountType DEF Onward
<1>2. m \in Messages
  BY GenerateType
<1>3. m.seq = 0 /\ ~m.dup /\ m.type = "SequenceReset" /\ m.new = n
  BY DEF generate_sequence_reset, Msg
<1> HIDE DEF m
<1>4. FALSE \in BOOLEAN
  OBVIOUS
<1>5. /\ g \in Sessions /\ x \in Messages
      /\ SameLife(t, g) /\ g.nr = t.nr /\ g.closed = t.closed /\ g.shut = t.shut
      /\ ~t.wire => g = t
      /\ t.wire => /\ g.out = Append(t.out, x)
                   /\ g.ctrl = IF t.per THEN <<t.ns + 1, t.nr>> ELSE t.ctrl
  <2>1. Wrote(t, g, m, custom, FALSE)
    BY <1>1, <1>2, <1>3, <1>4, SendExact
  <2> HIDE DEF g, x
  <2> QED
    BY <2>1 DEF Wrote, x
<1>6. x.type = m.type /\ ~x.dup /\ x.new = n
  BY <1>2, <1>3 DEF Messages, Numbered
<1> HIDE DEF g, x
<1>7. /\ u \in Sessions /\ u.nr = g.nr /\ u.out = g.out /\ u.ctrl = g.ctrl /\ u.ns = n
      /\ u.closed = g.closed /\ u.role = g.role /\ u.starting = g.starting /\ u.st = g.st
      /\ u.wire = g.wire /\ u.rtx = g.rtx /\ u.exc = g.exc /\ u.shut = g.shut
  BY <1>5 DEF Sessions
<1> HIDE DEF u
<1>8. u.nr = t.nr /\ u.closed = t.closed /\ u.exc = t.exc /\ u.rtx = t.rtx
      /\ u.shut = t.shut
  BY <1>5, <1>7 DEF SameLife
<1>9. CASE ~t.wire
  <2>1. Counting(u)
    BY <1>1, <1>5, <1>7, <1>9 DEF Counting
  <2>2. ~up \/ u.closed
    BY <1>8, <1>9 DEF Onward
  <2>3. u.role = o.role /\ u.starting = o.starting
    BY <1>5, <1>7 DEF SameLife, Onward
  <2>4. Onward(u, o, up)
    BY <1>7, <2>1, <2>2, <2>3, DownOnward
  <2> QED
    BY <1>8, <1>9, <2>4 DEF u, g, m, GapFilled
<1>10. CASE t.wire
  <2>1. Counting(u)
    BY <1>1, <1>5, <1>7, <1>10 DEF Counting
  <2>2. Regular(x)
    BY <1>3, <1>5, <1>6 DEF Regular
  <2>3. Covered(x, u.ns)
    BY <1>3, <1>6, <1>7 DEF Covered, After
  <2>4. u.out = Append(t.out, x)
    BY <1>5, <1>7, <1>10
  <2>5. Onward(u, o, up)
    BY <1>3, <1>5, <1>6, <1>7, <1>10, <2>1, <2>2, <2>3, <2>4, AppendOnward DEF SameLife
  <2>6. u.out # <<>>
    <3>1. t.out \in Seq(Messages) /\ x \in Messages
      BY <1>1, <1>5 DEF Sessions
    <3>2. Len(Append(t.out, x)) = Len(t.out) + 1 /\ Len(t.out) \in Nat
      BY <3>1
    <3>3. Len(u.out) # 0
      BY <2>4, <3>2
    <3> QED
      BY <3>3
  <2> QED
    BY <1>8, <2>5, <2>6 DEF u, g, m, GapFilled
<1> QED
  BY <1>9, <1>10

(* enforce leaves the number expected and the resend alone; a message that *)
(* passes is not behind, unless it is a duplicate.                         *)
LEMMA EnforceExact ==
    ASSUME NEW t \in Sessions, t.exc = "none", NEW m \in Messages, NEW e, e = enforce(t, m)
    PROVE  /\ e \in Sessions
           /\ e.nr = t.nr /\ e.rtx = t.rtx /\ e.closed = t.closed /\ e.role = t.role
           /\ e.shut = t.shut
           /\ t.st # "continuous" => e.out = t.out
           /\ e.exc \in {"none", "logoff"}
           /\ e.wire = t.wire /\ e.per = t.per
           /\ e.exc = "none" /\ IsEstablished(t.st) /\ m.type # "SequenceReset"
                 => m.seq >= t.nr \/ m.dup
<1> DEFINE h == [t EXCEPT !.held = TRUE]
<1> DEFINE q == generate_resend_request(t.nr)
<1> DEFINE g == send(h, q)
<1>1. t.nr \in Nat /\ m.seq \in Nat
  BY CountType DEF Messages
<1>2. q \in Messages
  BY <1>1, GenerateType
<1>3. q.seq = 0 /\ ~q.dup
  BY DEF generate_resend_request, Msg
<1>4. /\ h \in Sessions /\ h.nr = t.nr /\ h.rtx = t.rtx /\ h.closed = t.closed
      /\ h.exc = t.exc /\ h.wire = t.wire /\ h.per = t.per /\ h.role = t.role
      /\ h.shut = t.shut /\ h.out = t.out
  BY DEF Sessions
<1> HIDE DEF h, q
<1>5. 0 \in Nat /\ FALSE \in BOOLEAN
  OBVIOUS
<1>6. /\ g \in Sessions /\ SameLife(h, g) /\ g.nr = h.nr /\ g.closed = h.closed /\ g.shut = h.shut
  <2>1. Wrote(h, g, q, 0, FALSE)
    BY <1>2, <1>3, <1>4, <1>5, SendExact DEF send
  <2> HIDE DEF g
  <2> QED
    BY <2>1 DEF Wrote
<1> HIDE DEF g
<1> DEFINE d == do_state_change(g, "resend_request_sent")
<1>7. /\ d \in Sessions
      /\ d.nr = t.nr /\ d.rtx = t.rtx /\ d.closed = t.closed /\ d.exc = t.exc
      /\ d.wire = t.wire /\ d.per = t.per /\ d.role = t.role /\ d.shut = t.shut
  <2>1. d \in Sessions
    BY <1>6, StateType DEF SessionStates
  <2> QED
    BY ZenonT(30), <1>4, <1>6, <2>1 DEF do_state_change, SameLife, Sessions
<1> DEFINE l == Throw(t, "logoff")
<1>8. /\ l \in Sessions
      /\ l.nr = t.nr /\ l.rtx = t.rtx /\ l.closed = t.closed /\ l.exc = "logoff"
      /\ l.wire = t.wire /\ l.per = t.per /\ l.role = t.role /\ l.shut = t.shut
      /\ l.out = t.out
  <2>1. l \in Sessions
    BY StateType DEF Exceptions
  <2> QED
    BY <2>1 DEF Throw, Sessions
<1> HIDE DEF d, l
<1>9. sequence_check(t, m) =
         CASE m.seq > t.nr /\ t.st = "continuous" -> d
           [] m.seq > t.nr /\ t.st # "continuous" -> IF IgnoreLogonSeqCheck THEN h ELSE l
           [] m.seq < t.nr /\ ~m.dup -> l
           [] OTHER -> t
  BY DEF sequence_check, d, l, h, g, q
<1>10. e = IF IsEstablished(t.st) /\ m.type # "SequenceReset" THEN sequence_check(t, m) ELSE h
  BY DEF enforce, h
<1>11. m.dup \in BOOLEAN
  BY DEF Messages
<1>12. CASE IsEstablished(t.st) /\ m.type # "SequenceReset" /\ m.seq > t.nr
  BY <1>1, <1>4, <1>7, <1>8, <1>9, <1>10, <1>12, FlagsAssumption
<1>13. CASE IsEstablished(t.st) /\ m.type # "SequenceReset" /\ ~(m.seq > t.nr)
  BY <1>1, <1>4, <1>7, <1>8, <1>9, <1>10, <1>11, <1>13
<1>14. CASE ~(IsEstablished(t.st) /\ m.type # "SequenceReset")
  BY <1>4, <1>10, <1>14
<1> QED
  BY <1>12, <1>13, <1>14

(* enforce keeps the session onward: the request it may send begins with   *)
(* the number expected, which is positive.                                 *)
LEMMA EnforceOnward ==
    ASSUME NEW up, NEW o, NEW t, Onward(t, o, up), NEW m \in Messages
    PROVE  Onward(enforce(t, m), o, up)
<1> DEFINE h == [t EXCEPT !.held = TRUE]
<1> DEFINE q == generate_resend_request(t.nr)
<1> DEFINE g == send(h, q)
<1>1. t \in Sessions /\ t.nr \in Nat /\ t.nr > 0
  BY CountType DEF Onward, Counting
<1>2. q \in Messages
  BY <1>1, GenerateType
<1>3. q.seq = 0 /\ ~q.dup /\ q.type = "ResendRequest" /\ q.begin = t.nr /\ q.end = 0
  BY DEF generate_resend_request, Msg
<1>4. Onward(h, o, up)
  BY StateOnward
<1> HIDE DEF h, q
<1>5. Onward(g, o, up)
  BY <1>1, <1>2, <1>3, <1>4, SendOnward DEF send
<1> HIDE DEF g
<1>6. IsEstablished("resend_request_sent") /\ "resend_request_sent" \in SessionStates
      /\ "logoff" \in Exceptions
  BY DEF IsEstablished, IsLive, SessionStates, Exceptions
<1>7. Onward(do_state_change(g, "resend_request_sent"), o, up) /\ Onward(Throw(t, "logoff"), o, up)
  BY <1>5, <1>6, StateOnward
<1>8. Onward(sequence_check(t, m), o, up)
  BY <1>4, <1>7 DEF sequence_check, h, g, q
<1> QED
  BY <1>4, <1>8 DEF enforce, h

(* What a message that is not refused tells the side that reads it: it     *)
(* ends the connection, or it is a retransmission, or the side expects the *)
(* number after it at most.                                                *)
Heard(u, m) ==
    u.closed \/ (m.type # "Logout" /\ (m.dup \/ u.nr + Pending(u) <= After(m)))

(* What the tail of process() makes of a session whose next number is n.   *)
Counted(u, t, n, m) ==
    /\ u.nr = n + 1 /\ u.rtx = t.rtx /\ u.out = t.out
    /\ m.type = "Logout" /\ ~t.shut => u.closed
    /\ t.closed => u.closed

(* The tail of process() counts the message.                               *)
LEMMA FinishOnward ==
    ASSUME NEW up, NEW o, NEW t, Onward(t, o, up), NEW n \in Nat, NEW m
    PROVE  /\ Onward(Finish([t EXCEPT !.nr = n], m), o, up)
           /\ Counted(Finish([t EXCEPT !.nr = n], m), t, n, m)
<1> DEFINE a == [t EXCEPT !.nr = n + 1]
<1> DEFINE p == update_persist_seqnums(a)
<1> DEFINE u == Finish([t EXCEPT !.nr = n], m)
<1>1. t \in Sessions /\ n + 1 \in Nat /\ n + 1 > 0 /\ t.ns \in Nat
  <2>1. n + 1 \in Nat /\ n + 1 > 0
    OBVIOUS
  <2> QED
    BY <2>1, CountType DEF Onward
<1>2. [[t EXCEPT !.nr = n] EXCEPT !.nr = @ + 1] = a
  BY <1>1 DEF Sessions
<1>3. u = IF m.type = "Logout" THEN stop(p) ELSE p
  BY <1>2 DEF Finish
<1> HIDE DEF u
<1>4. a \in Sessions /\ a.nr = n + 1 /\ a.ns = t.ns /\ a.rtx = t.rtx /\ a.role = t.role
      /\ a.starting = t.starting /\ a.closed = t.closed /\ a.wire = t.wire /\ a.st = t.st
      /\ a.out = t.out /\ a.ctrl = t.ctrl /\ a.shut = t.shut
  BY <1>1 DEF Sessions
<1> HIDE DEF a
<1>5. p \in Sessions /\ p.nr = n + 1 /\ p.ns = t.ns /\ p.rtx = t.rtx /\ p.role = t.role
      /\ p.starting = t.starting /\ p.closed = t.closed /\ p.wire = t.wire /\ p.st = t.st
      /\ p.out = t.out /\ p.shut = t.shut
      /\ p.ctrl = IF a.per THEN <<t.ns, n + 1>> ELSE t.ctrl
  <2>1. p \in Sessions
    BY <1>4, PersisterType
  <2> QED
    BY <1>4, <2>1 DEF update_persist_seqnums, put_control, Sessions
<1> HIDE DEF p
<1>6. Counting(p)
  BY <1>1, <1>5 DEF Counting, Onward
<1>7. Onward(p, o, up)
  BY <1>5, <1>6 DEF Onward
<1>8. Onward(stop(p), o, up)
  BY <1>7, StateOnward
<1>9. /\ stop(p).nr = p.nr /\ stop(p).rtx = p.rtx /\ stop(p).out = p.out
      /\ ~p.shut => stop(p).closed
      /\ p.closed => stop(p).closed
  BY <1>5 DEF stop, Sessions
<1>10. CASE m.type = "Logout"
  BY <1>3, <1>5, <1>8, <1>9, <1>10 DEF u, Counted
<1>11. CASE m.type # "Logout"
  BY <1>3, <1>5, <1>7, <1>11 DEF u, Counted
<1> QED
  BY <1>10, <1>11

(* Counting a message that left the number expected alone.                 *)
LEMMA CountOnward ==
    ASSUME NEW up, NEW o, NEW t, Onward(t, o, up), NEW m
    PROVE  Onward(Finish(t, m), o, up) /\ Counted(Finish(t, m), t, t.nr, m)
<1>1. t \in Sessions /\ t.nr \in Nat
  BY CountType DEF Onward
<1>2. [t EXCEPT !.nr = t.nr] = t
  BY <1>1 DEF Sessions
<1> QED
  BY <1>1, <1>2, FinishOnward

(* The catch clauses end the connection.                                   *)
LEMMA ForceLogoffOnward ==
    ASSUME NEW up, NEW o, NEW t, Onward(t, o, up), ~t.shut
    PROVE  Onward(ForceLogoff(t), o, up) /\ ForceLogoff(t).closed
<1> DEFINE g == send_process(t, Msg("Logout"), 0, TRUE)
<1> DEFINE d == do_state_change(g, "logoff_sent")
<1> DEFINE l == IF t.st = "logon_received" /\ ~SilentDisconnect THEN d ELSE t
<1> DEFINE c == [l EXCEPT !.st = IF l.shut THEN @ ELSE "session_terminated", !.closed = TRUE]
<1>1. t \in Sessions /\ TRUE \in BOOLEAN /\ 0 \in Nat /\ "logoff_sent" \in SessionStates
      /\ IsEstablished("logoff_sent")
  BY DEF Onward, SessionStates, IsEstablished, IsLive
<1>2. Msg("Logout") \in Messages
  BY MsgType DEF MsgTypes
<1>3. Msg("Logout").seq = 0 /\ ~Msg("Logout").dup /\ Msg("Logout").type = "Logout"
  BY DEF Msg
<1>4. Onward(g, o, up)
  BY <1>1, <1>2, <1>3, SendOnward
<1>5. g \in Sessions /\ g.shut = t.shut
  <2>1. Wrote(t, g, Msg("Logout"), 0, TRUE)
    BY <1>1, <1>2, <1>3, SendExact
  <2> HIDE DEF g
  <2> QED
    BY <2>1 DEF Wrote
<1> HIDE DEF g
<1>6. Onward(d, o, up) /\ d.shut = t.shut
  BY <1>1, <1>4, <1>5, StateOnward DEF do_state_change, Sessions
<1> HIDE DEF d
<1>7. Onward(l, o, up) /\ ~l.shut /\ l \in Sessions
  BY <1>6 DEF Onward
<1> HIDE DEF l
<1>8. Onward(stop(l), o, up) /\ stop(l).closed
  BY <1>7, StateOnward DEF stop, Sessions
<1>9. c \in Sessions /\ c.closed /\ c.nr = l.nr /\ c.ctrl = l.ctrl /\ c.role = l.role
      /\ c.starting = l.starting
  BY <1>7 DEF Sessions, SessionStates
<1> HIDE DEF c
<1>10. Onward(c, o, up)
  BY <1>7, <1>9 DEF Onward, Counting
<1> QED
  BY <1>8, <1>9, <1>10 DEF ForceLogoff, c, l, d, g

(* What a handler leaves of a message it does not refuse with a logoff: a  *)
(* number that is not behind, and the number expected where it was.        *)
Handled(h, t, m) ==
    /\ h.shut = t.shut /\ h.closed = t.closed
    /\ h.exc \in Exceptions
    /\ h.exc = "other" => m.type = "App"
    /\ h.exc # "logoff" => h.nr = t.nr /\ (m.seq >= t.nr \/ m.dup)
    /\ h.rtx.on => m.type = "ResendRequest"

(* The handlers that send at most a heartbeat.                             *)
LEMMA HandlerOnward ==
    ASSUME NEW up, NEW o, NEW t, Onward(t, o, up), t.exc = "none", ~t.rtx.on,
           IsEstablished(t.st), NEW m \in Messages, m.type # "SequenceReset"
    PROVE  /\ \A outcome : m.type = "App" =>
                  LET h == handle_application(t, m, outcome)
                  IN  Onward(h, o, up) /\ Handled(h, t, m)
           /\ LET h == handle_heartbeat(t, m) IN Onward(h, o, up) /\ Handled(h, t, m)
           /\ LET h == handle_test_request(t, m) IN Onward(h, o, up) /\ Handled(h, t, m)
           /\ LET h == handle_logout(t, m) IN Onward(h, o, up) /\ Handled(h, t, m)
<1> DEFINE e == enforce(t, m)
<1>1. Onward(e, o, up)
  BY EnforceOnward
<1>2. /\ e \in Sessions /\ e.nr = t.nr /\ e.rtx = t.rtx /\ e.closed = t.closed
      /\ e.exc \in {"none", "logoff"} /\ e.shut = t.shut
      /\ e.exc = "none" => m.seq >= t.nr \/ m.dup
  <2>1. t \in Sessions
    BY DEF Onward
  <2> QED
    BY <2>1, EnforceExact
<1>3. Handled(e, t, m)
  BY <1>2 DEF Handled, Exceptions
<1> HIDE DEF e
<1>4. ASSUME NEW outcome, m.type = "App"
      PROVE  LET h == handle_application(t, m, outcome)
             IN  Onward(h, o, up) /\ Handled(h, t, m)
  <2> DEFINE x == Throw(e, "other")
  <2> DEFINE g == [e EXCEPT !.got = m.val]
  <2>1. "other" \in Exceptions /\ m.val \in Nat
    BY DEF Exceptions, Messages
  <2>2. Onward(x, o, up) /\ Onward(g, o, up)
    BY <1>1, <2>1, StateOnward
  <2>3. e.exc = "none" => Handled(x, t, m)
    BY <1>2, <1>4, <2>1 DEF Handled, Throw, Sessions
  <2>4. Handled(g, t, m)
    BY <1>2, <1>3 DEF Handled, Sessions
  <2>5. handle_application(t, m, outcome) =
           IF e.exc # "none" \/ e.held THEN e ELSE IF outcome = "throws" THEN x ELSE g
    BY <1>2 DEF handle_application, e
  <2> HIDE DEF x, g
  <2> DEFINE h == handle_application(t, m, outcome)
  <2> HIDE DEF h
  <2>6. Onward(h, o, up) /\ Handled(h, t, m)
    BY <1>1, <1>3, <2>2, <2>3, <2>4, <2>5 DEF h
  <2> QED
    BY <2>6 DEF h
<1>5. LET h == handle_heartbeat(t, m) IN Onward(h, o, up) /\ Handled(h, t, m)
  <2> DEFINE d == do_state_change(e, "continuous")
  <2>1. "continuous" \in SessionStates /\ IsEstablished("continuous")
    BY DEF SessionStates, IsEstablished, IsLive
  <2>2. Onward(d, o, up)
    BY <1>1, <2>1, StateOnward
  <2>3. Handled(d, t, m)
    BY <1>2, <1>3, <2>1 DEF Handled, do_state_change, Sessions
  <2> HIDE DEF d
  <2> QED
    BY <1>1, <1>3, <2>2, <2>3 DEF handle_heartbeat, e, d
<1>6. LET h == handle_test_request(t, m) IN Onward(h, o, up) /\ Handled(h, t, m)
  <2> DEFINE g == send(e, Msg("Heartbeat"))
  <2>1. Msg("Heartbeat") \in Messages /\ 0 \in Nat /\ FALSE \in BOOLEAN
    BY MsgType DEF MsgTypes
  <2>2. Msg("Heartbeat").seq = 0 /\ ~Msg("Heartbeat").dup /\ Msg("Heartbeat").type = "Heartbeat"
    BY DEF Msg
  <2>3. Onward(g, o, up)
    BY <1>1, <2>1, <2>2, SendOnward DEF send
  <2>4. Wrote(e, g, Msg("Heartbeat"), 0, FALSE)
    BY <1>2, <2>1, <2>2, SendExact DEF send
  <2> HIDE DEF g
  <2>5. g.shut = e.shut /\ g.closed = e.closed /\ g.nr = e.nr /\ g.exc = e.exc /\ g.rtx = e.rtx
    BY <2>4 DEF Wrote, SameLife
  <2>6. Handled(g, t, m)
    BY <1>2, <1>3, <2>5 DEF Handled
  <2> QED
    BY <1>1, <1>3, <2>3, <2>6 DEF handle_test_request, e, g
<1>7. LET h == handle_logout(t, m) IN Onward(h, o, up) /\ Handled(h, t, m)
  BY <1>1, <1>3 DEF handle_logout, e
<1> QED
  BY <1>4, <1>5, <1>6, <1>7

(* A resend request of an engine has a begin, so it is never refused: it   *)
(* is answered by a gap fill or starts the resend.                         *)
LEMMA ResendRequestOnward ==
    ASSUME NEW up, NEW o, NEW t, Onward(t, o, up), t.exc = "none", ~t.rtx.on,
           IsEstablished(t.st), NEW m \in Messages, m.type = "ResendRequest", Regular(m)
    PROVE  LET h == handle_resend_request(t, m) IN Onward(h, o, up) /\ Handled(h, t, m)
<1> DEFINE e == enforce(t, m)
<1> DEFINE nseq == IF m.begin >= e.ns THEN m.begin + 1 ELSE e.ns
<1> DEFINE x == [on |-> TRUE, begin |-> m.begin, interrupted |-> e.ns,
                 last |-> 0, todo |-> StoredRange(e, m.begin, m.end)]
<1> DEFINE g == GapFilled(e, nseq, m.begin)
<1> DEFINE d == [e EXCEPT !.st = "resend_request_received", !.rtx = x]
<1>1. Onward(e, o, up)
  BY EnforceOnward
<1>2. /\ e \in Sessions /\ e.nr = t.nr /\ e.rtx = t.rtx /\ e.closed = t.closed
      /\ e.exc \in {"none", "logoff"} /\ e.shut = t.shut
      /\ e.exc = "none" => m.seq >= t.nr \/ m.dup
  <2>1. t \in Sessions
    BY DEF Onward
  <2> QED
    BY <2>1, EnforceExact
<1> HIDE DEF e
<1>3. Handled(e, t, m)
  BY <1>2 DEF Handled, Exceptions
<1>4. e.ns \in Nat /\ m.begin \in Nat /\ m.begin > 0 /\ m.end = 0
  BY <1>2, CountType DEF Messages, Regular
<1>5. nseq \in Nat /\ nseq > 0
  BY <1>4
<1> HIDE DEF nseq
<1>6. Onward(g, o, up) /\ g.nr = e.nr /\ g.closed = e.closed /\ g.exc = e.exc /\ g.rtx = e.rtx
      /\ g.shut = e.shut
  <2> DEFINE b == m.begin
  <2>1. b \in Nat
    BY <1>4
  <2> HIDE DEF b
  <2> DEFINE f == GapFilled(e, nseq, b)
  <2>2. Onward(f, o, up) /\ f.nr = e.nr /\ f.closed = e.closed /\ f.exc = e.exc
        /\ f.rtx = e.rtx /\ f.shut = e.shut
    BY <1>1, <1>5, <2>1, GapFillOnward
  <2> HIDE DEF f, g
  <2>3. f = g
    BY DEF f, g, b
  <2> QED
    BY <2>2, <2>3
<1> HIDE DEF g
<1>7. Handled(g, t, m)
  BY <1>2, <1>3, <1>6 DEF Handled
<1>8. x \in RetransmissionContext /\ x.on
  BY <1>2, <1>4, RangeType DEF RetransmissionContext
<1> HIDE DEF x
<1>9. /\ d \in Sessions /\ d.nr = e.nr /\ d.ctrl = e.ctrl /\ d.out = e.out /\ d.ns = e.ns
      /\ d.role = e.role /\ d.starting = e.starting /\ d.closed = e.closed /\ d.wire = e.wire
      /\ d.st = "resend_request_received" /\ d.rtx = x /\ d.exc = e.exc /\ d.shut = e.shut
  BY <1>2, <1>8 DEF Sessions, SessionStates
<1> HIDE DEF d
<1>10. IsEstablished(d.st)
  BY <1>9 DEF IsEstablished, IsLive
<1>11. Onward(d, o, up)
  BY <1>1, <1>8, <1>9, <1>10 DEF Onward, Counting
<1>12. Handled(d, t, m)
  BY <1>2, <1>3, <1>8, <1>9 DEF Handled
<1>13. ~((m.begin > m.end /\ m.end # 0) \/ m.begin = 0)
  BY <1>4
<1>14. handle_resend_request(t, m) =
          IF e.exc # "none" \/ e.st = "resend_request_received" THEN e
          ELSE IF ~e.per THEN g ELSE d
  BY <1>13 DEF handle_resend_request, GapFilled, e, nseq, g, d, x
<1> QED
  BY <1>1, <1>3, <1>6, <1>7, <1>11, <1>12, <1>14

(* process() of a message other than a logon or a sequence reset, by a     *)
(* session past the logon.                                                 *)
LEMMA OrdinaryOnward ==
    ASSUME NEW up, NEW o, NEW t, Onward(t, o, up), t.exc = "none", ~t.rtx.on, ~t.shut,
           IsEstablished(t.st), NEW m, Regular(m),
           m.type \notin {"SequenceReset", "Logon"}, NEW outcome
    PROVE  LET u == process(t, m, outcome, "ok") IN Onward(u, o, up) /\ Heard(u, m)
<1> DEFINE h == Dispatch(t, m, outcome, "ok")
<1> DEFINE f == Finish(h, m)
<1> DEFINE u == process(t, m, outcome, "ok")
<1>1. m \in Messages /\ m.seq \in Nat /\ t.nr \in Nat
  BY CountType DEF Regular, Messages, Onward
<1>2. Onward(h, o, up) /\ Handled(h, t, m)
  <2>1. m.type \in {"App", "Heartbeat", "TestRequest", "ResendRequest", "Logout"}
    BY <1>1 DEF Regular, Messages, MsgTypes
  <2> HIDE DEF h
  <2>2. CASE m.type = "App"
    <3>1. h = handle_application(t, m, outcome)
      BY <2>2 DEF Dispatch, h
    <3> QED
      BY <1>1, <2>2, <3>1, HandlerOnward
  <2>3. CASE m.type = "Heartbeat"
    <3>1. h = handle_heartbeat(t, m)
      BY <2>3 DEF Dispatch, h
    <3> QED
      BY <1>1, <2>3, <3>1, HandlerOnward
  <2>4. CASE m.type = "TestRequest"
    <3>1. h = handle_test_request(t, m)
      BY <2>4 DEF Dispatch, h
    <3> QED
      BY <1>1, <2>4, <3>1, HandlerOnward
  <2>5. CASE m.type = "ResendRequest"
    <3>1. h = handle_resend_request(t, m)
      BY <2>5 DEF Dispatch, h
    <3> QED
      BY <1>1, <2>5, <3>1, ResendRequestOnward
  <2>6. CASE m.type = "Logout"
    <3>1. h = handle_logout(t, m)
      BY <2>6 DEF Dispatch, h
    <3> QED
      BY <1>1, <2>6, <3>1, HandlerOnward
  <2> QED
    BY <2>1, <2>2, <2>3, <2>4, <2>5, <2>6
<1> HIDE DEF h
<1>3. After(m) = m.seq + 1
  BY DEF After
<1>4. Onward(ForceLogoff(h), o, up) /\ ForceLogoff(h).closed
  BY <1>2, ForceLogoffOnward DEF Handled
<1>5. /\ Onward(f, o, up) /\ f.nr = h.nr + 1 /\ f.rtx = h.rtx
      /\ m.type = "Logout" => f.closed
  <2>1. Onward(f, o, up) /\ Counted(f, h, h.nr, m)
    BY <1>2, CountOnward
  <2> HIDE DEF f
  <2> QED
    BY <1>2, <2>1 DEF Handled, Counted
<1> HIDE DEF f
<1>6. u = IF h.exc = "logoff" THEN ForceLogoff(h)
          ELSE IF h.exc = "other" \/ h.rtx.on THEN h ELSE f
  BY <1>2 DEF process, Handled, Exceptions, Regular, h, f
<1> HIDE DEF u
<1>7. CASE h.exc = "logoff"
  <2>1. Onward(u, o, up) /\ Heard(u, m)
    BY <1>4, <1>6, <1>7 DEF Heard
  <2> QED
    BY <2>1 DEF u
<1>8. CASE h.exc # "logoff" /\ (h.exc = "other" \/ h.rtx.on)
  <2>1. m.type # "Logout"
    BY <1>2, <1>8 DEF Handled
  <2>2. m.dup \/ h.nr + Pending(h) <= After(m)
    BY <1>1, <1>2, <1>3, <1>8 DEF Handled, Pending
  <2>3. Onward(u, o, up) /\ Heard(u, m)
    BY <1>2, <1>6, <1>8, <2>1, <2>2 DEF Heard
  <2> QED
    BY <2>3 DEF u
<1>9. CASE ~(h.exc = "logoff" \/ h.exc = "other" \/ h.rtx.on)
  <2>1. f.nr = t.nr + 1 /\ ~f.rtx.on /\ (m.seq >= t.nr \/ m.dup)
    BY <1>2, <1>5, <1>9 DEF Handled
  <2>2. m.dup \/ f.nr + Pending(f) <= After(m)
    BY <1>1, <1>3, <2>1 DEF Pending
  <2>3. Onward(u, o, up) /\ Heard(u, m)
    BY <1>5, <1>6, <1>9, <2>2 DEF Heard
  <2> QED
    BY <2>3 DEF u
<1> QED
  BY <1>7, <1>8, <1>9

(* process() of a gap fill: the number it announces is expected next.      *)
LEMMA ResetOnward ==
    ASSUME NEW up, NEW o, NEW t, Onward(t, o, up), t.exc = "none", ~t.rtx.on, ~t.shut,
           IsEstablished(t.st), NEW m, Regular(m), m.type = "SequenceReset", NEW outcome
    PROVE  LET u == process(t, m, outcome, "ok") IN Onward(u, o, up) /\ Heard(u, m)
<1> DEFINE c == IF t.st = "resend_request_sent" THEN do_state_change(t, "continuous") ELSE t
<1> DEFINE n == m.new - 1
<1> DEFINE h == [c EXCEPT !.nr = n]
<1> DEFINE l == Throw(t, "logoff")
<1> DEFINE f == Finish(h, m)
<1> DEFINE u == process(t, m, outcome, "ok")
<1>1. t \in Sessions /\ m \in Messages /\ m.new \in Nat /\ m.new > 0 /\ t.nr \in Nat
  BY CountType DEF Regular, Messages, Onward
<1>2. n \in Nat /\ n + 1 = m.new
  BY <1>1
<1> HIDE DEF n
<1>3. "continuous" \in SessionStates /\ IsEstablished("continuous") /\ "logoff" \in Exceptions
  BY DEF SessionStates, IsEstablished, IsLive, Exceptions
<1>4. Onward(c, o, up) /\ c.exc = "none" /\ c.rtx = t.rtx /\ c \in Sessions
  <2> DEFINE d == do_state_change(t, "continuous")
  <2>1. Onward(d, o, up) /\ d \in Sessions
    BY <1>1, <1>3, StateOnward, StateType
  <2>2. d.exc = t.exc /\ d.rtx = t.rtx
    BY <1>1 DEF do_state_change, Sessions
  <2> HIDE DEF d
  <2> QED
    BY <1>1, <2>1, <2>2 DEF d
<1> HIDE DEF c
<1>5. Onward(l, o, up) /\ l.exc = "logoff" /\ l.shut = t.shut
  BY <1>1, <1>3, StateOnward DEF Throw, Sessions
<1> HIDE DEF l
<1>6. Onward(ForceLogoff(l), o, up) /\ ForceLogoff(l).closed
  BY <1>5, ForceLogoffOnward
<1>7. Onward(f, o, up) /\ f.nr = n + 1 /\ f.rtx = c.rtx
  <2>1. Onward(f, o, up) /\ Counted(f, c, n, m)
    BY <1>2, <1>4, FinishOnward
  <2> HIDE DEF f
  <2> QED
    BY <2>1 DEF Counted
<1>8. h.exc = "none" /\ ~h.rtx.on
  BY <1>4 DEF Sessions
<1>9. Dispatch(t, m, outcome, "ok") = IF m.new >= t.nr THEN h ELSE l
  BY DEF Dispatch, handle_sequence_reset, h, l, c, n
<1> HIDE DEF f, h
<1>10. u = IF m.new >= t.nr THEN f ELSE ForceLogoff(l)
  BY <1>5, <1>8, <1>9 DEF process, f
<1> HIDE DEF u
<1>11. After(m) = m.new
  BY DEF After
<1>12. Heard(f, m)
  BY <1>1, <1>2, <1>4, <1>7, <1>11 DEF Heard, Pending
<1>13. Onward(u, o, up) /\ Heard(u, m)
  BY <1>6, <1>7, <1>10, <1>12 DEF Heard
<1> QED
  BY <1>13 DEF u

(* process() of a logon by a side that is not past its own: the acceptor   *)
(* takes up its numbers, and answers with a logon before anything else.    *)
LEMMA LogonOnward ==
    ASSUME NEW up, NEW t \in Sessions, Counting(t), t.exc = "none", ~t.rtx.on, ~t.shut,
           ~IsEstablished(t.st), t.st # "continuous", t.out = <<>>, up /\ ~t.closed => t.wire,
           NEW m, Regular(m), m.type = "Logon", NEW outcome
    PROVE  LET u == process(t, m, outcome, "ok")
           IN  /\ Onward(u, t, up) /\ Heard(u, m)
               /\ up /\ ~u.closed /\ t.role = "acceptor" => u.out # <<>> /\ u.out[1].type = "Logon"
<1> DEFINE r == do_state_change(t, "logon_received")
<1> DEFINE u == process(t, m, outcome, "ok")
<1>1. m \in Messages /\ m.seq \in Nat /\ m.reset \in BOOLEAN /\ ~m.dup /\ t.nr \in Nat /\ t.nr > 0
  BY CountType DEF Regular, Messages, Counting
<1>2. /\ r \in Sessions /\ Onward(r, t, up) /\ r.exc = "none" /\ ~r.rtx.on /\ ~r.shut
      /\ r.out = <<>> /\ r.st = "logon_received" /\ r.closed = t.closed /\ r.role = t.role
      /\ r.wire = t.wire /\ r.starting = t.starting /\ r.nr = t.nr /\ r.ctrl = t.ctrl /\ r.ns = t.ns
  <2>1. r \in Sessions
    BY StateType DEF SessionStates
  <2>2. /\ r.exc = "none" /\ ~r.rtx.on /\ ~r.shut
        /\ r.out = <<>> /\ r.st = "logon_received" /\ r.closed = t.closed /\ r.role = t.role
        /\ r.wire = t.wire /\ r.starting = t.starting /\ r.nr = t.nr /\ r.ctrl = t.ctrl
        /\ r.ns = t.ns
    BY DEF do_state_change, Sessions
  <2> HIDE DEF r
  <2>3. IsEstablished(r.st)
    BY <2>2 DEF IsEstablished, IsLive
  <2>4. Onward(r, t, up)
    BY <2>1, <2>2, <2>3 DEF Onward, Counting
  <2> QED
    BY <2>1, <2>2, <2>4
<1> HIDE DEF r
<1>3. After(m) = m.seq + 1
  BY DEF After
<1>4. IsEstablished("logon_received") /\ IsEstablished("continuous")
      /\ "continuous" \in SessionStates
  BY DEF IsEstablished, IsLive, SessionStates
<1> DEFINE h == Dispatch(t, m, outcome, "ok")
<1> DEFINE Fit(k) == /\ Onward(k, t, up) /\ ~k.rtx.on /\ ~k.shut /\ k.exc \in {"none", "logoff"}
                     /\ k.exc = "none" => k.nr <= m.seq
                     /\ up /\ ~k.closed /\ k.exc = "none" /\ t.role = "acceptor"
                           => k.out # <<>> /\ k.out[1].type = "Logon"
<1>5. ASSUME Fit(h)
      PROVE  /\ Onward(u, t, up) /\ Heard(u, m)
             /\ up /\ ~u.closed /\ t.role = "acceptor" => u.out # <<>> /\ u.out[1].type = "Logon"
  <2> HIDE DEF h
  <2> DEFINE f == Finish(h, m)
  <2>1. Onward(ForceLogoff(h), t, up) /\ ForceLogoff(h).closed
    BY <1>5, ForceLogoffOnward
  <2>2. Onward(f, t, up) /\ Counted(f, h, h.nr, m)
    BY <1>5, CountOnward
  <2> HIDE DEF f
  <2>3. u = IF h.exc = "logoff" THEN ForceLogoff(h) ELSE f
    BY <1>5 DEF process, f, h
  <2> HIDE DEF u
  <2>4. CASE h.exc = "logoff"
    BY <2>1, <2>3, <2>4 DEF Heard
  <2>5. CASE h.exc = "none"
    <3>1. h.nr \in Nat
      BY <1>5, CountType DEF Onward
    <3>2. f.nr + Pending(f) <= After(m)
      BY <1>1, <1>3, <1>5, <2>2, <2>5, <3>1 DEF Pending, Counted
    <3>3. Heard(f, m)
      BY <3>2 DEF Heard
    <3> QED
      BY <1>5, <2>2, <2>3, <2>5, <3>3 DEF Counted
  <2> QED
    BY <1>5, <2>4, <2>5
<1> HIDE DEF h, u, Fit
<1>6. h = IF t.role = "initiator" THEN LogonInitiator(r, m, "ok") ELSE LogonAcceptor(r, m, "ok")
  BY DEF Dispatch, handle_logon, r, h
<1>7. CASE t.role = "initiator"
  <2> DEFINE e == enforce(r, m)
  <2> DEFINE d == [e EXCEPT !.st = "continuous", !.timer = TRUE]
  <2>1. Onward(e, t, up)
    BY <1>1, <1>2, EnforceOnward
  <2>2. /\ e \in Sessions /\ e.nr = r.nr /\ ~e.rtx.on /\ e.exc \in {"none", "logoff"} /\ ~e.shut
        /\ e.exc = "none" => e.nr <= m.seq
    BY <1>1, <1>2, <1>4, EnforceExact
  <2> HIDE DEF e
  <2>3. SameNumbers(e, d) /\ d.exc = e.exc /\ d.rtx = e.rtx /\ d.shut = e.shut
    BY <1>4, <2>2 DEF SameNumbers, Sessions
  <2> HIDE DEF d
  <2>4. Onward(d, t, up) /\ d.nr = e.nr
    BY <2>1, <2>3, SameOnward DEF SameNumbers
  <2>5. h = IF e.exc = "none" THEN d ELSE e
    BY <1>6, <1>7 DEF LogonInitiator, e, d
  <2> QED
    <3>1. Fit(d) /\ (e.exc # "none" => Fit(e))
      BY <1>7, <2>1, <2>2, <2>3, <2>4 DEF Fit
    <3>2. Fit(h)
      BY <2>5, <3>1
    <3> QED
      BY <1>5, <3>2 DEF u
<1>8. CASE t.role = "acceptor"
  <2> DEFINE a == AttachPersister(r, m)
  <2> DEFINE b == IF m.reset THEN [a EXCEPT !.ns = 1, !.nr = 1] ELSE recover_seqnums(a)
  <2> DEFINE e == enforce(b, m)
  <2> DEFINE g == send(e, generate_logon("acceptor"))
  <2> DEFINE c == do_state_change(g, "continuous")
  <2> DEFINE d == [c EXCEPT !.timer = TRUE]
  <2>1. /\ a \in Sessions /\ a.exc = "none" /\ ~a.rtx.on /\ ~a.shut /\ a.out = <<>>
        /\ a.st = "logon_received" /\ a.closed = t.closed /\ a.role = t.role /\ a.wire = t.wire
        /\ a.starting = t.starting /\ a.nr = t.nr /\ a.ctrl \in {t.ctrl, <<0, 0>>}
    <3>1. a \in Sessions
      BY <1>1, <1>2, AttachType, MessagesReceived
    <3> QED
      BY <1>1, <1>2, <3>1 DEF AttachPersister, Sessions
  <2> HIDE DEF a
  <2>2. /\ b \in Sessions /\ b.exc = "none" /\ ~b.rtx.on /\ ~b.shut /\ b.out = <<>>
        /\ b.st = "logon_received" /\ b.closed = t.closed /\ b.role = t.role /\ b.wire = t.wire
        /\ b.starting = t.starting
        /\ b.nr \in {1, t.nr, a.ctrl[2]} /\ b.ctrl = a.ctrl
        /\ b.nr = a.ctrl[2] => b.nr \in {1, t.nr} \/ a.ctrl # <<0, 0>>
    <3>1. b \in Sessions
      <4>1. [a EXCEPT !.ns = 1, !.nr = 1] \in Sessions
        BY <2>1 DEF Sessions
      <4> QED
        BY <2>1, <4>1, PersisterType
    <3>2. CASE m.reset
      BY <2>1, <3>1, <3>2 DEF Sessions
    <3>3. CASE ~m.reset
      BY <2>1, <3>1, <3>3 DEF recover_seqnums, Sessions
    <3> QED
      BY <3>2, <3>3
  <2> HIDE DEF b
  <2>3. Counting(b)
    BY <1>1, <2>1, <2>2 DEF Counting
  <2>4. Onward(b, t, up)
    BY <1>4, <1>8, <2>2, <2>3 DEF Onward
  <2>5. Onward(e, t, up)
    BY <1>1, <2>4, EnforceOnward
  <2>6. /\ e \in Sessions /\ e.nr = b.nr /\ ~e.rtx.on /\ e.exc \in {"none", "logoff"} /\ ~e.shut
        /\ e.exc = "none" => e.nr <= m.seq
        /\ e.out = <<>> /\ e.closed = b.closed /\ e.wire = b.wire
    BY <1>1, <1>4, <2>2, EnforceExact
  <2> HIDE DEF e
  <2>7. /\ generate_logon("acceptor") \in Messages /\ generate_logon("acceptor").seq = 0
        /\ ~generate_logon("acceptor").dup /\ generate_logon("acceptor").type = "Logon"
        /\ 0 \in Nat /\ FALSE \in BOOLEAN
    BY GenerateType DEF generate_logon, Msg, Roles
  <2>8. Onward(g, t, up)
    BY <1>8, <2>5, <2>6, <2>7, SendOnward DEF send
  <2>9. Wrote(e, g, generate_logon("acceptor"), 0, FALSE)
    BY <2>6, <2>7, SendExact DEF send
  <2> HIDE DEF g
  <2> DEFINE x == Numbered(e, generate_logon("acceptor"), 0)
  <2>10. x.type = "Logon"
    BY <2>7 DEF Numbered, Messages
  <2>11. /\ g \in Sessions /\ g.nr = e.nr /\ g.rtx = e.rtx /\ g.exc = e.exc /\ g.shut = e.shut
         /\ g.closed = e.closed
         /\ e.wire => g.out = Append(<<>>, x)
    BY <2>6, <2>9 DEF Wrote, SameLife
  <2> HIDE DEF x
  <2>12. e.wire => g.out # <<>> /\ g.out[1].type = "Logon"
    <3>1. Append(<<>>, x) = <<x>>
      OBVIOUS
    <3>2. e.wire => g.out = <<x>>
      BY <2>11, <3>1
    <3> QED
      BY <2>10, <3>2, <<x>> # <<>>, <<x>>[1] = x
  <2>13. /\ Onward(c, t, up) /\ c \in Sessions /\ c.nr = g.nr /\ c.rtx = g.rtx /\ c.exc = g.exc
         /\ c.shut = g.shut /\ c.closed = g.closed /\ c.out = g.out
    <3>1. Onward(c, t, up) /\ c \in Sessions
      BY <1>4, <2>8, <2>11, StateOnward, StateType
    <3> QED
      BY <2>11, <3>1 DEF do_state_change, Sessions
  <2> HIDE DEF c
  <2>14. /\ Onward(d, t, up) /\ d.nr = c.nr /\ d.rtx = c.rtx /\ d.exc = c.exc
         /\ d.shut = c.shut /\ d.closed = c.closed /\ d.out = c.out
    BY <2>13, StateOnward DEF Sessions
  <2> HIDE DEF d
  <2>15. h = IF e.exc = "none" THEN d ELSE e
    BY <1>2, <1>6, <1>8 DEF LogonAcceptor, e, d, c, g, b, a
  <2>16. CASE e.exc = "none"
    <3>1. ~d.rtx.on /\ ~d.shut /\ d.exc = "none" /\ d.nr <= m.seq
      BY <2>6, <2>11, <2>13, <2>14, <2>16
    <3>2. up /\ ~d.closed => d.out # <<>> /\ d.out[1].type = "Logon"
      <4>1. d.closed = t.closed /\ e.wire = t.wire /\ d.out = g.out
        BY <2>2, <2>6, <2>11, <2>13, <2>14
      <4> QED
        BY <2>12, <4>1
    <3> QED
      <4>1. Fit(d)
        BY <2>14, <3>1, <3>2 DEF Fit
      <4> QED
        BY <1>5, <2>15, <2>16, <4>1 DEF u
  <2>17. CASE e.exc = "logoff"
    <3>1. Fit(e)
      BY <2>5, <2>6, <2>17 DEF Fit
    <3> QED
      BY <1>5, <2>15, <2>17, <3>1 DEF u
  <2> QED
    BY <2>6, <2>16, <2>17
<1>9. t.role \in {"initiator", "acceptor"}
  BY DEF Sessions, Roles
<1> QED
  BY <1>7, <1>8, <1>9 DEF u

(* send of a stored message: a duplicate is neither filed nor counted, one *)
(* that always_seqnum_assign renumbers is.                                 *)
LEMMA ResendExact ==
    ASSUME NEW t \in Sessions, NEW m \in Messages
    PROVE  LET u == send(t, m)
           IN  /\ u \in Sessions /\ Stamp(t, m, 0) \in Messages
               /\ SameLife(t, u) /\ u.nr = t.nr /\ u.closed = t.closed
               /\ u.ctrl \in {t.ctrl, <<t.ns + 1, t.nr>>}
               /\ ~t.wire => u = t
               /\ t.wire => u.out = Append(t.out, Stamp(t, m, 0))
<1> DEFINE x == Stamp(t, m, 0)
<1> DEFINE w == [t EXCEPT !.out = Append(@, x)]
<1> DEFINE p == IF m.type = "App" THEN put_message(w, w.ns, m.val) ELSE w
<1> DEFINE c == put_control(p, w.ns + 1, w.nr)
<1> DEFINE n == [c EXCEPT !.ns = @ + 1]
<1> DEFINE u == send(t, m)
<1>1. u \in Sessions
  BY SimpleSendType
<1>2. x \in Messages
  BY StampType
<1> HIDE DEF x
<1>3. SameLife(t, t)
  BY DEF SameLife
<1>4. /\ w \in Sessions /\ SameLife(t, w) /\ w.ns = t.ns /\ w.nr = t.nr /\ w.closed = t.closed
      /\ w.out = Append(t.out, x) /\ w.ctrl = t.ctrl
  <2>1. Append(t.out, x) \in Seq(Messages)
    BY <1>2 DEF Sessions
  <2> QED
    BY <2>1 DEF SameLife, Sessions
<1> HIDE DEF w
<1>5. /\ p \in Sessions /\ SameLife(w, p) /\ p.ns = w.ns /\ p.nr = w.nr /\ p.closed = w.closed
      /\ p.out = w.out /\ p.ctrl = w.ctrl
  <2> DEFINE v == put_message(w, w.ns, m.val)
  <2>1. w.ns \in Nat /\ m.val \in Nat
    BY <1>4, CountType DEF Messages
  <2>2. v \in Sessions
    BY <1>4, <2>1, PersisterType
  <2>3. SameLife(w, v) /\ v.ns = w.ns /\ v.nr = w.nr /\ v.closed = w.closed /\ v.out = w.out
        /\ v.ctrl = w.ctrl
    BY <1>4 DEF put_message, SameLife, Sessions
  <2>4. SameLife(w, w)
    BY DEF SameLife
  <2> HIDE DEF v
  <2> QED
    BY <1>4, <2>2, <2>3, <2>4 DEF v
<1> HIDE DEF p
<1>6. /\ c \in Sessions /\ SameLife(p, c) /\ c.ns = p.ns /\ c.nr = p.nr /\ c.closed = p.closed
      /\ c.out = p.out /\ c.ctrl \in {p.ctrl, <<w.ns + 1, w.nr>>}
  <2>1. w.ns + 1 \in Nat /\ w.nr \in Nat
    BY <1>4, CountType
  <2>2. c \in Sessions
    BY <1>5, <2>1, PersisterType
  <2> QED
    BY <1>5, <2>2 DEF put_control, SameLife, Sessions
<1> HIDE DEF c
<1>7. SameLife(c, n) /\ n.nr = c.nr /\ n.closed = c.closed /\ n.out = c.out /\ n.ctrl = c.ctrl
  BY <1>6, CountType DEF SameLife, Sessions
<1> HIDE DEF n
<1>8. /\ ~t.wire => u = t
      /\ t.wire => u = IF IsDup(m) THEN w
                       ELSE IF m.type = "SequenceReset" THEN c ELSE n
  BY DEF send, send_process, Record, w, p, c, n, x
<1> HIDE DEF u
<1>9. SameLife(t, p) /\ SameLife(t, c) /\ SameLife(t, n)
  BY <1>4, <1>5, <1>6, <1>7 DEF SameLife
<1>10. CASE ~t.wire
  BY <1>1, <1>2, <1>3, <1>8, <1>10 DEF u, x
<1>11. CASE t.wire /\ IsDup(m)
  <2>1. u = w
    BY <1>8, <1>11
  <2> QED
    BY <1>1, <1>2, <1>4, <1>11, <2>1 DEF u, x
<1>12. CASE t.wire /\ ~IsDup(m) /\ m.type = "SequenceReset"
  <2>1. u = c
    BY <1>8, <1>12
  <2> QED
    BY <1>1, <1>2, <1>4, <1>5, <1>6, <1>9, <1>12, <2>1 DEF u, x
<1>13. CASE t.wire /\ ~IsDup(m) /\ m.type # "SequenceReset"
  <2>1. u = n
    BY <1>8, <1>13
  <2> QED
    BY <1>1, <1>2, <1>4, <1>5, <1>6, <1>7, <1>9, <1>13, <2>1 DEF u, x
<1> QED
  BY <1>10, <1>11, <1>12, <1>13

(* While a resend is served, what it writes need not be covered yet.       *)
LEMMA ResendStepOnward ==
    ASSUME NEW up, NEW o, NEW t, Onward(t, o, up), t.rtx.on,
           NEW record \in Nat \X Nat, record[1] # 0, record[2] # 0
    PROVE  LET u == ResendStep(t, record)
           IN  Onward(u, o, up) /\ u.nr = t.nr /\ u.rtx.on
<1> DEFINE q == record[1]
<1> DEFINE hole == IF t.rtx.last # 0 THEN t.rtx.last + 1 < q ELSE q > t.rtx.begin
<1> DEFINE k == IF t.rtx.last # 0 THEN t.ns ELSE 0
<1> DEFINE a == generate_sequence_reset(q)
<1> DEFINE w == send_process(t, a, k, FALSE)
<1> DEFINE g == IF hole THEN w ELSE t
<1> DEFINE m == [generate_application(record[2]) EXCEPT !.seq = q]
<1> DEFINE r == send(g, m)
<1> DEFINE u == ResendStep(t, record)
<1>1. t \in Sessions /\ t.ns \in Nat /\ t.nr \in Nat /\ Counting(t) /\ q \in Nat /\ q > 0
      /\ record[2] \in Nat
  <2>1. q \in Nat /\ q > 0 /\ record[2] \in Nat
    OBVIOUS
  <2> QED
    BY <2>1, CountType DEF Onward
<1>2. u = [r EXCEPT !.rtx.last = q, !.rtx.todo = IF t.wire THEN @ \ {q} ELSE {}]
  BY DEF ResendStep
<1>3. u \in Sessions
  BY <1>1, ResendStepType
<1> HIDE DEF u, q, hole
<1>4. a \in Messages /\ a.seq = 0 /\ ~a.dup /\ a.type = "SequenceReset" /\ k \in Nat
      /\ FALSE \in BOOLEAN
  <2>1. a \in Messages /\ k \in Nat
    BY <1>1, GenerateType
  <2> QED
    BY <2>1 DEF generate_sequence_reset, Msg
<1>5. m \in Messages /\ m.type = "App"
  BY <1>1 DEF generate_application, Msg, Messages, MsgTypes
<1> HIDE DEF a, k, m
<1>6. Wrote(t, w, a, k, FALSE)
  BY <1>1, <1>4, SendExact
<1> HIDE DEF w
<1>7. Onward(w, o, up) /\ w.nr = t.nr /\ w.rtx = t.rtx /\ w.wire = t.wire
  <2> DEFINE x == Numbered(t, a, k)
  <2>1. x \in Messages /\ x.type = "SequenceReset" /\ ~x.dup
    BY <1>4, <1>6 DEF Numbered, Wrote, Messages
  <2>2. Regular(x)
    BY <2>1 DEF Regular
  <2> HIDE DEF x
  <2>3. w.nr = t.nr /\ w.rtx = t.rtx /\ w.wire = t.wire
    BY <1>6 DEF Wrote, SameLife
  <2>4. CASE t.wire
    <3>1. w.out = Append(t.out, x) /\ w \in Sessions /\ Counting(w)
      BY <1>1, <1>6, <2>4 DEF Wrote, Counting, x
    <3>2. /\ w.role = t.role /\ w.starting = t.starting /\ w.closed = t.closed /\ w.wire = t.wire
          /\ w.st = t.st /\ w.rtx.on
      BY <1>6 DEF Wrote, SameLife
    <3>3. Onward(w, o, up)
      BY <2>1, <2>2, <2>4, <3>1, <3>2, AppendOnward
    <3> QED
      BY <2>3, <3>3
  <2>5. CASE ~t.wire
    BY <1>6, <2>3, <2>5 DEF Wrote
  <2> QED
    BY <2>4, <2>5
<1>8. Onward(g, o, up) /\ g.nr = t.nr /\ g.rtx = t.rtx /\ g \in Sessions
  BY <1>1, <1>7 DEF Onward
<1> HIDE DEF g
<1>9. /\ r \in Sessions /\ Stamp(g, m, 0) \in Messages
      /\ SameLife(g, r) /\ r.nr = g.nr /\ r.closed = g.closed
      /\ r.ctrl \in {g.ctrl, <<g.ns + 1, g.nr>>}
      /\ ~g.wire => r = g
      /\ g.wire => r.out = Append(g.out, Stamp(g, m, 0))
  BY <1>5, <1>8, ResendExact
<1> HIDE DEF r
<1>10. Onward(r, o, up) /\ r.nr = t.nr /\ r.rtx = t.rtx
  <2> DEFINE x == Stamp(g, m, 0)
  <2>1. Regular(x) /\ x.type = "App"
    <3>1. x.type = m.type
      BY <1>5 DEF Stamp, Messages
    <3> QED
      BY <1>5, <1>9, <3>1 DEF Regular
  <2> HIDE DEF x
  <2>2. r.nr = t.nr /\ r.rtx = t.rtx
    BY <1>8, <1>9 DEF SameLife
  <2>3. CASE g.wire
    <3>1. Counting(r)
      <4>1. g.nr \in Nat /\ g.ns + 1 \in Nat /\ Counting(g)
        BY <1>8, CountType DEF Onward
      <4> QED
        BY <1>9, <4>1 DEF Counting
    <3>2. /\ r.role = g.role /\ r.starting = g.starting /\ r.closed = g.closed /\ r.wire = g.wire
          /\ r.st = g.st /\ r.rtx.on
      BY <1>8, <1>9 DEF SameLife
    <3>3. r.out = Append(g.out, x)
      BY <1>9, <2>3 DEF x
    <3>4. Onward(r, o, up)
      BY <1>8, <1>9, <2>1, <2>3, <3>1, <3>2, <3>3, AppendOnward
    <3> QED
      BY <2>2, <3>4
  <2>4. CASE ~g.wire
    BY <1>8, <1>9, <2>2, <2>4
  <2> QED
    BY <2>3, <2>4
<1>11. SameNumbers(r, u) /\ u.rtx.on
  <2>1. r.rtx.on /\ r.rtx \in RetransmissionContext
    BY <1>9, <1>10 DEF Sessions
  <2> QED
    BY <1>2, <1>3, <1>9, <2>1 DEF SameNumbers, Sessions, RetransmissionContext
<1>12. Onward(u, o, up) /\ u.nr = t.nr
  BY <1>10, <1>11, SameOnward DEF SameNumbers
<1> QED
  BY <1>11, <1>12 DEF u

(* The end of a resend counts the request, which was pending, and writes   *)
(* the gap fill that covers all the resend wrote.                          *)
LEMMA ResendDoneOnward ==
    ASSUME NEW up, NEW o, NEW t, Onward(t, o, up), t.rtx.on
    PROVE  LET u == ResendDone(t)
           IN  Onward(u, o, up) /\ u.nr = t.nr + 1 /\ ~u.rtx.on
               /\ (up /\ ~u.closed => u.out # <<>>)
<1> DEFINE from == IF t.rtx.last = 0 THEN t.rtx.begin ELSE t.rtx.last + 1
<1> DEFINE nseq == IF from >= t.rtx.interrupted THEN from + 1 ELSE t.rtx.interrupted
<1> DEFINE a == generate_sequence_reset(nseq)
<1> DEFINE r == send_process(t, a, from, FALSE)
<1> DEFINE d == [r EXCEPT !.ns = nseq, !.st = "continuous", !.rtx = NoRtx]
<1> DEFINE u == Finish(d, Msg("ResendRequest"))
<1>1. t \in Sessions /\ t.ns \in Nat /\ t.nr \in Nat /\ Counting(t)
  BY CountType DEF Onward
<1>2. t.rtx.last \in Nat /\ t.rtx.begin \in Nat /\ t.rtx.interrupted \in Nat
  BY <1>1 DEF Sessions, RetransmissionContext
<1>3. from \in Nat
  BY <1>2
<1>4. ResendDone(t) = u
  BY DEF ResendDone
<1> HIDE DEF from
<1>5. nseq \in Nat /\ nseq > 0
  BY <1>2, <1>3
<1> HIDE DEF nseq
<1>6. a \in Messages /\ a.seq = 0 /\ ~a.dup /\ a.type = "SequenceReset" /\ a.new = nseq
      /\ FALSE \in BOOLEAN
  <2>1. a \in Messages
    BY <1>5, GenerateType
  <2> QED
    BY <2>1 DEF generate_sequence_reset, Msg
<1> HIDE DEF a
<1>7. Wrote(t, r, a, from, FALSE)
  BY <1>1, <1>3, <1>6, SendExact
<1> HIDE DEF r
<1>8. NoRtx \in RetransmissionContext /\ ~NoRtx.on
  BY DEF NoRtx, RetransmissionContext
<1>9. /\ d \in Sessions /\ d.nr = r.nr /\ d.out = r.out /\ d.ctrl = r.ctrl /\ d.ns = nseq
      /\ d.closed = r.closed /\ d.role = r.role /\ d.starting = r.starting
      /\ d.st = "continuous" /\ d.wire = r.wire /\ d.rtx = NoRtx
  BY <1>5, <1>7, <1>8 DEF Wrote, Sessions, SessionStates
<1> HIDE DEF d
<1>10. IsEstablished(d.st)
  BY <1>9 DEF IsEstablished, IsLive
<1>11. Onward(d, o, up) /\ d.nr = t.nr /\ d.closed = t.closed
  <2>1. d.nr = t.nr /\ d.closed = t.closed
    BY <1>7, <1>9 DEF Wrote
  <2>2. CASE t.wire
    <3> DEFINE x == Numbered(t, a, from)
    <3>1. x \in Messages /\ x.type = "SequenceReset" /\ ~x.dup /\ x.new = nseq
      BY <1>6, <1>7 DEF Numbered, Wrote, Messages
    <3>2. Regular(x) /\ Covered(x, d.ns)
      BY <1>5, <1>9, <3>1 DEF Regular, Covered, After
    <3> HIDE DEF x
    <3>3. d.out = Append(t.out, x) /\ Counting(d)
      BY <1>1, <1>7, <1>9, <2>2 DEF Wrote, Counting, x
    <3>4. /\ d.role = t.role /\ d.starting = t.starting /\ d.closed = t.closed
          /\ d.wire = t.wire
      BY <1>7, <1>9 DEF Wrote, SameLife
    <3>5. Onward(d, o, up)
      BY <1>9, <1>10, <2>2, <3>1, <3>2, <3>3, <3>4, AppendOnward
    <3> QED
      BY <2>1, <3>5
  <2>3. CASE ~t.wire
    <3>1. Counting(d) /\ d.role = o.role /\ d.starting = o.starting
      BY <1>1, <1>7, <1>9, <2>3 DEF Wrote, Counting, Onward
    <3>2. ~up \/ d.closed
      BY <2>1, <2>3 DEF Onward
    <3>3. Onward(d, o, up)
      BY <1>9, <3>1, <3>2, DownOnward
    <3> QED
      BY <2>1, <3>3
  <2> QED
    BY <2>2, <2>3
<1>12. Onward(u, o, up) /\ Counted(u, d, d.nr, Msg("ResendRequest"))
  BY <1>11, CountOnward
<1> HIDE DEF u
<1>13. u.nr = t.nr + 1 /\ ~u.rtx.on
  BY <1>8, <1>9, <1>11, <1>12 DEF Counted
<1>14. up /\ ~u.closed => u.out # <<>>
  <2>1. ASSUME up, ~u.closed
        PROVE  u.out # <<>>
    <3>1. ~t.closed /\ t.wire
      BY <1>11, <1>12, <2>1 DEF Counted, Onward
    <3>2. u.out = Append(t.out, Numbered(t, a, from)) /\ Numbered(t, a, from) \in Messages
      BY <1>7, <1>9, <1>12, <3>1 DEF Counted, Wrote
    <3>3. t.out \in Seq(Messages)
      BY <1>1 DEF Sessions
    <3> DEFINE x == Numbered(t, a, from)
    <3> HIDE DEF x
    <3>4. Len(Append(t.out, x)) = Len(t.out) + 1 /\ Len(t.out) \in Nat
      BY <3>2, <3>3 DEF x
    <3>5. Len(u.out) # 0
      BY <3>2, <3>4 DEF x
    <3> QED
      BY <3>5
  <2> QED
    BY <2>1
<1> QED
  BY <1>4, <1>12, <1>13, <1>14

(* Session s went on as t and left rest unread: it took the first message  *)
(* and counted it, or took none.                                           *)
Took(o, t, c, rest) ==
    /\ c # <<>> /\ rest = Tail(c)
    /\ ~o.rtx.on /\ ~o.starting
    /\ Heard(t, Head(c))
    /\ o.role = "acceptor" /\ ~IsEstablished(o.st) => t.out # <<>> /\ t.out[1].type = "Logon"

TookNone(o, t, c, rest) ==
    /\ rest = c
    /\ IsEstablished(o.st)
    /\ t.nr + Pending(t) = o.nr + Pending(o)
    /\ o.rtx.on /\ ~t.rtx.on => t.out # <<>>

(* The connection from the session that went on.                           *)
LEMMA WriterFlow ==
    ASSUME NEW o \in Sessions, NEW q \in Sessions, NEW t, NEW c \in Seq(Messages),
           NEW d \in Seq(Messages), NEW rest,
           {o.role, q.role} = Roles,
           Flow(o, q, c), Flow(q, o, d), Onward(t, o, TRUE), ~t.closed,
           Took(o, t, d, rest) \/ TookNone(o, t, d, rest)
    PROVE  Flow(Idle(t), q, c \o t.out)
<1> DEFINE e == c \o t.out
<1>1. t \in Sessions /\ t.out \in Seq(Messages) /\ IsEstablished(t.st) /\ t.starting = o.starting
      /\ t.role = o.role
  BY DEF Onward, Sessions
<1>2. /\ Idle(t).closed = t.closed /\ Idle(t).st = t.st /\ Idle(t).starting = t.starting
      /\ Idle(t).ns = t.ns /\ Idle(t).rtx = t.rtx
  BY <1>1 DEF Idle, Sessions
<1>3. /\ IsEstablished(o.st) \/ o.role \in {"initiator", "acceptor"}
      /\ q.role = "initiator" => o.role = "acceptor"
      /\ o.role = "initiator" => q.role = "acceptor"
  BY DEF Roles, Sessions
<1>4. o.role = "initiator" /\ ~IsEstablished(o.st) => IsEstablished(q.st)
  BY <1>3 DEF Flow, Took, TookNone
<1>5. o.role = "acceptor" /\ ~IsEstablished(o.st)
         => c = <<>> /\ ~IsEstablished(q.st) /\ t.out # <<>> /\ t.out[1].type = "Logon"
  BY DEF Flow, Took, TookNone
<1>6. ~IsEstablished(q.st) => c # <<>> \/ (t.out # <<>> /\ t.out[1].type = "Logon")
  BY <1>3, <1>4, <1>5 DEF Flow
<1>7. /\ e \in Seq(Messages) /\ Len(e) = Len(c) + Len(t.out)
      /\ \A i \in DOMAIN c : e[i] = c[i]
      /\ \A i \in DOMAIN t.out : e[Len(c) + i] = t.out[i]
      /\ \A i \in DOMAIN e : i \in DOMAIN c \/ (i - Len(c) \in DOMAIN t.out)
      /\ e = <<>> <=> c = <<>> /\ t.out = <<>>
      /\ t.out # <<>> => LastMsg(e) = LastMsg(t.out)
      /\ t.out = <<>> => e = c
      /\ c = <<>> => e = t.out
      /\ c # <<>> => e[1] = c[1]
  <2>1. /\ Len(c) \in Nat /\ Len(t.out) \in Nat /\ DOMAIN c = 1 .. Len(c)
        /\ DOMAIN t.out = 1 .. Len(t.out)
    BY <1>1
  <2>2. e \in Seq(Messages) /\ Len(e) = Len(c) + Len(t.out) /\ DOMAIN e = 1 .. Len(e)
    BY <1>1
  <2>3. \A i \in DOMAIN e : e[i] = IF i <= Len(c) THEN c[i] ELSE t.out[i - Len(c)]
    BY <1>1
  <2>4. /\ c = <<>> <=> Len(c) = 0
        /\ t.out = <<>> <=> Len(t.out) = 0
        /\ e = <<>> <=> Len(e) = 0
    BY <1>1, <2>2
  <2>5. t.out = <<>> => e = c
    BY <1>1
  <2>6. c = <<>> => e = t.out
    BY <1>1
  <2> HIDE DEF e
  <2>7. /\ \A i \in DOMAIN c : e[i] = c[i]
        /\ \A i \in DOMAIN e : i \in DOMAIN c \/ (i - Len(c) \in DOMAIN t.out)
    BY <2>1, <2>2, <2>3
  <2>8. \A i \in DOMAIN t.out : e[Len(c) + i] = t.out[i]
    BY <2>1, <2>2, <2>3
  <2>9. t.out # <<>> => LastMsg(e) = LastMsg(t.out)
    BY <2>1, <2>2, <2>3, <2>4 DEF LastMsg
  <2>10. c # <<>> => e[1] = c[1]
    BY <2>1, <2>4, <2>7
  <2> QED
    BY <2>2, <2>4, <2>5, <2>6, <2>7, <2>8, <2>9, <2>10
<1> HIDE DEF e
<1>8. ~IsEstablished(q.st) => e # <<>> /\ e[1].type = "Logon"
  <2> SUFFICES ASSUME ~IsEstablished(q.st)
               PROVE  e # <<>> /\ e[1].type = "Logon"
    OBVIOUS
  <2>1. CASE c # <<>>
    <3>1. c[1].type = "Logon"
      BY <2>1 DEF Flow
    <3> QED
      BY <1>7, <2>1, <3>1
  <2>2. CASE c = <<>>
    <3>1. e = t.out
      BY <1>7, <2>2
    <3> QED
      BY <1>6, <2>2, <3>1
  <2> QED
    BY <2>1, <2>2
<1>9. ASSUME NEW i \in DOMAIN e
      PROVE  Regular(e[i]) /\ (e[i].type = "Logon" => i = 1 /\ ~IsEstablished(q.st))
  <2>1. CASE i \in DOMAIN c
    <3>1. e[i] = c[i]
      BY <1>7, <2>1
    <3> QED
      BY <2>1, <3>1 DEF Flow
  <2>2. CASE i - Len(c) \in DOMAIN t.out
    <3>1. Len(c) \in Nat /\ i \in Int
      BY <1>7
    <3>2. e[i] = t.out[i - Len(c)]
      <4>1. i = Len(c) + (i - Len(c))
        BY <3>1
      <4> QED
        BY <1>7, <2>2, <4>1
    <3>3. /\ Regular(e[i])
          /\ e[i].type = "Logon" => i - Len(c) = 1 /\ ~IsEstablished(o.st) /\ o.role = "acceptor"
      BY <2>2, <3>2 DEF Onward
    <3>4. c = <<>> => i - Len(c) = i
      BY <3>1
    <3> QED
      BY <1>5, <3>3, <3>4
  <2> QED
    BY <1>7, <2>1, <2>2
<1>10. ASSUME ~t.rtx.on
       PROVE  /\ e # <<>> => Covered(LastMsg(e), t.ns)
              /\ e = <<>> /\ IsEstablished(q.st) => q.nr + Pending(q) <= t.ns
  <2>1. CASE t.out # <<>>
    <3>1. LastMsg(e) = LastMsg(t.out) /\ e # <<>> /\ Covered(LastMsg(t.out), t.ns)
      BY <1>7, <1>10, <2>1 DEF Onward
    <3> QED
      BY <3>1
  <2>2. CASE t.out = <<>>
    <3>1. e = c /\ ~o.rtx.on
      BY <1>7, <1>10, <2>2 DEF Took, TookNone
    <3>2. IsEstablished(o.st) \/ o.role = "initiator"
      BY <1>3, <1>5, <2>2
    <3>3. t.ns = o.ns
      BY <1>10, <2>2, <3>2 DEF Onward
    <3> QED
      BY <3>1, <3>3 DEF Flow
  <2> QED
    BY <2>1, <2>2
<1>11. ~Idle(t).closed /\ IsLive(Idle(t).st) /\ IsEstablished(Idle(t).st)
  BY <1>1, <1>2 DEF IsEstablished
<1>12. ~Idle(t).starting
  <2>1. ~o.starting
    BY DEF Flow, Took, TookNone, IsEstablished
  <2> QED
    BY <1>1, <1>2, <2>1
<1>13. Flow(Idle(t), q, e)
  BY <1>2, <1>8, <1>9, <1>10, <1>11, <1>12 DEF Flow
<1> QED
  BY <1>13 DEF e

(* The connection to the session that went on.                             *)
LEMMA ReaderFlow ==
    ASSUME NEW o \in Sessions, NEW q \in Sessions, NEW t, NEW d \in Seq(Messages), NEW rest,
           Flow(q, o, d), Onward(t, o, TRUE), ~t.closed,
           Took(o, t, d, rest) \/ TookNone(o, t, d, rest)
    PROVE  Flow(q, Idle(t), rest)
<1>1. t \in Sessions /\ IsEstablished(t.st) /\ t.nr \in Nat /\ q.ns \in Nat
  BY CountType DEF Onward
<1>2. /\ Idle(t).st = t.st /\ Idle(t).nr = t.nr /\ Idle(t).rtx = t.rtx
  BY <1>1 DEF Idle, Sessions
<1>3. ~IsEstablished(q.st) => q.role # "acceptor"
  BY DEF Flow, Took, TookNone
<1>4. CASE TookNone(o, t, d, rest)
  <2>1. rest = d /\ IsEstablished(o.st) /\ t.nr + Pending(t) = o.nr + Pending(o)
    BY <1>4 DEF TookNone
  <2>2. Pending(Idle(t)) = Pending(t)
    BY <1>2 DEF Pending
  <2> QED
    BY <1>1, <1>2, <1>3, <2>1, <2>2 DEF Flow
<1>5. CASE Took(o, t, d, rest)
  <2>1. d # <<>> /\ rest = Tail(d) /\ Heard(t, Head(d))
    BY <1>5 DEF Took
  <2>2. /\ rest \in Seq(Messages) /\ Len(d) \in Nat /\ Len(rest) = Len(d) - 1
        /\ DOMAIN d = 1 .. Len(d) /\ DOMAIN rest = 1 .. Len(rest)
        /\ \A i \in DOMAIN rest : i + 1 \in DOMAIN d /\ rest[i] = d[i + 1]
        /\ Head(d) = d[1]
        /\ rest = <<>> <=> Len(rest) = 0
    <3>1. /\ Len(d) \in Nat /\ DOMAIN d = 1 .. Len(d) /\ Len(d) > 0 /\ Head(d) = d[1]
      BY <2>1
    <3>2. rest \in Seq(Messages) /\ Len(rest) = Len(d) - 1 /\ DOMAIN rest = 1 .. Len(rest)
      BY <2>1
    <3>3. ASSUME NEW i \in 1 .. Len(d) - 1
          PROVE  rest[i] = d[i + 1]
      <4>1. Tail(d)[i] = d[i + 1]
        OBVIOUS
      <4> QED
        BY <2>1, <4>1
    <3>4. rest = <<>> <=> Len(rest) = 0
      <4>1. rest \in Seq(Messages)
        BY <3>2
      <4> QED
        BY <4>1
    <3> QED
      BY <3>1, <3>2, <3>3, <3>4
  <2>3. ASSUME NEW i \in DOMAIN rest
        PROVE  Regular(rest[i]) /\ rest[i].type # "Logon"
    <3>1. i + 1 \in DOMAIN d /\ rest[i] = d[i + 1] /\ i + 1 # 1
      BY <2>2
    <3> QED
      BY <3>1 DEF Flow
  <2>4. rest # <<>> => LastMsg(rest) = LastMsg(d)
    BY <2>2 DEF LastMsg
  <2>5. rest = <<>> => LastMsg(d) = Head(d)
    BY <2>2 DEF LastMsg
  <2>6. ASSUME ~q.rtx.on
        PROVE  /\ rest # <<>> => Covered(LastMsg(rest), q.ns)
               /\ rest = <<>> => t.nr + Pending(t) <= q.ns
    <3>1. Covered(LastMsg(d), q.ns)
      BY <2>1, <2>6 DEF Flow
    <3>2. rest = <<>> => Covered(Head(d), q.ns)
      BY <2>5, <3>1
    <3>3. /\ Pending(t) \in Nat /\ After(Head(d)) \in Nat
      <4>1. Head(d) \in Messages
        BY <2>1
      <4> QED
        BY SMTT(30), <4>1 DEF Pending, After, Messages
    <3>4. rest = <<>> => t.nr + Pending(t) <= q.ns
      BY <1>1, <2>1, <3>2, <3>3 DEF Covered, Heard
    <3> QED
      BY <2>4, <3>1, <3>4
  <2>7. Pending(Idle(t)) = Pending(t)
    BY <1>2 DEF Pending
  <2> QED
    BY <1>1, <1>2, <1>3, <2>3, <2>6, <2>7 DEF Flow
<1> QED
  BY <1>4, <1>5

(* Without a connection: every message of a session's own leaves the       *)
(* number expected positive.                                               *)
LEMMA DownSend ==
    ASSUME NEW o, NEW t, Onward(t, o, FALSE), NEW m \in Messages, m.seq = 0, ~m.dup,
           NEW custom \in Nat, NEW noinc \in BOOLEAN
    PROVE  Onward(send_process(t, m, custom, noinc), o, FALSE)
<1> DEFINE u == send_process(t, m, custom, noinc)
<1>1. t \in Sessions /\ t.ns \in Nat /\ t.nr \in Nat /\ Counting(t)
  BY CountType DEF Onward
<1>2. Wrote(t, u, m, custom, noinc)
  BY <1>1, SendExact
<1> HIDE DEF u
<1>3. /\ u \in Sessions /\ SameLife(t, u) /\ u.nr = t.nr
      /\ u.ctrl \in {t.ctrl, <<t.ns + 1, t.nr>>}
  BY <1>2 DEF Wrote
<1>4. Counting(u)
  BY <1>1, <1>3 DEF Counting
<1>5. Onward(u, o, FALSE)
  BY <1>3, <1>4 DEF Onward, SameLife
<1> QED
  BY <1>5 DEF u

(* So do the changes that no check of a message depends on.                *)
LEMMA DownState ==
    ASSUME NEW o, NEW t, Onward(t, o, FALSE)
    PROVE  /\ \A st \in SessionStates : Onward([t EXCEPT !.st = st], o, FALSE)
           /\ \A n \in Nat : Onward([t EXCEPT !.ns = n], o, FALSE)
           /\ Onward([t EXCEPT !.timer = TRUE], o, FALSE)
           /\ Onward([t EXCEPT !.ns = 1, !.nr = 1], o, FALSE)
           /\ \A x \in RetransmissionContext, st \in SessionStates :
                  Onward([t EXCEPT !.st = st, !.rtx = x], o, FALSE)
           /\ \A m : Onward(AttachPersister(t, m), o, FALSE)
           /\ Onward(recover_seqnums(t), o, FALSE)
<1>1. t \in Sessions /\ Counting(t) /\ t.role = o.role /\ t.starting = o.starting
      /\ t.nr \in Nat
  BY CountType DEF Onward
<1>2. ASSUME NEW u \in Sessions, u.nr = t.nr, u.ctrl = t.ctrl \/ u.ctrl = <<0, 0>>,
             u.role = t.role, u.starting = t.starting
      PROVE  Onward(u, o, FALSE)
  BY <1>1, <1>2 DEF Onward, Counting
<1>3. \A st \in SessionStates : Onward([t EXCEPT !.st = st], o, FALSE)
  BY <1>1, <1>2 DEF Sessions
<1>4. \A n \in Nat : Onward([t EXCEPT !.ns = n], o, FALSE)
  BY <1>1, <1>2 DEF Sessions
<1>5. Onward([t EXCEPT !.timer = TRUE], o, FALSE)
  BY <1>1, <1>2 DEF Sessions
<1>6. \A x \in RetransmissionContext, st \in SessionStates :
          Onward([t EXCEPT !.st = st, !.rtx = x], o, FALSE)
  BY <1>1, <1>2 DEF Sessions
<1>7. ASSUME NEW m
      PROVE  Onward(AttachPersister(t, m), o, FALSE)
  <2> DEFINE a == [t EXCEPT !.per = TRUE, !.store = IF m.reset THEN {} ELSE @,
                            !.ctrl = IF m.reset THEN <<0, 0>> ELSE @]
  <2>1. <<0, 0>> \in Nat \X Nat /\ {} \in SUBSET (Nat \X Nat)
    OBVIOUS
  <2>2. /\ a \in Sessions /\ a.nr = t.nr /\ (a.ctrl = t.ctrl \/ a.ctrl = <<0, 0>>)
        /\ a.role = t.role /\ a.starting = t.starting
    BY <1>1, <2>1 DEF Sessions
  <2> HIDE DEF a
  <2>3. Onward(a, o, FALSE)
    BY <1>2, <2>2
  <2> QED
    BY <2>3 DEF AttachPersister, a
<1>8. Onward(recover_seqnums(t), o, FALSE)
  <2> DEFINE r == [t EXCEPT !.ns = t.ctrl[1], !.nr = t.ctrl[2]]
  <2>1. CASE t.ctrl # <<0, 0>>
    <3>1. t.ctrl[2] > 0 /\ t.ctrl[1] \in Nat /\ t.ctrl[2] \in Nat
      BY <1>1, <2>1 DEF Counting, Sessions
    <3>2. r \in Sessions /\ r.nr = t.ctrl[2] /\ r.ctrl = t.ctrl /\ r.role = t.role
          /\ r.starting = t.starting
      BY <1>1, <3>1 DEF Sessions
    <3> HIDE DEF r
    <3>3. Onward(r, o, FALSE)
      BY <1>1, <3>1, <3>2 DEF Onward, Counting
    <3> QED
      BY <3>3 DEF recover_seqnums, r
  <2>2. CASE t.ctrl = <<0, 0>>
    BY <2>2 DEF recover_seqnums
  <2> QED
    BY <2>1, <2>2
<1>9. Onward([t EXCEPT !.ns = 1, !.nr = 1], o, FALSE)
  <2> DEFINE r == [t EXCEPT !.ns = 1, !.nr = 1]
  <2>1. r \in Sessions /\ r.nr = 1 /\ r.ctrl = t.ctrl /\ r.role = t.role
        /\ r.starting = t.starting
    BY <1>1 DEF Sessions
  <2> HIDE DEF r
  <2>2. Onward(r, o, FALSE)
    BY <1>1, <2>1 DEF Onward, Counting
  <2> QED
    BY <2>2 DEF r
<1> QED
  BY <1>3, <1>4, <1>5, <1>6, <1>7, <1>8, <1>9

(* Without a connection a logon is answered into the void.                 *)
LEMMA DownLogon ==
    ASSUME NEW o, NEW t, Onward(t, o, FALSE), NEW m \in Messages
    PROVE  Onward(handle_logon(t, m, "ok"), o, FALSE)
<1> DEFINE s == do_state_change(t, "logon_received")
<1> DEFINE a == AttachPersister(s, m)
<1> DEFINE r == IF m.reset THEN [a EXCEPT !.ns = 1, !.nr = 1] ELSE recover_seqnums(a)
<1> DEFINE e == enforce(r, m)
<1> DEFINE g == send(e, generate_logon(s.role))
<1> DEFINE l == do_state_change(g, "continuous")
<1> DEFINE d == enforce(s, m)
<1>1. {"logon_received", "continuous"} \subseteq SessionStates
      /\ 0 \in Nat /\ FALSE \in BOOLEAN /\ m.reset \in BOOLEAN
  BY DEF SessionStates, Messages
<1>2. Onward(s, o, FALSE)
  BY <1>1, DownState DEF do_state_change
<1>3. s.role \in Roles
  BY <1>2 DEF Onward, Sessions
<1> HIDE DEF s
<1>4. Onward(a, o, FALSE)
  BY <1>2, DownState
<1> HIDE DEF a
<1>5. Onward(r, o, FALSE)
  BY <1>4, DownState
<1> HIDE DEF r
<1>6. Onward(e, o, FALSE) /\ Onward(d, o, FALSE)
  BY <1>2, <1>5, EnforceOnward
<1> HIDE DEF e, d
<1>7. generate_logon(s.role) \in Messages /\ generate_logon(s.role).seq = 0
      /\ ~generate_logon(s.role).dup
  BY <1>3, GenerateType DEF generate_logon, Msg
<1>8. Onward(g, o, FALSE)
  BY <1>1, <1>6, <1>7, DownSend DEF send
<1> HIDE DEF g
<1>9. Onward(l, o, FALSE)
  BY <1>1, <1>8, DownState DEF do_state_change
<1> HIDE DEF l
<1>10. Onward([l EXCEPT !.timer = TRUE], o, FALSE)
  BY <1>9, DownState
<1>11. Onward([d EXCEPT !.st = "continuous", !.timer = TRUE], o, FALSE)
  <2> DEFINE c == [d EXCEPT !.st = "continuous"]
  <2>1. Onward(c, o, FALSE)
    BY <1>1, <1>6, DownState
  <2>2. Onward([c EXCEPT !.timer = TRUE], o, FALSE)
    BY <2>1, DownState
  <2>3. [c EXCEPT !.timer = TRUE] = [d EXCEPT !.st = "continuous", !.timer = TRUE]
    BY <1>6 DEF Onward, Sessions
  <2> QED
    BY <2>2, <2>3
<1>12. Onward(LogonInitiator(s, m, "ok"), o, FALSE)
  BY <1>6, <1>11 DEF LogonInitiator, d
<1>13. Onward(LogonAcceptor(s, m, "ok"), o, FALSE)
  <2>1. LogonAcceptor(s, m, "ok") = IF e.exc # "none" THEN e ELSE [l EXCEPT !.timer = TRUE]
    BY DEF LogonAcceptor, l, g, e, r, a
  <2> QED
    BY <1>6, <1>10, <2>1
<1>14. Onward(send(t, Msg("Reject")), o, FALSE)
  <2>1. Msg("Reject") \in Messages /\ Msg("Reject").seq = 0 /\ ~Msg("Reject").dup
    BY MsgType DEF MsgTypes, Msg
  <2> QED
    BY <1>1, <2>1, DownSend DEF send
<1> QED
  BY <1>12, <1>13, <1>14 DEF handle_logon, s

(* Without a connection every message that was still unread is processed.  *)
LEMMA DownProcess ==
    ASSUME NEW o, NEW t, Onward(t, o, FALSE), t.exc = "none", ~t.rtx.on, NEW m \in Messages,
           NEW outcome
    PROVE  Onward(process(t, m, outcome, "ok"), o, FALSE)
<1> DEFINE e == enforce(t, m)
<1> DEFINE h == Dispatch(t, m, outcome, "ok")
<1> DEFINE j == Rejected(t)
<1>1. /\ {"continuous", "resend_request_received", "logoff_sent", "session_terminated"}
             \subseteq SessionStates
      /\ {"logoff", "other"} \subseteq Exceptions
      /\ IsEstablished("continuous")
      /\ 0 \in Nat /\ FALSE \in BOOLEAN /\ TRUE \in BOOLEAN
      /\ m.val \in Nat /\ m.new \in Nat /\ m.begin \in Nat
  BY DEF SessionStates, Exceptions, Messages, IsEstablished, IsLive
<1>2. Onward(e, o, FALSE)
  BY EnforceOnward
<1>3. t \in Sessions /\ e \in Sessions /\ e.ns \in Nat /\ t.nr \in Nat
  BY <1>2, CountType DEF Onward
<1> HIDE DEF e
<1>4. ASSUME NEW type \in {"Heartbeat", "Reject", "Logout"}
      PROVE  Msg(type) \in Messages /\ Msg(type).seq = 0 /\ ~Msg(type).dup
  BY <1>4, MsgType DEF MsgTypes, Msg
<1>5. Onward(j, o, FALSE)
  <2> DEFINE r == send(t, Msg("Reject"))
  <2>1. Onward(r, o, FALSE)
    BY <1>1, <1>4, DownSend DEF send
  <2> HIDE DEF r
  <2>2. NoRtx \in RetransmissionContext /\ r.nr + 1 \in Nat /\ r.nr + 1 > 0
    <3>1. r \in Sessions
      BY <2>1 DEF Onward
    <3>2. r.nr \in Nat
      BY <3>1, CountType
    <3>3. NoRtx \in RetransmissionContext
      BY DEF NoRtx, RetransmissionContext
    <3> QED
      BY <3>2, <3>3
  <2> DEFINE d == [r EXCEPT !.nr = r.nr + 1, !.rtx = NoRtx]
  <2>3. d \in Sessions /\ d.nr = r.nr + 1 /\ d.ctrl = r.ctrl /\ d.role = r.role
        /\ d.starting = r.starting
    BY <2>1, <2>2 DEF Onward, Sessions
  <2> HIDE DEF d
  <2>4. Onward(d, o, FALSE)
    BY <2>1, <2>2, <2>3 DEF Onward, Counting
  <2> QED
    BY <2>4 DEF Rejected, d, r
<1> HIDE DEF j
<1>6. ASSUME NEW u, Onward(u, o, FALSE)
      PROVE  Onward(ForceLogoff(u), o, FALSE) /\ Onward(Finish(u, m), o, FALSE)
  <2> DEFINE g == send_process(u, Msg("Logout"), 0, TRUE)
  <2>1. Onward(g, o, FALSE)
    BY <1>1, <1>4, <1>6, DownSend
  <2> HIDE DEF g
  <2> DEFINE d == do_state_change(g, "logoff_sent")
  <2>2. Onward(d, o, FALSE)
    BY <1>1, <2>1, DownState DEF do_state_change
  <2> HIDE DEF d
  <2> DEFINE l == IF u.st = "logon_received" /\ ~SilentDisconnect THEN d ELSE u
  <2>3. Onward(l, o, FALSE)
    BY <1>6, <2>2
  <2> HIDE DEF l
  <2> DEFINE c == [l EXCEPT !.st = IF l.shut THEN @ ELSE "session_terminated", !.closed = TRUE]
  <2>4. c \in Sessions /\ c.nr = l.nr /\ c.ctrl = l.ctrl /\ c.role = l.role
        /\ c.starting = l.starting
    BY <2>3 DEF Onward, Sessions, SessionStates
  <2> HIDE DEF c
  <2>5. Onward(c, o, FALSE)
    BY <2>3, <2>4 DEF Onward, Counting
  <2>6. Onward(stop(l), o, FALSE)
    BY <2>3, StateOnward
  <2>7. Onward(Finish(u, m), o, FALSE)
    BY <1>6, CountOnward
  <2> QED
    BY <2>5, <2>6, <2>7 DEF ForceLogoff, c, l, d, g
<1>7. CASE m.type = "Malformed"
  BY <1>5, <1>7 DEF process, j
<1>8. CASE m.type = "SequenceReset"
  <2> DEFINE c == IF t.st = "resend_request_sent" THEN do_state_change(t, "continuous") ELSE t
  <2> DEFINE n == m.new - 1
  <2> DEFINE f == [c EXCEPT !.nr = n]
  <2> DEFINE l == Throw(t, "logoff")
  <2>1. h = IF m.new >= t.nr THEN f ELSE l
    BY <1>8 DEF Dispatch, handle_sequence_reset
  <2>2. Onward(c, o, FALSE) /\ c.exc = "none" /\ ~c.rtx.on
    <3>1. Onward(do_state_change(t, "continuous"), o, FALSE)
      BY <1>1, StateOnward
    <3>2. do_state_change(t, "continuous").exc = "none" /\ ~do_state_change(t, "continuous").rtx.on
      BY <1>3 DEF do_state_change, Sessions
    <3> QED
      BY <3>1, <3>2
  <2> HIDE DEF c
  <2>3. n \in Nat
    BY <1>1, <1>8 DEF Messages
  <2> HIDE DEF n
  <2>4. f.exc = "none" /\ ~f.rtx.on
    BY <2>2 DEF Onward, Sessions
  <2>5. Onward(Finish(f, m), o, FALSE)
    BY <2>2, <2>3, FinishOnward
  <2>6. Onward(ForceLogoff(l), o, FALSE) /\ l.exc = "logoff"
    <3>1. Onward(l, o, FALSE)
      BY <1>1, StateOnward
    <3>2. l.exc = "logoff"
      BY <1>3 DEF Throw, Sessions
    <3> HIDE DEF l
    <3> QED
      BY <1>6, <3>1, <3>2
  <2> HIDE DEF f, l, h
  <2>7. process(t, m, outcome, "ok") = IF m.new >= t.nr THEN Finish(f, m) ELSE ForceLogoff(l)
    <3>1. CASE m.new >= t.nr
      <4>1. h = f
        BY <2>1, <3>1
      <4>2. process(t, m, outcome, "ok") = Finish(f, m)
        BY <1>8, <2>4, <4>1 DEF process, h
      <4> QED
        BY <3>1, <4>2
    <3>2. CASE ~(m.new >= t.nr)
      <4>1. h = l
        BY <2>1, <3>2
      <4>2. process(t, m, outcome, "ok") = ForceLogoff(l)
        BY <1>8, <2>6, <4>1 DEF process, h
      <4> QED
        BY <3>2, <4>2
    <3> QED
      BY <3>1, <3>2
  <2> QED
    BY <2>5, <2>6, <2>7
<1>9. CASE m.type \notin {"Malformed", "SequenceReset"}
  <2>1. Onward(h, o, FALSE)
    <3>1. m.type \in {"App", "Heartbeat", "TestRequest", "ResendRequest", "Reject", "Logout", "Logon"}
      BY <1>9 DEF Messages, MsgTypes
    <3>2. CASE m.type = "App"
      <4>1. Onward(Throw(e, "other"), o, FALSE) /\ Onward([e EXCEPT !.got = m.val], o, FALSE)
        BY <1>1, <1>2, StateOnward
      <4>2. h = handle_application(t, m, outcome)
        BY <3>2 DEF Dispatch
      <4> QED
        BY <1>2, <4>1, <4>2 DEF handle_application, e
    <3>3. CASE m.type = "Heartbeat"
      <4>1. Onward(do_state_change(e, "continuous"), o, FALSE)
        BY <1>1, <1>2, StateOnward
      <4>2. h = handle_heartbeat(t, m)
        BY <3>3 DEF Dispatch
      <4> QED
        BY <1>2, <4>1, <4>2 DEF handle_heartbeat, e
    <3>4. CASE m.type = "TestRequest"
      <4>1. Onward(send(e, Msg("Heartbeat")), o, FALSE)
        BY <1>1, <1>2, <1>4, DownSend DEF send
      <4>2. h = handle_test_request(t, m)
        BY <3>4 DEF Dispatch
      <4> QED
        BY <1>2, <4>1, <4>2 DEF handle_test_request, e
    <3>5. CASE m.type = "ResendRequest"
      <4> DEFINE nseq == IF m.begin >= e.ns THEN m.begin + 1 ELSE e.ns
      <4> DEFINE x == [on |-> TRUE, begin |-> m.begin, interrupted |-> e.ns,
                       last |-> 0, todo |-> StoredRange(e, m.begin, m.end)]
      <4> DEFINE g == GapFilled(e, nseq, m.begin)
      <4> DEFINE d == [e EXCEPT !.st = "resend_request_received", !.rtx = x]
      <4> DEFINE b == send(e, Msg("Reject"))
      <4>1. h = handle_resend_request(t, m)
        BY <3>5 DEF Dispatch
      <4>2. Onward(b, o, FALSE)
        BY <1>1, <1>2, <1>4, DownSend DEF send
      <4>3. x \in RetransmissionContext
        BY <1>1, <1>3, RangeType DEF RetransmissionContext
      <4>4. nseq \in Nat
        BY <1>1, <1>3
      <4> HIDE DEF x
      <4>5. Onward(d, o, FALSE)
        BY <1>1, <1>2, <4>3, DownState
      <4> HIDE DEF d, b
      <4>6. CASE e.exc # "none" \/ e.st = "resend_request_received"
        <5>1. handle_resend_request(t, m) = e
          BY <4>6 DEF handle_resend_request, e
        <5> QED
          BY <1>2, <4>1, <5>1
      <4>7. CASE ~(e.exc # "none" \/ e.st = "resend_request_received")
                 /\ ((m.begin > m.end /\ m.end # 0) \/ m.begin = 0)
        <5>1. handle_resend_request(t, m) = b
          BY <4>7 DEF handle_resend_request, e, b
        <5> QED
          BY <4>1, <4>2, <5>1
      <4>8. CASE /\ ~(e.exc # "none" \/ e.st = "resend_request_received")
                 /\ ~((m.begin > m.end /\ m.end # 0) \/ m.begin = 0)
        <5>1. handle_resend_request(t, m) = IF ~e.per THEN g ELSE d
          BY <4>8 DEF handle_resend_request, e, d, x, GapFilled
        <5>2. nseq > 0
          BY <1>1, <1>3, <4>8
        <5> HIDE DEF nseq
        <5>3. Onward(g, o, FALSE)
          BY <1>1, <1>2, <4>4, <5>2, GapFillOnward
        <5> QED
          BY <4>1, <4>5, <5>1, <5>3
      <4> QED
        BY <4>6, <4>7, <4>8
    <3>6. CASE m.type = "Reject"
      BY <3>6 DEF Dispatch
    <3>7. CASE m.type = "Logout"
      <4>1. h = e
        BY <3>7 DEF Dispatch, handle_logout, e
      <4> QED
        BY <1>2, <4>1
    <3>8. CASE m.type = "Logon"
      <4>1. h = handle_logon(t, m, "ok")
        BY <3>8 DEF Dispatch
      <4> QED
        BY <4>1, DownLogon
    <3> QED
      BY <3>1, <3>2, <3>3, <3>4, <3>5, <3>6, <3>7, <3>8
  <2> HIDE DEF h
  <2>2. process(t, m, outcome, "ok") \in {ForceLogoff(h), h, Finish(h, m)}
    BY <1>9 DEF process, h
  <2> QED
    BY <1>6, <2>1, <2>2
<1> QED
  BY <1>7, <1>8, <1>9

(* The timer writes heartbeats, a test request or the last logout; its     *)
(* abort leaves the socket of an initiator open.                           *)
LEMMA TimerOnward ==
    ASSUME NEW up, NEW o, NEW t, Onward(t, o, up), NEW due \in BOOLEAN, NEW idle \in BOOLEAN
    PROVE  LET u == heartbeat_service(t, due, idle)
           IN  Onward(u, o, up) /\ u.nr = t.nr /\ u.rtx = t.rtx
<1> DEFINE b == send(t, Msg("Heartbeat"))
<1> DEFINE h == IF due THEN b ELSE t
<1> DEFINE g == send_process(h, Msg("Logout"), 0, TRUE)
<1> DEFINE l == do_state_change(g, "logoff_sent")
<1> DEFINE i == [l EXCEPT !.shut = TRUE, !.timer = FALSE]
<1> DEFINE q == send(h, Msg("TestRequest"))
<1> DEFINE r == [q EXCEPT !.tr = TRUE]
<1> DEFINE u == heartbeat_service(t, due, idle)
<1>1. ASSUME NEW type \in {"Heartbeat", "TestRequest", "Logout"}
      PROVE  /\ Msg(type) \in Messages /\ Msg(type).seq = 0 /\ ~Msg(type).dup
             /\ Msg(type).type = type
  BY <1>1, MsgType DEF MsgTypes, Msg
<1>2. ASSUME NEW s, Onward(s, o, up), NEW type \in {"Heartbeat", "TestRequest", "Logout"},
             NEW noinc \in BOOLEAN, noinc => type = "Logout"
      PROVE  LET v == send_process(s, Msg(type), 0, noinc)
             IN  Onward(v, o, up) /\ v.nr = s.nr /\ v.rtx = s.rtx
  <2> DEFINE v == send_process(s, Msg(type), 0, noinc)
  <2>1. Onward(v, o, up)
    BY <1>1, <1>2, SendOnward
  <2>2. Wrote(s, v, Msg(type), 0, noinc)
    <3>1. s \in Sessions /\ 0 \in Nat
      BY <1>2 DEF Onward
    <3> QED
      BY <1>1, <1>2, <3>1, SendExact
  <2> HIDE DEF v
  <2>3. v.nr = s.nr /\ v.rtx = s.rtx
    BY <2>2 DEF Wrote, SameLife
  <2> QED
    BY <2>1, <2>3 DEF v
<1>3. FALSE \in BOOLEAN /\ TRUE \in BOOLEAN
  OBVIOUS
<1>4. Onward(b, o, up) /\ b.nr = t.nr /\ b.rtx = t.rtx
  BY <1>2, <1>3 DEF send
<1> HIDE DEF b
<1>5. Onward(h, o, up) /\ h.nr = t.nr /\ h.rtx = t.rtx
  BY <1>4
<1> HIDE DEF h
<1>6. Onward(g, o, up) /\ g.nr = t.nr /\ g.rtx = t.rtx
  BY <1>2, <1>3, <1>5
<1>7. Onward(q, o, up) /\ q.nr = t.nr /\ q.rtx = t.rtx
  BY <1>2, <1>3, <1>5 DEF send
<1> HIDE DEF g, q
<1>8. Onward(l, o, up) /\ l.nr = t.nr /\ l.rtx = t.rtx
  <2>1. Onward(l, o, up)
    BY <1>6, StateOnward DEF SessionStates, IsEstablished, IsLive
  <2>2. l.nr = g.nr /\ l.rtx = g.rtx
    BY <1>6 DEF Onward, Sessions, do_state_change
  <2> QED
    BY <1>6, <2>1, <2>2
<1> HIDE DEF l
<1>9. Onward(i, o, up) /\ i.nr = t.nr /\ i.rtx = t.rtx
  <2>1. i \in Sessions
    BY <1>8 DEF Onward, Sessions
  <2>2. SameNumbers(l, i) /\ i.nr = l.nr /\ i.rtx = l.rtx
    BY <1>8, <2>1 DEF SameNumbers, Onward, Sessions
  <2> HIDE DEF i
  <2> QED
    BY <1>8, <2>2, SameOnward
<1>10. Onward(stop(l), o, up) /\ stop(l).nr = t.nr /\ stop(l).rtx = t.rtx
  <2>1. stop(l).nr = l.nr /\ stop(l).rtx = l.rtx
    BY <1>8 DEF Onward, Sessions, stop
  <2> QED
    BY <1>8, <2>1, StateOnward
<1>11. Onward(r, o, up) /\ r.nr = t.nr /\ r.rtx = t.rtx
  <2>1. r.nr = q.nr /\ r.rtx = q.rtx
    BY <1>7 DEF Onward, Sessions
  <2> QED
    BY <1>7, <2>1, StateOnward
<1> HIDE DEF i, r
<1>12. CASE idle /\ t.st = "test_request_sent"
  <2>1. u = IF t.role = "initiator" THEN i ELSE stop(l)
    BY <1>12 DEF heartbeat_service, i, l, g, h, b
  <2> HIDE DEF u
  <2>2. Onward(u, o, up) /\ u.nr = t.nr /\ u.rtx = t.rtx
    BY <1>9, <1>10, <2>1
  <2> QED
    BY <2>2 DEF u
<1>13. CASE idle /\ t.st # "test_request_sent"
  <2>1. u = r
    BY <1>13 DEF heartbeat_service, r, q, h, b
  <2> HIDE DEF u
  <2>2. Onward(u, o, up) /\ u.nr = t.nr /\ u.rtx = t.rtx
    BY <1>11, <2>1
  <2> QED
    BY <2>2 DEF u
<1>14. CASE ~idle
  <2>1. u = h
    BY SMTT(30), <1>14 DEF heartbeat_service, h, b
  <2> HIDE DEF u
  <2>2. Onward(u, o, up) /\ u.nr = t.nr /\ u.rtx = t.rtx
    BY <1>5, <2>1
  <2> QED
    BY <2>2 DEF u
<1> QED
  BY <1>12, <1>13, <1>14

(* A side that goes on keeps the numbers covered.                          *)
LEMMA CommitCovered ==
    ASSUME TypeOK, NumbersCovered, NEW s \in Roles, NEW t, NEW rest, Commit(s, t, rest),
           Onward(t, ses[s], link),
           link /\ ~t.closed => \/ Took(ses[s], t, Unread(s), rest)
                                \/ TookNone(ses[s], t, Unread(s), rest)
    PROVE  NumbersCovered'
<1> DEFINE p == Peer(s)
<1> DEFINE o == ses[s]
<1> DEFINE q == ses[p]
<1>1. p \in Roles /\ p # s /\ (\A r \in Roles : r = s \/ r = p) /\ Peer(p) = s /\ {s, p} = Roles
  BY DEF Peer, Roles
<1>2. o \in Sessions /\ q \in Sessions /\ chan[s] \in Seq(Messages) /\ chan[p] \in Seq(Messages)
      /\ link \in BOOLEAN
  BY <1>1 DEF TypeOK
<1>3. /\ ses'[s] = Idle(t) /\ ses'[p] = q
      /\ link' = (link /\ ~t.closed)
      /\ link => chan'[s] = chan[s] \o t.out
      /\ ~t.closed => chan'[p] = rest
  BY <1>1 DEF Commit, TypeOK
<1>4. /\ t \in Sessions /\ Counting(t) /\ t.role = s
      /\ o.role = s /\ q.role = p /\ Idle(q) = q /\ Counting(q)
  BY <1>1 DEF NumbersCovered, Onward
<1>5. Idle(t).role = s /\ Idle(Idle(t)) = Idle(t) /\ Counting(Idle(t))
  <2>1. Idle(t).role = s /\ Idle(t).nr = t.nr /\ Idle(t).ctrl = t.ctrl
    BY <1>4 DEF Idle, Sessions
  <2>2. Idle(Idle(t)) = Idle(t)
    BY <1>4 DEF Idle, Sessions
  <2> QED
    BY <1>4, <2>1, <2>2 DEF Counting
<1>6. ASSUME link'
      PROVE  Flow(Idle(t), q, chan'[s]) /\ Flow(q, Idle(t), chan'[p])
  <2>1. link /\ ~t.closed /\ chan'[s] = chan[s] \o t.out /\ chan'[p] = rest
    BY <1>3, <1>6
  <2>2. Took(o, t, chan[p], rest) \/ TookNone(o, t, chan[p], rest)
    BY <2>1 DEF Unread
  <2>3. Flow(o, q, chan[s]) /\ Flow(q, o, chan[p])
    BY <1>1, <2>1 DEF NumbersCovered
  <2>4. Onward(t, o, TRUE) /\ {o.role, q.role} = Roles
    BY <1>1, <1>4, <2>1
  <2> HIDE DEF o, q, p
  <2>5. Flow(Idle(t), q, chan[s] \o t.out)
    BY <1>2, <2>1, <2>2, <2>3, <2>4, WriterFlow
  <2>6. Flow(q, Idle(t), rest)
    BY <1>2, <2>1, <2>2, <2>3, <2>4, ReaderFlow
  <2> QED
    BY <2>1, <2>5, <2>6
<1> HIDE DEF o, q, p
<1>7. ASSUME NEW r \in Roles
      PROVE  /\ ses'[r].role = r /\ Idle(ses'[r]) = ses'[r] /\ Counting(ses'[r])
             /\ link' => Flow(ses'[r], ses'[Peer(r)], chan'[r])
  <2>1. CASE r = s
    BY <1>3, <1>5, <1>6, <2>1 DEF p
  <2>2. CASE r = p
    BY <1>1, <1>3, <1>4, <1>6, <2>2
  <2> QED
    BY <1>1, <2>1, <2>2
<1> QED
  BY <1>7 DEF NumbersCovered, Idle, Counting, Flow, Peer

(* A side at the beginning of an operation.                                *)
LEMMA WiredOnward ==
    ASSUME TypeOK, NumbersCovered, NEW s \in Roles, NEW w \in Writable(s)
    PROVE  LET t == Wired(s, w)
           IN  /\ t \in Sessions /\ Counting(t) /\ t.exc = "none" /\ t.out = <<>>
               /\ t.role = ses[s].role /\ t.starting = ses[s].starting /\ t.rtx = ses[s].rtx
               /\ t.st = ses[s].st /\ t.shut = ses[s].shut /\ t.closed = ses[s].closed
               /\ t.nr = ses[s].nr /\ t.ns = ses[s].ns
               /\ link => t.wire /\ ~t.closed
               /\ ~link \/ IsEstablished(ses[s].st) => Onward(t, ses[s], link)
<1> DEFINE o == ses[s]
<1> DEFINE t == Wired(s, w)
<1>1. o \in Sessions /\ t \in Sessions /\ w \in BOOLEAN
  BY WritableType DEF TypeOK
<1>2. Counting(o) /\ Idle(o) = o /\ (link => ~o.closed)
  BY DEF NumbersCovered, Flow
<1>3. o.exc = "none" /\ o.out = <<>>
  <2>1. Idle(o).exc = "none" /\ Idle(o).out = <<>>
    BY <1>1 DEF Idle, Sessions
  <2> QED
    BY <1>2, <2>1
<1>4. link => w = TRUE
  BY <1>1, <1>2 DEF Writable
<1>5. /\ t.exc = o.exc /\ t.out = o.out /\ t.role = o.role /\ t.starting = o.starting
      /\ t.rtx = o.rtx /\ t.st = o.st /\ t.shut = o.shut /\ t.closed = o.closed
      /\ t.nr = o.nr /\ t.ns = o.ns /\ t.ctrl = o.ctrl /\ t.wire = w
  BY <1>1 DEF Wired, Sessions
<1>6. Counting(t)
  BY <1>2, <1>5 DEF Counting
<1> HIDE DEF t
<1>7. ~link \/ IsEstablished(o.st) => Onward(t, o, link)
  <2>1. /\ DOMAIN t.out = {} /\ t.out = <<>>
    BY <1>3, <1>5
  <2> QED
    BY <1>1, <1>2, <1>4, <1>5, <1>6, <2>1 DEF Onward
<1> HIDE DEF o
<1> QED
  BY <1>1, <1>2, <1>3, <1>4, <1>5, <1>6, <1>7 DEF o, t

(* A killed process leaves the control record, or none.                    *)
LEMMA KilledCounting ==
    ASSUME NEW t \in Sessions, Counting(t)
    PROVE  LET u == Killed(t)
           IN  u.role = t.role /\ Idle(u) = u /\ Counting(u)
<1> SUFFICES ASSUME NEW store \in {t.store, {}}, NEW ctrl \in {t.ctrl, <<0, 0>>}
             PROVE  LET u == Fresh(t.role, store, ctrl)
                    IN  u.role = t.role /\ Idle(u) = u /\ Counting(u)
  BY DEF Killed
<1> DEFINE u == Fresh(t.role, store, ctrl)
<1>1. u.role = t.role /\ u.nr = 1 /\ u.ctrl = ctrl
  BY DEF Fresh
<1>2. Idle(u) = u
  <2>1. u \in Sessions
    <3>1. /\ {} \in SUBSET (Nat \X Nat) /\ <<0, 0>> \in Nat \X Nat
          /\ t.role \in Roles /\ t.store \in SUBSET (Nat \X Nat) /\ t.ctrl \in Nat \X Nat
      BY DEF Sessions
    <3> QED
      BY <3>1, FreshType
  <2>2. u.out = <<>> /\ u.exc = "none" /\ u.held = FALSE /\ u.got = 0 /\ u.wire = TRUE
    BY DEF Fresh
  <2> HIDE DEF u
  <2> QED
    BY <2>1, <2>2 DEF Idle, Sessions
<1> HIDE DEF u
<1>3. Counting(u)
  BY <1>1 DEF Counting
<1> QED
  BY <1>1, <1>2, <1>3 DEF u

(* The message that side s takes while the connection is up.               *)
LEMMA ReceiveOnward ==
    ASSUME TypeOK, NumbersCovered, NEW s \in Roles, NEW w \in Writable(s), NEW outcome,
           Reading(s), Unread(s) # <<>>, ~ses[s].starting
    PROVE  LET t == process(Wired(s, w), Head(Unread(s)), outcome, "ok")
           IN  /\ Onward(t, ses[s], link)
               /\ link /\ ~t.closed => Took(ses[s], t, Unread(s), Tail(Unread(s)))
<1> DEFINE p == Peer(s)
<1> DEFINE o == ses[s]
<1> DEFINE b == Wired(s, w)
<1> DEFINE c == Unread(s)
<1> DEFINE m == Head(Unread(s))
<1> DEFINE t == process(b, m, outcome, "ok")
<1>1. p \in Roles /\ Peer(p) = s /\ c = chan[p] /\ c \in Seq(Messages)
  BY DEF Peer, Roles, Unread, TypeOK
<1>2. m = c[1] /\ m \in Messages /\ 1 \in DOMAIN c
  BY <1>1
<1>3. ~o.rtx.on /\ ~o.shut
  BY DEF Reading, IsShutdown
<1>4. /\ b \in Sessions /\ Counting(b) /\ b.exc = "none" /\ b.out = <<>>
      /\ b.role = o.role /\ b.starting = o.starting /\ b.rtx = o.rtx
      /\ b.st = o.st /\ b.shut = o.shut /\ b.ns = o.ns
      /\ link => b.wire /\ ~b.closed
      /\ ~link \/ IsEstablished(o.st) => Onward(b, o, link)
  BY WiredOnward
<1> HIDE DEF b, m
<1>5. CASE ~link
  <2>1. Onward(b, o, FALSE)
    BY <1>4, <1>5 DEF TypeOK
  <2>2. Onward(t, o, FALSE)
    BY <1>2, <1>3, <1>4, <2>1, DownProcess
  <2>3. link = FALSE
    BY <1>5 DEF TypeOK
  <2> QED
    BY <1>5, <2>2, <2>3 DEF b, m
<1>6. CASE link
  <2>1. Flow(ses[p], o, c)
    BY <1>1, <1>6 DEF NumbersCovered
  <2>2. Regular(m) /\ (m.type = "Logon" => ~IsEstablished(o.st))
        /\ (~IsEstablished(o.st) => m.type = "Logon")
    <3>1. c # <<>>
      OBVIOUS
    <3> QED
      BY <1>2, <2>1, <3>1 DEF Flow
  <2>3. Onward(t, o, link) /\ Heard(t, m)
        /\ (~t.closed /\ o.role = "acceptor" /\ ~IsEstablished(o.st)
               => t.out # <<>> /\ t.out[1].type = "Logon")
    <3>1. CASE IsEstablished(o.st) /\ m.type = "SequenceReset"
      <4>1. Onward(t, o, link) /\ Heard(t, m)
        BY <1>3, <1>4, <2>2, <3>1, ResetOnward
      <4> QED
        BY <3>1, <4>1
    <3>2. CASE IsEstablished(o.st) /\ m.type # "SequenceReset"
      <4>1. Onward(t, o, link) /\ Heard(t, m)
        BY <1>3, <1>4, <2>2, <3>2, OrdinaryOnward
      <4> QED
        BY <3>2, <4>1
    <3>3. CASE ~IsEstablished(o.st)
      <4>1. b.st # "continuous"
        BY <1>4, <3>3 DEF IsEstablished, IsLive
      <4>2. /\ Onward(t, b, link) /\ Heard(t, m)
            /\ link /\ ~t.closed /\ b.role = "acceptor" => t.out # <<>> /\ t.out[1].type = "Logon"
        BY <1>3, <1>4, <2>2, <3>3, <4>1, LogonOnward
      <4> HIDE DEF t
      <4>3. Onward(t, o, link)
        BY <1>4, <4>2 DEF Onward
      <4> QED
        BY <1>4, <1>6, <4>2, <4>3
    <3> QED
      BY <3>1, <3>2, <3>3
  <2> HIDE DEF t
  <2>4. ~t.closed => Took(o, t, c, Tail(c))
    BY <1>3, <2>3 DEF Took, m
  <2> QED
    BY <2>3, <2>4 DEF t, b, m
<1> QED
  BY <1>5, <1>6

(* An application message sent while the reader counts: the numbers and    *)
(* what is written are those of the two operations, the record is neither. *)
LEMMA OvertakenOnward ==
    ASSUME NEW up, NEW o, NEW r, Onward(r, o, up),
           NEW a \in Messages, a.seq = 0, ~a.dup, a.type = "App"
    PROVE  LET t == put_control(send(r, a), r.ns, r.nr)
           IN  /\ Onward(t, o, up) /\ t.nr = r.nr /\ t.rtx = r.rtx /\ t.closed = r.closed
               /\ r.out # <<>> => t.out # <<>> /\ t.out[1] = r.out[1]
<1> DEFINE g == send_process(r, a, 0, FALSE)
<1> DEFINE t == put_control(g, r.ns, r.nr)
<1>1. r \in Sessions /\ r.ns \in Nat /\ r.nr \in Nat /\ r.nr > 0 /\ r.out \in Seq(Messages)
  <2>1. r \in Sessions /\ r.nr > 0
    BY DEF Onward, Counting
  <2> QED
    BY <2>1, CountType DEF Sessions
<1>2. FALSE \in BOOLEAN /\ 0 \in Nat
  OBVIOUS
<1>3. Onward(g, o, up) /\ Wrote(r, g, a, 0, FALSE)
  BY <1>1, <1>2, SendOnward, SendExact
<1> DEFINE x == Numbered(r, a, 0)
<1>4. /\ g \in Sessions /\ x \in Messages /\ g.nr = r.nr /\ g.rtx = r.rtx /\ g.closed = r.closed
      /\ g.out = r.out \/ g.out = Append(r.out, x)
  BY <1>3 DEF Wrote, SameLife
<1> HIDE DEF g, x
<1>5. r.out # <<>> => g.out # <<>> /\ g.out[1] = r.out[1]
  BY <1>1, <1>4
<1>6. t \in Sessions
  BY <1>1, <1>4, PersisterType
<1>7. /\ t.role = g.role /\ t.starting = g.starting /\ t.closed = g.closed /\ t.wire = g.wire
      /\ t.st = g.st /\ t.out = g.out /\ t.rtx = g.rtx /\ t.ns = g.ns /\ t.nr = g.nr
      /\ t.ctrl = IF g.per THEN <<r.ns, r.nr>> ELSE g.ctrl
  BY <1>4 DEF put_control, Sessions
<1> HIDE DEF t
<1>8. Counting(t)
  BY <1>1, <1>3, <1>4, <1>7 DEF Counting, Onward
<1>9. Onward(t, o, up)
  BY <1>3, <1>6, <1>7, <1>8 DEF Onward
<1> QED
  BY <1>4, <1>5, <1>7, <1>9 DEF send, t, g

(* Every step of a side keeps the numbers covered.                         *)
LEMMA SideCovered ==
    ASSUME TypeOK, RecordsTrue, NumbersCovered, ~Batches, "start" \notin Races, NEW s \in Roles,
           \/ Receive(s) \/ ResendNext(s) \/ ResendEnd(s) \/ ReaderEOF(s)
           \/ AppSend(s) \/ AppSendBatch(s) \/ AppLogout(s) \/ SendWhileCounting(s)
           \/ Tick(s) \/ TickEnd(s) \/ Crash(s) \/ CrashInSend(s)
    PROVE  NumbersCovered'
<1> DEFINE p == Peer(s)
<1> DEFINE o == ses[s]
<1>1. p \in Roles /\ p # s /\ \A r \in Roles : r = s \/ r = p
  BY DEF Peer, Roles
<1>2. /\ o \in Sessions /\ Counting(o) /\ Idle(o) = o /\ o.role = s /\ o.nr \in Nat
      /\ ses[p].role = p /\ Idle(ses[p]) = ses[p] /\ Counting(ses[p])
      /\ link \in BOOLEAN
  <2>1. o \in Sessions /\ link \in BOOLEAN
    BY DEF TypeOK
  <2> QED
    BY <1>1, <2>1, CountType DEF NumbersCovered
<1>3. link /\ (o.rtx.on \/ o.timer \/ o.tr) => IsEstablished(o.st)
  BY DEF NumbersCovered, Flow
<1>4. ASSUME NEW w \in Writable(s)
      PROVE  /\ Wired(s, w).rtx = o.rtx /\ Wired(s, w).nr = o.nr /\ Wired(s, w) \in Sessions
             /\ ~link \/ IsEstablished(o.st) => Onward(Wired(s, w), o, link)
  BY WiredOnward
<1>5. ASSUME NEW t, Commit(s, t, Unread(s)), Onward(t, o, link),
             link => IsEstablished(o.st),
             \/ t.nr = o.nr /\ t.rtx.on = o.rtx.on
             \/ t.nr = o.nr + 1 /\ o.rtx.on /\ ~t.rtx.on /\ (link /\ ~t.closed => t.out # <<>>)
      PROVE  NumbersCovered'
  <2>1. t.nr + Pending(t) = o.nr + Pending(o)
    BY <1>2, <1>5 DEF Pending
  <2>2. link /\ ~t.closed => TookNone(o, t, Unread(s), Unread(s))
    BY <1>5, <2>1 DEF TookNone
  <2> QED
    BY <1>5, <2>2, CommitCovered
<1>6. ASSUME ses'[s] = Killed(o), ses'[p] = ses[p], link' = FALSE
      PROVE  NumbersCovered'
  <2>1. ses'[s].role = s /\ Idle(ses'[s]) = ses'[s] /\ Counting(ses'[s])
    BY <1>2, <1>6, KilledCounting
  <2> HIDE DEF p, o
  <2>2. \A r \in Roles : ses'[r].role = r /\ Idle(ses'[r]) = ses'[r] /\ Counting(ses'[r])
    BY <1>1, <1>2, <1>6, <2>1
  <2> QED
    BY <1>6, <2>2 DEF NumbersCovered, Idle, Counting
<1>7. CASE Receive(s)
  <2>1. PICK w \in Writable(s), outcome \in {"ok", "throws"} :
           Commit(s, process(Wired(s, w), Head(Unread(s)), outcome, "ok"), Tail(Unread(s)))
    BY <1>7 DEF Receive
  <2>2. Reading(s) /\ Unread(s) # <<>> /\ ~o.starting
    BY <1>7 DEF Receive
  <2> DEFINE t == process(Wired(s, w), Head(Unread(s)), outcome, "ok")
  <2>3. /\ Onward(t, o, link)
        /\ link /\ ~t.closed => Took(o, t, Unread(s), Tail(Unread(s)))
    BY <2>2, ReceiveOnward
  <2>4. Commit(s, t, Tail(Unread(s)))
    BY <2>1
  <2> HIDE DEF t
  <2> QED
    BY <2>3, <2>4, CommitCovered
<1>8. CASE ResendNext(s)
  <2>1. PICK w \in Writable(s), record \in o.store :
           Commit(s, ResendStep(Wired(s, w), record), Unread(s))
    BY <1>8 DEF ResendNext
  <2>2. o.rtx.on
    BY <1>8 DEF ResendNext
  <2>3. record \in Nat \X Nat /\ record[1] # 0 /\ record[2] # 0
    BY DEF RecordsTrue, Honest, Filed
  <2> DEFINE t == ResendStep(Wired(s, w), record)
  <2>4. Onward(t, o, link) /\ t.nr = o.nr /\ t.rtx.on
    BY <1>2, <1>3, <1>4, <2>2, <2>3, ResendStepOnward
  <2>5. t.rtx.on = o.rtx.on
    <3>1. t.rtx.on \in BOOLEAN /\ o.rtx.on \in BOOLEAN
      BY <1>2, <2>4 DEF Onward, Sessions, RetransmissionContext
    <3> QED
      BY <2>2, <2>4, <3>1
  <2> QED
    BY <1>3, <1>5, <2>1, <2>2, <2>4, <2>5
<1>9. CASE ResendEnd(s)
  <2>1. PICK w \in Writable(s) : Commit(s, ResendDone(Wired(s, w)), Unread(s))
    BY <1>9 DEF ResendEnd
  <2>2. o.rtx.on
    BY <1>9 DEF ResendEnd
  <2> DEFINE b == Wired(s, w)
  <2> DEFINE t == ResendDone(b)
  <2>3. Onward(t, o, link) /\ t.nr = o.nr + 1 /\ ~t.rtx.on /\ (link /\ ~t.closed => t.out # <<>>)
    <3>1. Onward(b, o, link) /\ b.rtx.on /\ b.nr = o.nr
      BY <1>2, <1>3, <1>4, <2>2
    <3> HIDE DEF b
    <3>2. Onward(t, o, link) /\ t.nr = b.nr + 1 /\ ~t.rtx.on /\ (link /\ ~t.closed => t.out # <<>>)
      BY <3>1, ResendDoneOnward
    <3> QED
      BY <3>1, <3>2
  <2> QED
    BY <1>3, <1>5, <2>1, <2>2, <2>3
<1>10. CASE ReaderEOF(s)
  <2> DEFINE t == ReaderEnds(o)
  <2>1. ~link /\ Commit(s, t, Unread(s))
    BY <1>10 DEF ReaderEOF
  <2>2. /\ t \in Sessions /\ t.nr = o.nr /\ t.ctrl = o.ctrl /\ t.role = o.role
        /\ t.starting = o.starting /\ t.rtx = o.rtx
    <3>1. t \in Sessions
      BY <1>2, StateType
    <3> QED
      BY <1>2, <3>1 DEF ReaderEnds, do_state_change, Sessions
  <2>3. Counting(t)
    BY <1>2, <2>2 DEF Counting
  <2>4. Onward(t, o, link)
    BY <2>1, <2>2, <2>3, DownOnward
  <2> QED
    BY <1>5, <2>1, <2>2, <2>4
<1>11. ASSUME NEW w \in Writable(s), IsEstablished(o.st), NEW m \in Messages, m.seq = 0, ~m.dup,
              m.type \in {"App", "Logout"}, Commit(s, send(Wired(s, w), m), Unread(s))
       PROVE  NumbersCovered'
  <2> DEFINE b == Wired(s, w)
  <2> DEFINE t == send(b, m)
  <2>1. Onward(b, o, link) /\ b.rtx = o.rtx /\ b.nr = o.nr /\ b \in Sessions
    BY <1>4, <1>11
  <2>2. Commit(s, t, Unread(s))
    BY <1>11
  <2> HIDE DEF b
  <2>3. FALSE \in BOOLEAN /\ 0 \in Nat
    OBVIOUS
  <2>4. Onward(t, o, link)
    BY <1>11, <2>1, <2>3, SendOnward DEF send
  <2>5. Wrote(b, t, m, 0, FALSE)
    BY <1>11, <2>1, <2>3, SendExact DEF send
  <2> HIDE DEF t
  <2>6. t.nr = o.nr /\ t.rtx = o.rtx
    BY <2>1, <2>5 DEF Wrote, SameLife
  <2> QED
    BY <1>5, <1>11, <2>2, <2>4, <2>6
<1>12. CASE AppSend(s)
  <2> DEFINE m == generate_application(Len(sent[s]) + 1)
  <2>1. PICK w \in Writable(s) : Commit(s, send(Wired(s, w), m), Unread(s))
    BY <1>12 DEF AppSend
  <2>2. Len(sent[s]) + 1 \in Nat
    <3>1. sent[s] \in Seq(Nat)
      BY DEF TypeOK
    <3> QED
      BY <3>1
  <2>3. m \in Messages /\ m.seq = 0 /\ ~m.dup /\ m.type = "App"
    BY <2>2, GenerateType DEF generate_application, Msg
  <2> HIDE DEF m
  <2>4. IsEstablished(o.st)
    BY <1>12 DEF AppSend, AppMaySend
  <2> QED
    BY <1>11, <2>1, <2>3, <2>4
<1>13. CASE AppSendBatch(s)
  BY <1>13 DEF AppSendBatch
<1>14. CASE AppLogout(s)
  <2>1. PICK w \in Writable(s) : Commit(s, send(Wired(s, w), Msg("Logout")), Unread(s))
    BY <1>14 DEF AppLogout
  <2>2. /\ Msg("Logout") \in Messages /\ Msg("Logout").seq = 0 /\ ~Msg("Logout").dup
        /\ Msg("Logout").type = "Logout"
    BY MsgType DEF MsgTypes, Msg
  <2>3. IsEstablished(o.st)
    BY <1>14 DEF AppLogout, AppMaySend
  <2> QED
    BY <1>11, <2>1, <2>2, <2>3
<1>15. CASE Tick(s)
  <2>1. PICK w \in Writable(s), due \in BOOLEAN, idle \in BOOLEAN :
           Commit(s, heartbeat_service(Wired(s, w), due, idle), Unread(s))
    BY <1>15 DEF Tick
  <2>2. o.timer
    BY <1>15 DEF Tick
  <2> DEFINE t == heartbeat_service(Wired(s, w), due, idle)
  <2>3. Onward(t, o, link) /\ t.nr = o.nr /\ t.rtx = o.rtx
    BY <1>2, <1>3, <1>4, <2>2, TimerOnward
  <2> QED
    BY <1>3, <1>5, <2>1, <2>2, <2>3
<1>16. CASE TickEnd(s)
  <2> DEFINE t == TestRequestSent(o)
  <2>1. Commit(s, t, Unread(s)) /\ o.tr
    BY <1>16 DEF TickEnd
  <2>2. TRUE \in Writable(s) \/ ~link
    BY <1>2 DEF Writable, NumbersCovered, Flow
  <2>3. Onward(o, o, link)
    <3>1. CASE link
      <4>1. TRUE \in Writable(s) /\ IsEstablished(o.st)
        BY <1>3, <2>1, <2>2, <3>1
      <4>2. Onward(Wired(s, TRUE), o, link)
        BY <1>4, <4>1
      <4>3. Wired(s, TRUE) = o
        <5>1. o.wire = TRUE
          <6>1. Idle(o).wire = TRUE
            BY <1>2 DEF Idle, Sessions
          <6> QED
            BY <1>2, <6>1
        <5> QED
          BY <1>2, <5>1 DEF Wired, Sessions
      <4> QED
        BY <4>2, <4>3
    <3>2. CASE ~link
      BY <1>2, <3>2, DownOnward
    <3> QED
      BY <3>1, <3>2
  <2>4. /\ SameNumbers(o, t) /\ t.nr = o.nr /\ t.rtx = o.rtx
    <3>1. t \in Sessions
      BY <1>2, StateType
    <3>2. IsEstablished(t.st)
      BY <1>2 DEF TestRequestSent, IsEstablished, IsLive, Sessions
    <3> QED
      BY <1>2, <3>1, <3>2 DEF SameNumbers, TestRequestSent, Sessions
  <2> HIDE DEF t, o
  <2>5. Onward(t, o, link)
    BY <2>3, <2>4, SameOnward
  <2> QED
    BY <1>3, <1>5, <2>1, <2>4, <2>5
<1>17. CASE Crash(s)
  <2>1. ses'[s] = Killed(o) /\ ses'[p] = ses[p] /\ link' = FALSE
    BY <1>1, <1>17 DEF Crash, TypeOK
  <2> QED
    BY <1>6, <2>1
<1>18. CASE CrashInSend(s)
  <2>1. ses'[s] = Killed(o) /\ ses'[p] = ses[p] /\ link' = FALSE
    BY <1>1, <1>18 DEF CrashInSend, TypeOK
  <2> QED
    BY <1>6, <2>1
<1>19. CASE SendWhileCounting(s)
  <2> DEFINE b == Wired(s, TRUE)
  <2> DEFINE m == Head(Unread(s))
  <2> DEFINE a == generate_application(Len(sent[s]) + 1)
  <2> DEFINE r == process(b, m, "ok", "ok")
  <2> DEFINE t == SendOvertaken(b, m, a)
  <2>1. /\ Commit(s, t, Tail(Unread(s))) /\ Reading(s) /\ Unread(s) # <<>> /\ ~o.starting
        /\ TRUE \in Writable(s)
    BY <1>19 DEF SendWhileCounting
  <2>2. /\ Onward(r, o, link)
        /\ link /\ ~r.closed => Took(o, r, Unread(s), Tail(Unread(s)))
    BY <2>1, ReceiveOnward
  <2>3. a \in Messages /\ a.seq = 0 /\ ~a.dup /\ a.type = "App"
    <3>1. Len(sent[s]) + 1 \in Nat
      <4>1. sent[s] \in Seq(Nat)
        BY DEF TypeOK
      <4> QED
        BY <4>1
    <3> QED
      BY <3>1, GenerateType DEF generate_application, Msg
  <2> HIDE DEF r, a
  <2>4. t = put_control(send(r, a), r.ns, r.nr)
    BY DEF SendOvertaken, r
  <2> HIDE DEF t
  <2>5. /\ Onward(t, o, link) /\ t.nr = r.nr /\ t.rtx = r.rtx /\ t.closed = r.closed
        /\ r.out # <<>> => t.out # <<>> /\ t.out[1] = r.out[1]
    BY <2>2, <2>3, <2>4, OvertakenOnward
  <2>6. link /\ ~t.closed => Took(o, t, Unread(s), Tail(Unread(s)))
    BY SMTT(30), <2>2, <2>5 DEF Took, Heard, Pending
  <2> QED
    BY <2>1, <2>5, <2>6, CommitCovered
<1> QED
  BY <1>7, <1>8, <1>9, <1>10, <1>12, <1>13, <1>14, <1>15, <1>16, <1>17, <1>18, <1>19

(* A new connection: the initiator's logon is covered by its number, and   *)
(* the acceptor has said nothing.                                          *)
LEMMA ConnectCovered ==
    ASSUME TypeOK, NumbersCovered, Connect
    PROVE  NumbersCovered'
<1> DEFINE b == ses["initiator"]
<1> DEFINE d == ses["acceptor"]
<1> DEFINE purge == ResetSeqNums /\ ~Reliable
<1> DEFINE i == [b EXCEPT !.st = "not_logged_in", !.ns = 1, !.nr = 1, !.shut = FALSE,
                          !.closed = FALSE, !.starting = TRUE, !.rtx = NoRtx, !.tr = FALSE,
                          !.timer = FALSE, !.store = IF purge THEN {} ELSE @,
                          !.ctrl = IF purge THEN <<0, 0>> ELSE @]
<1> DEFINE r == IF ResetSeqNums THEN i ELSE recover_seqnums(i)
<1> DEFINE m == generate_logon("initiator")
<1> DEFINE t == StartInitiator(b)
<1> DEFINE a == StartAcceptor(d)
<1>1. /\ "initiator" \in Roles /\ "acceptor" \in Roles
      /\ \A s \in Roles : s = "initiator" \/ s = "acceptor"
      /\ Peer("initiator") = "acceptor" /\ Peer("acceptor") = "initiator"
  BY DEF Roles, Peer
<1>2. /\ b \in Sessions /\ d \in Sessions
      /\ b.role = "initiator" /\ Idle(b) = b /\ Counting(b)
      /\ d.role = "acceptor" /\ Idle(d) = d /\ Counting(d) /\ ~d.starting
  BY <1>1 DEF TypeOK, NumbersCovered, Connect
<1>3. /\ ses'["initiator"] = Idle(t) /\ ses'["acceptor"] = a
      /\ chan'["initiator"] = t.out /\ chan'["acceptor"] = <<>>
  BY <1>1 DEF Connect, TypeOK
<1>4. /\ i \in Sessions /\ i.nr = 1 /\ i.role = "initiator" /\ i.out = <<>> /\ i.wire
      /\ i.st = "not_logged_in" /\ ~i.closed /\ i.rtx = NoRtx /\ ~i.timer /\ ~i.tr
      /\ (i.ctrl = b.ctrl \/ i.ctrl = <<0, 0>>)
  <2>1. /\ NoRtx \in RetransmissionContext
        /\ {} \in SUBSET (Nat \X Nat) /\ <<0, 0>> \in Nat \X Nat
    BY DEF NoRtx, RetransmissionContext
  <2>2. b.out = <<>> /\ b.wire = TRUE
    <3>1. Idle(b).out = <<>> /\ Idle(b).wire = TRUE
      BY <1>2 DEF Idle, Sessions
    <3> QED
      BY <1>2, <3>1
  <2>3. i \in Sessions
    <3> DEFINE st == IF purge THEN {} ELSE b.store
    <3> DEFINE ct == IF purge THEN <<0, 0>> ELSE b.ctrl
    <3>1. st \in SUBSET (Nat \X Nat) /\ ct \in Nat \X Nat
      BY <1>2, <2>1 DEF Sessions
    <3> HIDE DEF st, ct
    <3> DEFINE y == [b EXCEPT !.st = "not_logged_in", !.ns = 1, !.nr = 1]
               x == [y EXCEPT !.shut = FALSE, !.closed = FALSE, !.starting = TRUE]
    <3>2. x \in Sessions
      <4>1. y \in Sessions
        <5> HIDE DEF b
        <5> QED
          BY <1>2 DEF Sessions, SessionStates
      <4> HIDE DEF y
      <4> QED
        BY <4>1 DEF Sessions
    <3>3. [x EXCEPT !.rtx = NoRtx, !.tr = FALSE, !.timer = FALSE, !.store = st, !.ctrl = ct]
             \in Sessions
      <4> HIDE DEF x
      <4> QED
        BY <2>1, <3>1, <3>2 DEF Sessions
    <3>4. i = [x EXCEPT !.rtx = NoRtx, !.tr = FALSE, !.timer = FALSE, !.store = st, !.ctrl = ct]
      <4> HIDE DEF b
      <4> QED
        BY <1>2 DEF Sessions, st, ct
    <3> QED
      BY <3>3, <3>4
  <2>4. /\ i.nr = 1 /\ i.role = b.role /\ i.out = b.out /\ i.wire = b.wire
        /\ i.st = "not_logged_in" /\ i.closed = FALSE /\ i.rtx = NoRtx
        /\ i.timer = FALSE /\ i.tr = FALSE
        /\ i.ctrl = IF purge THEN <<0, 0>> ELSE b.ctrl
    BY <1>2 DEF Sessions
  <2> HIDE DEF i, b
  <2> QED
    BY <1>2, <2>2, <2>3, <2>4
<1> HIDE DEF i
<1>5. Counting(i)
  BY <1>2, <1>4 DEF Counting
<1>6. /\ r \in Sessions /\ r.role = "initiator" /\ r.out = <<>> /\ r.wire
      /\ r.st = "not_logged_in" /\ ~r.closed /\ r.rtx = NoRtx /\ ~r.timer /\ ~r.tr
      /\ Counting(r)
  <2> DEFINE v == recover_seqnums(i)
  <2>1. v \in Sessions
    BY <1>4, PersisterType
  <2>2. /\ v.role = "initiator" /\ v.out = <<>> /\ v.wire
        /\ v.st = "not_logged_in" /\ ~v.closed /\ v.rtx = NoRtx /\ ~v.timer /\ ~v.tr
        /\ v.ctrl = i.ctrl /\ v.nr \in {i.nr, IF i.ctrl # <<0, 0>> THEN i.ctrl[2] ELSE i.nr}
    BY <1>4 DEF recover_seqnums, Sessions
  <2>3. Counting(v)
    BY <1>5, <2>2 DEF Counting
  <2> HIDE DEF v
  <2> QED
    BY <1>4, <1>5, <2>1, <2>2, <2>3 DEF v
<1> HIDE DEF r
<1>7. m \in Messages /\ m.seq = 0 /\ ~m.dup /\ m.type = "Logon"
  BY <1>1, GenerateType DEF generate_logon, Msg
<1>8. t = send_process(r, m, 0, FALSE)
  <2>1. StartInitiator(b) = send(r, m)
    BY DEF StartInitiator, r, i
  <2> QED
    BY <2>1 DEF send
<1> HIDE DEF t, m
<1> DEFINE x == Numbered(r, m, 0)
<1>9. /\ t \in Sessions /\ x \in Messages /\ SameLife(r, t) /\ t.nr = r.nr /\ t.closed = r.closed
      /\ t.out = <<x>> /\ t.ns = r.ns + 1 /\ t.ctrl \in {r.ctrl, <<r.ns + 1, r.nr>>}
      /\ x.type = "Logon" /\ x.seq = r.ns /\ ~x.dup
  <2>1. Wrote(r, t, m, 0, FALSE)
    <3>1. 0 \in Nat /\ FALSE \in BOOLEAN
      OBVIOUS
    <3> QED
      BY <1>6, <1>7, <1>8, <3>1, SendExact
  <2>2. x.type = m.type /\ x.seq = r.ns /\ x.dup = m.dup
    BY <1>7 DEF Messages, Numbered
  <2>3. Append(<<>>, x) = <<x>>
    OBVIOUS
  <2> HIDE DEF x
  <2> QED
    BY <1>6, <1>7, <2>1, <2>2, <2>3 DEF Wrote, x
<1> HIDE DEF x
<1>10. /\ Idle(t).role = "initiator" /\ Idle(Idle(t)) = Idle(t) /\ Counting(Idle(t))
       /\ Idle(t).closed = FALSE /\ Idle(t).st = "not_logged_in" /\ Idle(t).ns = t.ns
       /\ ~Idle(t).timer /\ ~Idle(t).tr /\ Idle(t).rtx = NoRtx /\ Idle(t) \in Sessions
  <2>1. /\ Idle(t).role = t.role /\ Idle(Idle(t)) = Idle(t) /\ Idle(t).nr = t.nr
        /\ Idle(t).ctrl = t.ctrl /\ Idle(t).closed = t.closed /\ Idle(t).st = t.st
        /\ Idle(t).ns = t.ns /\ Idle(t).timer = t.timer /\ Idle(t).tr = t.tr
        /\ Idle(t).rtx = t.rtx
    BY <1>9 DEF Idle, Sessions
  <2>2. Idle(t) \in Sessions
    BY <1>9, TransientType
  <2>3. t.closed = FALSE
    BY <1>6, <1>9 DEF Sessions
  <2>4. r.ns \in Nat /\ r.nr \in Nat
    BY <1>6, CountType
  <2>5. Counting(Idle(t))
    BY <1>6, <1>9, <2>1, <2>4 DEF Counting
  <2> QED
    BY <1>6, <1>9, <2>1, <2>2, <2>3, <2>5 DEF SameLife
<1>11. /\ a \in Sessions /\ a.role = "acceptor" /\ Idle(a) = a /\ Counting(a) /\ ~a.closed
       /\ a.st = "wait_for_logon" /\ a.nr = 1 /\ a.ns = 1 /\ a.rtx = NoRtx /\ ~a.timer /\ ~a.tr
       /\ ~a.starting
  <2>1. a \in Sessions
    BY <1>2, StartType
  <2>2. /\ a.role = "acceptor" /\ ~a.closed /\ a.st = "wait_for_logon" /\ a.nr = 1 /\ a.ns = 1
        /\ a.rtx = NoRtx /\ ~a.timer /\ ~a.tr /\ ~a.starting /\ a.ctrl = d.ctrl
    BY <1>2 DEF StartAcceptor, Sessions
  <2>3. Idle(a) = a
    <3>1. /\ d.out = <<>> /\ d.exc = "none" /\ d.held = FALSE /\ d.got = 0 /\ d.wire = TRUE
      <4>1. /\ Idle(d).out = <<>> /\ Idle(d).exc = "none" /\ Idle(d).held = FALSE
            /\ Idle(d).got = 0 /\ Idle(d).wire = TRUE
        BY <1>2 DEF Idle, Sessions
      <4> QED
        BY <1>2, <4>1
    <3>2. /\ a.out = <<>> /\ a.exc = "none" /\ a.held = FALSE /\ a.got = 0 /\ a.wire = TRUE
      BY <1>2, <3>1 DEF StartAcceptor, Sessions
    <3> HIDE DEF a
    <3> QED
      BY <2>1, <3>2 DEF Idle, Sessions
  <2>4. Counting(a)
    BY <1>2, <2>2 DEF Counting
  <2> QED
    BY <2>1, <2>2, <2>3, <2>4
<1> HIDE DEF a
<1>12. /\ IsLive("not_logged_in") /\ ~IsEstablished("not_logged_in")
       /\ IsLive("wait_for_logon") /\ ~IsEstablished("wait_for_logon")
       /\ ~NoRtx.on
  BY DEF IsLive, IsEstablished, NoRtx
<1>13. Flow(Idle(t), a, t.out)
  <2>1. t.out = <<x>> /\ t.out # <<>> /\ LastMsg(t.out) = x /\ t.out[1] = x /\ DOMAIN t.out = {1}
    BY <1>9 DEF LastMsg
  <2>2. Regular(x)
    BY <1>9 DEF Regular
  <2>3. Covered(x, t.ns)
    <3>1. r.ns \in Nat
      BY <1>6, CountType
    <3> QED
      BY <1>9, <3>1 DEF Covered, After
  <2> QED
    BY <1>9, <1>10, <1>11, <1>12, <2>1, <2>2, <2>3 DEF Flow
<1>14. Flow(a, Idle(t), <<>>)
  BY <1>10, <1>11, <1>12 DEF Flow
<1>15. ASSUME NEW s \in Roles
       PROVE  /\ ses'[s].role = s /\ Idle(ses'[s]) = ses'[s] /\ Counting(ses'[s])
              /\ Flow(ses'[s], ses'[Peer(s)], chan'[s])
  <2>1. CASE s = "initiator"
    BY <1>1, <1>3, <1>10, <1>13, <2>1
  <2>2. CASE s = "acceptor"
    BY <1>1, <1>3, <1>11, <1>14, <2>2
  <2> QED
    BY <1>1, <2>1, <2>2
<1> QED
  BY <1>15 DEF NumbersCovered, Idle, Counting, Flow, Peer

(* Whatever the threads, the network, the applications and their handlers  *)
(* do, whatever is lost or killed, the number each side expects stays      *)
(* covered by what its peer has written or goes on with.                   *)
THEOREM NumbersStayCovered ==
    ASSUME ~Batches, "start" \notin Races
    PROVE  Spec => []NumbersCovered
<1>1. Init => NumbersCovered
  <2> SUFFICES ASSUME Init
               PROVE  NumbersCovered
    OBVIOUS
  <2>1. ASSUME NEW s \in Roles
        PROVE  ses[s].role = s /\ Idle(ses[s]) = ses[s] /\ Counting(ses[s])
    <3> DEFINE t == Fresh(s, {}, <<0, 0>>)
    <3>1. {} \in SUBSET (Nat \X Nat) /\ <<0, 0>> \in Nat \X Nat
      OBVIOUS
    <3>2. t \in Sessions
      BY <3>1, FreshType
    <3>3. /\ t.role = s /\ t.nr = 1 /\ t.ctrl = <<0, 0>>
          /\ t.out = <<>> /\ t.exc = "none" /\ t.held = FALSE /\ t.got = 0 /\ t.wire = TRUE
      BY DEF Fresh
    <3>4. ses[s] = t
      BY DEF Init
    <3> HIDE DEF t
    <3>5. Idle(t) = t
      BY <3>2, <3>3 DEF Idle, Sessions
    <3>6. Counting(t)
      BY <3>3 DEF Counting
    <3> QED
      BY <3>3, <3>4, <3>5, <3>6
  <2>2. ~link
    BY DEF Init
  <2> QED
    BY <2>1, <2>2 DEF NumbersCovered
<1>2. TypeOK /\ RecordsTrue /\ NumbersCovered /\ [Next]_vars => NumbersCovered'
  <2> SUFFICES ASSUME TypeOK, RecordsTrue, NumbersCovered, [Next]_vars
               PROVE  NumbersCovered'
    OBVIOUS
  <2>1. CASE Connect
    BY SMTT(30), <2>1, ConnectCovered
  <2>2. CASE ConnectEnd
    <3> DEFINE t == ses["initiator"]
    <3> DEFINE u == [t EXCEPT !.st = "logon_sent", !.starting = FALSE]
    <3>1. /\ "initiator" \in Roles /\ t \in Sessions /\ t.starting
          /\ ses' = [ses EXCEPT !["initiator"] = u]
          /\ UNCHANGED <<chan, link>>
      BY <2>2 DEF ConnectEnd, Roles, TypeOK
    <3>2. /\ u.role = t.role /\ u.nr = t.nr /\ u.ctrl = t.ctrl /\ u.st = "logon_sent" /\ ~u.starting
          /\ u.closed = t.closed /\ u.timer = t.timer /\ u.tr = t.tr /\ u.rtx = t.rtx
          /\ u.ns = t.ns /\ (Idle(t) = t => Idle(u) = u) /\ u \in Sessions
      <4>1. u \in Sessions
        BY <3>1 DEF Sessions, SessionStates
      <4>2. Idle(t) = t => Idle(u) = u
        <5>1. /\ u.out = t.out /\ u.exc = t.exc /\ u.held = t.held /\ u.got = t.got /\ u.wire = t.wire
          BY <3>1 DEF Sessions
        <5>2. /\ Idle(t).out = <<>> /\ Idle(t).exc = "none" /\ Idle(t).held = FALSE
              /\ Idle(t).got = 0 /\ Idle(t).wire = TRUE
          BY <3>1 DEF Idle, Sessions
        <5>3. ASSUME u.out = <<>>, u.exc = "none", u.held = FALSE, u.got = 0, u.wire = TRUE
              PROVE  Idle(u) = u
          <6> HIDE DEF u
          <6> QED
            BY <4>1, <5>3 DEF Idle, Sessions
        <5> HIDE DEF u, t
        <5> QED
          BY <5>1, <5>2, <5>3
      <4> QED
        BY <3>1, <4>1, <4>2 DEF Sessions
    <3> HIDE DEF u
    <3>3. link => t.st = "not_logged_in"
      BY <3>1 DEF NumbersCovered, Flow
    <3>4. \A st \in {"not_logged_in", "logon_sent"} : IsLive(st) /\ ~IsEstablished(st)
      BY DEF IsLive, IsEstablished
    <3>5. Pending(u) = Pending(t) /\ Counting(u) = Counting(t)
      BY <3>2 DEF Pending, Counting
    <3>6. ASSUME NEW r \in Roles
          PROVE  ses'[r].role = r /\ Idle(ses'[r]) = ses'[r] /\ Counting(ses'[r])
      <4>1. ses[r].role = r /\ Idle(ses[r]) = ses[r] /\ Counting(ses[r])
        BY DEF NumbersCovered
      <4>2. ses'[r] = ses[r] \/ (r = "initiator" /\ ses'[r] = u)
        BY <3>1 DEF TypeOK
      <4> HIDE DEF t
      <4> QED
        BY <3>2, <3>5, <4>1, <4>2 DEF t
    <3>7. ASSUME link'
          PROVE  \A r \in Roles : Flow(ses'[r], ses'[Peer(r)], chan'[r])
      <4> DEFINE a == ses["acceptor"]
      <4>1. /\ link /\ Flow(t, a, chan["initiator"]) /\ Flow(a, t, chan["acceptor"])
        BY <3>1, <3>7 DEF NumbersCovered, Roles, Peer
      <4>2. /\ ses'["initiator"] = u /\ ses'["acceptor"] = a /\ chan' = chan
        BY <3>1 DEF TypeOK, Roles
      <4> HIDE DEF t, a
      <4>3. Flow(u, a, chan["initiator"])
        BY <3>2, <3>3, <3>4, <4>1 DEF Flow
      <4>4. Flow(a, u, chan["acceptor"])
        BY <3>2, <3>3, <3>4, <3>5, <4>1 DEF Flow
      <4> QED
        BY <4>2, <4>3, <4>4 DEF Roles, Peer
    <3> QED
      BY <3>6, <3>7 DEF NumbersCovered, Idle, Counting, Flow, Peer
  <2>3. CASE LinkFail
    BY <2>3 DEF LinkFail, NumbersCovered, Idle, Counting
  <2>4. CASE \E s \in Roles :
                \/ Receive(s) \/ ResendNext(s) \/ ResendEnd(s) \/ ReaderEOF(s)
                \/ AppSend(s) \/ AppSendBatch(s) \/ AppLogout(s) \/ SendWhileCounting(s)
                \/ Tick(s) \/ TickEnd(s) \/ Crash(s) \/ CrashInSend(s)
    BY <2>4, SideCovered
  <2>5. CASE UNCHANGED vars
    <3>1. ses' = ses /\ chan' = chan /\ link' = link
      BY <2>5 DEF vars
    <3> QED
      BY <3>1 DEF NumbersCovered
  <2> QED
    BY <2>1, <2>2, <2>3, <2>4, <2>5 DEF Next
<1> QED
  BY <1>1, <1>2, TypeCorrect, RecordsStayTrue, PTL DEF Spec

(* Once everything in flight is processed, no side expects a number beyond *)
(* the one its peer sends next (process, retrans_callback), for every      *)
(* bound and flag, with resends, lost connections, crashes and handlers    *)
(* that throw, and with every race but the one of start().                 *)
THEOREM NumbersAgreeWhenQuiet ==
    ASSUME ~Batches, "start" \notin Races
    PROVE  Spec => []QuietAgree
<1>1. TypeOK /\ NumbersCovered => QuietAgree
  <2> SUFFICES ASSUME TypeOK, NumbersCovered, Quiet, NEW s \in Roles
               PROVE  ses[s].nr <= ses[Peer(s)].ns
    BY DEF QuietAgree
  <2>1. Peer(s) \in Roles /\ Peer(Peer(s)) = s
    BY DEF Roles, Peer
  <2>2. Flow(ses[Peer(s)], ses[s], <<>>) /\ ~ses[Peer(s)].rtx.on /\ ~ses[s].rtx.on
        /\ ses[s].st = "continuous"
    BY <2>1 DEF NumbersCovered, Quiet
  <2>3. ses[s].nr + Pending(ses[s]) <= ses[Peer(s)].ns
    BY <2>2 DEF Flow, IsEstablished, IsLive
  <2>4. ses[s].nr \in Nat
    BY DEF TypeOK, Sessions
  <2> QED
    BY <2>2, <2>3, <2>4 DEF Pending
<1> QED
  BY <1>1, NumbersStayCovered, TypeCorrect, PTL

=============================================================================
