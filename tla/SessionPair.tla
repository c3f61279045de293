---------------------------- MODULE SessionPair ----------------------------
(***************************************************************************)
(* Two engines, an initiator and an acceptor, joined by a TCP connection.  *)
(* Each side runs a reader thread (Receive, ResendNext, ResendEnd,         *)
(* ReaderEOF), a timer thread (Tick, TickEnd), application threads         *)
(* (AppSend, AppSendBatch, AppLogout) and, for the initiator, the thread   *)
(* that starts the session (Connect, ConnectEnd).                          *)
(***************************************************************************)
EXTENDS FixSession

CONSTANTS
    Races,        \* which unguarded interleavings of threads may happen
    MaxApp,       \* application messages sent by each side
    MaxThrows,    \* times an application handler throws
    Rethrows,     \* it may also throw on the retransmission of a message
    MaxFails,     \* connections lost by the network
    MaxCrashes,   \* processes killed
    MaxTicks,     \* runs of heartbeat_service that find something to do
    MaxConnects,  \* connections made
    MaxLogouts,   \* logouts asked for by an application
    Batches       \* applications use send_batch

ASSUME BoundsAssumption ==
    /\ Races \subseteq {"resend", "start", "timer", "crash", "count"}
    /\ {MaxApp, MaxThrows, MaxFails, MaxCrashes, MaxTicks, MaxConnects, MaxLogouts}
           \subseteq Nat
    /\ Batches \in BOOLEAN
    /\ Rethrows \in BOOLEAN

VARIABLES
    ses,   \* ses[s]: the session of side s
    chan,  \* chan[s]: messages written by s and not yet read by its peer
    link,  \* TRUE while the connection is up
    sent,  \* sent[s][v]: sequence number under which s sent its v-th value
    rcvd,  \* rcvd[s]: values handed to the application of s, in order
    used   \* how much of each bound is used up

vars == <<ses, chan, link, sent, rcvd, used>>

Counters == {"throws", "fails", "crashes", "ticks", "connects", "logouts"}

Peer(s) == IF s = "initiator" THEN "acceptor" ELSE "initiator"

Use(c, max) == used[c] < max /\ used' = [used EXCEPT ![c] = @ + 1]

Idle(t) == [t EXCEPT !.out = <<>>, !.exc = "none", !.held = FALSE, !.got = 0, !.wire = TRUE]

(* Side s ends an operation as session t, having left rest unread: what it *)
(* wrote goes on the wire; if it closed the socket, it reads no more.      *)
Commit(s, t, rest) ==
    /\ ses' = [ses EXCEPT ![s] = Idle(t)]
    /\ chan' = [chan EXCEPT ![s] = IF link THEN @ \o t.out ELSE @,
                            ![Peer(s)] = IF t.closed THEN <<>> ELSE rest]
    /\ link' = (link /\ ~t.closed)
    /\ rcvd' = [rcvd EXCEPT ![s] = IF t.got = 0 THEN @ ELSE Append(@, t.got)]

(* What the socket may answer to a write: after the connection is lost it  *)
(* accepts data until the loss is noticed.                                 *)
Writable(s) ==
    CASE ses[s].closed          -> {FALSE}
      [] link                   -> {TRUE}
      [] ~link /\ ~ses[s].closed -> BOOLEAN

Wired(s, w) == [ses[s] EXCEPT !.wire = w]

Unread(s) == chan[Peer(s)]

-----------------------------------------------------------------------------
(* Reader thread *)

Reading(s) == ~IsShutdown(ses[s]) /\ ses[s].st # "none" /\ ~ses[s].rtx.on

Receive(s) ==
    /\ Reading(s)
    /\ Unread(s) # <<>>
    /\ ses[s].starting => "start" \in Races
    /\ ses[s].tr => "timer" \in Races
    /\ \E w \in Writable(s), outcome \in {"ok", "throws"} :
          /\ IF outcome = "throws"
             THEN /\ Head(Unread(s)).type = "App"
                  /\ Rethrows \/ ~Head(Unread(s)).dup
                  /\ Use("throws", MaxThrows)
             ELSE UNCHANGED used
          /\ Commit(s, process(Wired(s, w), Head(Unread(s)), outcome, "ok"),
                    Tail(Unread(s)))
    /\ UNCHANGED sent

ResendNext(s) ==
    /\ ses[s].rtx.on
    /\ \E w \in Writable(s), record \in ses[s].store :
          /\ record[1] \in ses[s].rtx.todo
          /\ \A q \in ses[s].rtx.todo : record[1] <= q
          /\ Commit(s, ResendStep(Wired(s, w), record), Unread(s))
    /\ UNCHANGED <<sent, used>>

ResendEnd(s) ==
    /\ ses[s].rtx.on /\ ses[s].rtx.todo = {}
    /\ \E w \in Writable(s) : Commit(s, ResendDone(Wired(s, w)), Unread(s))
    /\ UNCHANGED <<sent, used>>

ReaderEOF(s) ==
    /\ Reading(s) /\ ~link /\ Unread(s) = <<>>
    /\ Commit(s, ReaderEnds(ses[s]), <<>>)
    /\ UNCHANGED <<sent, used>>

-----------------------------------------------------------------------------
(* Application threads *)

MayInterfere(s) == ses[s].rtx.on => "resend" \in Races

AppMaySend(s) ==
    /\ IsEstablished(ses[s].st) /\ ~IsShutdown(ses[s])
    /\ MayInterfere(s)

AppSend(s) ==
    /\ AppMaySend(s)
    /\ Len(sent[s]) < MaxApp
    /\ \E w \in Writable(s) :
          /\ Commit(s, send(Wired(s, w), generate_application(Len(sent[s]) + 1)), Unread(s))
          /\ sent' = [sent EXCEPT ![s] = IF w THEN Append(@, ses[s].ns) ELSE @]
    /\ UNCHANGED used

AppSendBatch(s) ==
    /\ Batches
    /\ AppMaySend(s)
    /\ Len(sent[s]) + 1 < MaxApp
    /\ LET v == Len(sent[s]) + 1
       IN  \E w \in Writable(s) :
              /\ Commit(s, send_batch(Wired(s, w), generate_application(v),
                                      generate_application(v + 1)), Unread(s))
              /\ sent' = [sent EXCEPT ![s] = IF w THEN Append(Append(@, ses[s].ns), ses[s].ns + 1)
                                             ELSE Append(@, ses[s].ns)]
    /\ UNCHANGED used

AppLogout(s) ==
    /\ AppMaySend(s)
    /\ Use("logouts", MaxLogouts)
    /\ \E w \in Writable(s) : Commit(s, send(Wired(s, w), Msg("Logout")), Unread(s))
    /\ UNCHANGED sent

(* An application sends while the reader counts the next message, whose    *)
(* control record overtakes the number: the handler has run, what follows  *)
(* it is Finish.  A logout is left to Receive: it ends the session.        *)
SendWhileCounting(s) ==
    /\ "count" \in Races
    /\ Reading(s) /\ Unread(s) # <<>> /\ ~ses[s].starting /\ ~ses[s].tr
    /\ Len(sent[s]) < MaxApp
    /\ LET m == Head(Unread(s))
           r == process(Wired(s, TRUE), m, "ok", "ok")
       IN  /\ TRUE \in Writable(s)
           /\ m.type \notin {"Malformed", "Logout"}
           /\ r.exc = "none" /\ ~r.rtx.on
           /\ IsEstablished(r.st) /\ ~IsShutdown(r)
           /\ Commit(s, SendOvertaken(Wired(s, TRUE), m, generate_application(Len(sent[s]) + 1)),
                     Tail(Unread(s)))
           /\ sent' = [sent EXCEPT ![s] = Append(@, r.ns)]
    /\ UNCHANGED used

-----------------------------------------------------------------------------
(* Timer thread *)

Tick(s) ==
    /\ ses[s].timer /\ ~ses[s].tr /\ ~IsShutdown(ses[s])
    /\ MayInterfere(s)
    /\ Use("ticks", MaxTicks)
    /\ \E w \in Writable(s), due \in BOOLEAN, idle \in BOOLEAN :
          /\ due \/ idle
          /\ Commit(s, heartbeat_service(Wired(s, w), due, idle), Unread(s))
    /\ UNCHANGED sent

TickEnd(s) ==
    /\ ses[s].tr
    /\ Commit(s, TestRequestSent(ses[s]), Unread(s))
    /\ UNCHANGED <<sent, used>>

-----------------------------------------------------------------------------
(* Connections *)

Ended(s) == (IsShutdown(ses[s]) \/ ses[s].st = "none") /\ ~ses[s].rtx.on

Connect ==
    /\ ~link
    /\ \A s \in Roles : Ended(s) /\ ~ses[s].tr /\ ~ses[s].starting
    /\ Use("connects", MaxConnects)
    /\ LET i == StartInitiator(ses["initiator"])
       IN  /\ ses' = [ses EXCEPT !["initiator"] = Idle(i), !["acceptor"] = StartAcceptor(@)]
           /\ chan' = [chan EXCEPT !["initiator"] = i.out, !["acceptor"] = <<>>]
    /\ link' = TRUE
    /\ UNCHANGED <<sent, rcvd>>

(* start() goes on to set the state, whatever the reader has done since.   *)
ConnectEnd ==
    /\ ses["initiator"].starting
    /\ ses' = [ses EXCEPT !["initiator"].st = "logon_sent", !["initiator"].starting = FALSE]
    /\ UNCHANGED <<chan, link, sent, rcvd, used>>

LinkFail ==
    /\ link
    /\ Use("fails", MaxFails)
    /\ link' = FALSE
    /\ chan' = [s \in Roles |-> <<>>]
    /\ UNCHANGED <<ses, sent, rcvd>>

(* The process of side s is killed.                                        *)
Crash(s) ==
    /\ ses[s].st # "none"
    /\ Use("crashes", MaxCrashes)
    /\ ses' = [ses EXCEPT ![s] = Killed(ses[s])]
    /\ link' = FALSE
    /\ chan' \in {[chan EXCEPT ![Peer(s)] = <<>>], [t \in Roles |-> <<>>]}
    /\ UNCHANGED <<sent, rcvd>>

(* The process is killed inside send_process, between the write to the     *)
(* socket and the calls to the persister.                                  *)
CrashInSend(s) ==
    /\ "crash" \in Races
    /\ AppMaySend(s) /\ link /\ ~ses[s].closed
    /\ Len(sent[s]) < MaxApp
    /\ Use("crashes", MaxCrashes)
    /\ ses' = [ses EXCEPT ![s] = Killed(ses[s])]
    /\ link' = FALSE
    /\ chan' = [chan EXCEPT ![s] = Append(@, Stamp(ses[s], generate_application(Len(sent[s]) + 1), 0)),
                            ![Peer(s)] = <<>>]
    /\ sent' = [sent EXCEPT ![s] = Append(@, ses[s].ns)]
    /\ UNCHANGED rcvd

-----------------------------------------------------------------------------
Init ==
    /\ ses = [s \in Roles |-> Fresh(s, {}, <<0, 0>>)]
    /\ chan = [s \in Roles |-> <<>>]
    /\ link = FALSE
    /\ sent = [s \in Roles |-> <<>>]
    /\ rcvd = [s \in Roles |-> <<>>]
    /\ used = [c \in Counters |-> 0]

Next ==
    \/ Connect
    \/ ConnectEnd
    \/ LinkFail
    \/ \E s \in Roles :
          \/ Receive(s)
          \/ ResendNext(s)
          \/ ResendEnd(s)
          \/ ReaderEOF(s)
          \/ AppSend(s)
          \/ AppSendBatch(s)
          \/ AppLogout(s)
          \/ SendWhileCounting(s)
          \/ Tick(s)
          \/ TickEnd(s)
          \/ Crash(s)
          \/ CrashInSend(s)

Spec == Init /\ [][Next]_vars

(* The threads of the engine keep running; the network and the             *)
(* applications owe nothing.                                               *)
Fairness ==
    /\ WF_vars(ConnectEnd)
    /\ \A s \in Roles : /\ WF_vars(Receive(s))
                        /\ WF_vars(ResendNext(s))
                        /\ WF_vars(ResendEnd(s))
                        /\ WF_vars(ReaderEOF(s))
                        /\ WF_vars(TickEnd(s))

FairSpec == Spec /\ Fairness

-----------------------------------------------------------------------------
(* Properties *)

(* Every variable has its type: in particular the sequence numbers, which  *)
(* the code keeps as unsigned integers and computes by subtraction in      *)
(* handle_sequence_reset, never fall below zero.                           *)
TypeOK ==
    /\ ses \in [Roles -> Sessions]
    /\ chan \in [Roles -> Seq(Messages)]
    /\ link \in BOOLEAN
    /\ sent \in [Roles -> Seq(Nat)]
    /\ rcvd \in [Roles -> Seq(Nat)]
    /\ used \in [Counters -> Nat]

(* No two application messages of a side ever carry the same sequence      *)
(* number as originals, across resends, lost connections, crashes and      *)
(* restarts (send_process, retrans_callback, recover_seqnums).             *)
NoSeqReuse ==
    \A s \in Roles : \A v, w \in DOMAIN sent[s] : v # w => sent[s][v] # sent[s][w]

(* Session t, whose application last used number b, goes on beyond b: the  *)
(* control record on disk is ahead of it, and so is the number in memory,  *)
(* and the one a resend in progress will go back to, once the persister    *)
(* has been read.  Only a session with a persister comes to send           *)
(* application messages.                                                   *)
Ahead(t, b) ==
    /\ b < t.ctrl[1]
    /\ t.role = "initiator" \/ IsEstablished(t.st) \/ t.timer \/ t.tr \/ t.rtx.on => t.per
    /\ t.per /\ t.st # "none" => b < t.ns
    /\ t.rtx.on => b < t.rtx.interrupted
    /\ t.timer \/ t.tr \/ t.rtx.on \/ t.starting => t.st # "none"

Increasing(q) == \A v, w \in DOMAIN q : v < w => q[v] < q[w]

LastOf(q) == IF q = <<>> THEN -1 ELSE q[Len(q)]

(* At every moment each side could be killed and would still number its    *)
(* next message beyond all it has used (send_process, put, recover_seqnums, *)
(* retrans_callback): the inductive form of NoSeqReuse.                    *)
NumbersAhead ==
    \A s \in Roles :
        /\ ses[s].role = s
        /\ Increasing(sent[s])
        /\ Ahead(ses[s], LastOf(sent[s]))

(* The application never sees a message before the one sent ahead of it:   *)
(* what enforce holds back is recovered first.                             *)
NoSkip ==
    \A s \in Roles : \A i \in DOMAIN rcvd[s] :
        rcvd[s][i] = 1 \/ \E j \in 1 .. i - 1 : rcvd[s][j] = rcvd[s][i] - 1

(* A retransmission with PossDupFlag carries the message last sent under   *)
(* its sequence number (put, get, retrans_callback).                       *)
ResendFaithful ==
    \A s \in Roles : \A i \in DOMAIN chan[s] :
        LET m == chan[s][i]
            V == {v \in DOMAIN sent[s] : sent[s][v] = m.seq}
        IN  m.type = "App" /\ m.dup => m.val \in V /\ \A v \in V : v <= m.val

(* A session is in st_resend_request_received only while it is serving a   *)
(* resend request: in that state handle_resend_request ignores requests.   *)
ResendStateServed ==
    \A s \in Roles : ses[s].st = "resend_request_received" => ses[s].rtx.on

Quiet == link /\ \A s \in Roles : chan[s] = <<>> /\ ses[s].st = "continuous" /\ ~ses[s].rtx.on

(* Once everything in flight is processed and both sides are back in       *)
(* st_continuous, no side expects a number beyond the one its peer sends   *)
(* next, although process() counts the message that reveals a gap and      *)
(* every retransmitted one.                                                *)
QuietAgree == Quiet => \A s \in Roles : ses[s].nr <= ses[Peer(s)].ns

Undelivered(s) ==
    {v \in DOMAIN sent[Peer(s)] : \A i \in DOMAIN rcvd[s] : rcvd[s][i] # v}

(* Once a side has processed all that its peer wrote and both are back in  *)
(* st_continuous, it does not expect a number beyond that of a message it  *)
(* has not handed to its application: the next message reveals the gap,    *)
(* and the request it triggers begins early enough (process,               *)
(* sequence_check).                                                        *)
ExpectedCovers ==
    \A s \in Roles :
        /\ link /\ chan[Peer(s)] = <<>>
        /\ \A r \in Roles : ses[r].st = "continuous"
        => \A v \in Undelivered(s) : ses[s].nr <= sent[Peer(s)][v]

(* A side that asked for a resend is answered: it leaves                   *)
(* st_resend_request_sent or the session ends.                             *)
RecoveryEnds ==
    \A s \in Roles :
        (ses[s].st = "resend_request_sent" /\ ~IsShutdown(ses[s]))
            ~> (ses[s].st # "resend_request_sent" \/ IsShutdown(ses[s]))

(* A connection ends up with both sides past the logon, or is given up.    *)
LogonCompletes ==
    link ~> (~link \/ \A s \in Roles : IsEstablished(ses[s].st))

=============================================================================
