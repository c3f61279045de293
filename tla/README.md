# A verification model of the fix8 session engine

fix8 is a C++ framework for FIX sessions: a schema compiler generates message
classes, and a runtime keeps sessions with counterparties alive. This directory
models the runtime in TLA+: the numbering, resending and recovery of messages
between two engines, and of one engine against a counterparty that may send
anything; the stores they recover from; the threads of a session and how they
end; the client that reconnects; the logger; and the sequential parts (message
codec, check sum, dates, schedules) against reference definitions.
TLC checks the modules on small instances (the `.cfg` files), and TLAPS proves
the most important invariants for every value of the constants (the `*Proofs`
modules). Paths below are relative to `src/`.

## 1. Inventory

| component | state | operations | talks to |
|---|---|---|---|
| **Session** (`runtime/session.cpp`, `include/fix8/session.hpp`) | state (`st_*`), next send and receive numbers, shutdown flag, times of last send and receipt | `start`, `stop`, `process` and one handler per admin message, `send`/`send_process`, `retrans_callback`, `heartbeat_service`, `recover_seqnums` | called by reader, timer and application threads; calls connection, persister, timer |
| **Persister** (`include/fix8/persist.hpp`, `runtime/filepersist.cpp`, `runtime/persist.cpp`, memcached, redis) | messages by number, a control record with the two next numbers; for files an index file, a data file and an index in memory | `initialise`, `put` (message, control), `get` (message, range with callback, control), `purge` | called by the session, partly under `_per_spl` |
| **Connection, FIXReader, FIXWriter** (`runtime/connection.cpp`, `include/fix8/connection.hpp`) | socket, `_started`, cancellation tokens, in `pm_pipeline` two queues | `start`, `stop`, `join`, `read`, `write`, `write_batch` | one or three threads; calls `process` and `send_process` |
| **Timer** (`include/fix8/timer.hpp`) | event queue, spin lock held during callbacks | `schedule`, `clear`, thread loop | calls `heartbeat_service` |
| **Client wrappers** (`include/fix8/sessionwrapper.hpp`) | attempts, failover servers and their retries | constructor, `start`, reliability thread, destructor | own session, connection and persister |
| **Server wrapper, ServerManager** (`sessionwrapper.hpp`, `multisession.hpp`) | one `SessionInstance` per accepted connection | `create_server_instance`, `start`, `stop`, destructor | own session and connection |
| **Message codec** (`runtime/message.cpp`, `include/fix8/message.hpp`) | fields, presence bits, groups | `factory`, `decode`, `encode`, checksum | session, persister texts |
| **Fields, dates, schedules** (`field.hpp`, `tickval.hpp`, `f8utils.hpp`) | values | conversions, `Schedule::test` | codec, session |
| **Logger** (`runtime/logger.cpp`) | queue, buffer, files, thread codes, two line numbers | `enqueue`, thread loop, `flush`, `rotate`, `purge_thread_codes`, `stop` | everybody |
| **Configuration, XML** | elements | look-ups, `create_schedule` | wrappers, session |
| **f8c compiler** (`compiler/`) | the schema being compiled | one sequential pass that writes C++ | none at run time |

What is hard here, and what would make each part correct:

* *Numbers.* A session number is used once, although resending a range sets
  the next number back and forth, the control record is written after every
  message, and a restarted process continues from it. A gap must be noticed,
  asked for and filled, and the two sides must agree again afterwards although
  the receiver counts the message that revealed the gap and each one resent.
* *Threads.* Application threads, the reader, the timer and the starting thread
  all change the state and the numbers. `_con_spl` covers `send_process`,
  `_per_spl` covers a put; the handlers, the resend and `start` are covered by
  neither.
* *Stopping.* Every thread may call `stop()`, which takes the timer's lock,
  wakes and joins the other threads, perhaps the caller itself. It must return,
  the destructors must return, and nobody may use what they free.
* *Files.* A put is an index write and a data write at a shared file position; a
  range query moves that position; a process may be killed in between. What was
  put must be what is read, in this process and in the next.
* *Queues.* The Berkeley DB persister and the logger answer before their worker
  thread has written: order, draining at the end, and what a reader sees before
  that are all open to interleaving.
* *Codec.* A message is decoded, changed, copied and encoded again, with the
  order of arrival and the order of the schema in one table; a text is cut into
  header, body, groups and trailer only by which tags are legal where. Check sum and
  dates are fast arithmetic with limits. All must agree with their plain definitions.
* *Reconnecting.* A client must try again when it should, keep to its retries,
  visit every server, and end when it is told to.

The full list, at the lines where each hazard bites, is `hazards` in
`PROJECT.json`.

## 2. Modules

| module | models | composed from |
|---|---|---|
| `FixSession` | the session's operations as functions on a record (a session with its persister) | – |
| `SessionPair` | an initiator and an acceptor, the connection between them, their threads, crashes | `FixSession` |
| `FixSessionProofs` | lemmas: what each operation of a session returns | `FixSession` |
| `SessionPairProofs` | types, numbers sent and expected, records and resends of two engines | `SessionPair`, `FixSessionProofs` |
| `Persister` | what a session may expect of any persister (abstract specification) | – |
| `FilePersister` | files, descriptor position and index at the level of system calls | `Persister` by `INSTANCE` |
| `MCFilePersister` | two texts, of one and of two bytes | `FilePersister` |
| `FilePersisterProofs` | the file persister implements `Persister` | `FilePersister` |
| `EngineThreads` | the threads of one session, the timer's lock, the queues, `stop()` and the destructors | – |
| `EngineThreadsProofs` | `DestructionIsSafe` | `EngineThreads` |
| `ReliableClient` | the reliability thread, failover, and the destructor that races it | – |
| `SessionOpen` | one session, either role, against an arbitrary counterparty | `FixSession` |
| `SessionOpenProofs` | order of delivery, control record, stored messages | `SessionOpen`, `FixSessionProofs` |
| `QueuedPersister` | the memory, Berkeley DB, memcached and redis persisters under a session | – |
| `QueuedPersisterProofs` | draining, control record, recovery, queries | `QueuedPersister` |
| `Logger` | the logging thread, its queue, the buffer, rotation and stop | – |
| `LoggerProofs` | `LogAlwaysFaithful` | `Logger` |
| `MessageCodec` | messages: editing, copying, encoding, decoding | – |
| `Conversions` | the check sum, with its reference definition | – |
| `Dates` | time stamps, dates and months, against a calendar that counts | – |
| `Schedule` | `create_schedule`, `Schedule::test`, `activation_service` | – |
| `MCParts` | the last four, one at a time, with a cut of `schema/FIX44.xml` | `MessageCodec`, `Conversions`, `Dates`, `Schedule` |
| `SmallPartsProofs` | `RetriesAlwaysKept`, `ScheduleIsFollowed`, `DatesAreExact` | `ReliableClient`, `Schedule`, `Dates` |

### FixSession and SessionPair

A session is a record: `st` is `_state`, `ns` and `nr` are `_next_send_seq` and
`_next_receive_seq`, `ctrl` and `store` are the control record and the messages
of its persister, `rtx` the `RetransmissionContext` of a resend in progress,
`timer` and `tr` the heartbeat event and a test request about to be marked,
`closed` a socket this side has shut down. Fields `out`, `exc`, `held`, `got` and
`wire` carry results within one operation: messages written, the exception in
flight, whether `enforce` held the message back, the value given to the
application, whether the socket accepts data. They are reset by `Idle`.

An operator such as `handle_resend_request(t, m)` is the whole function of that
name: the session after the call, early returns and exceptions included.
`process` is the dispatch with its three catch clauses, the count of the received
message, the control record and the stop after a logout.

`SessionPair` makes these operators the steps of threads. The split follows what
other threads can come between: a resend is one step per message of the range
query (`ResendNext`) and a last one (`ResendEnd`), `start` is the logon and the
state change after it (`Connect`, `ConnectEnd`), `heartbeat_service` is the test
request and the state change after it (`Tick`, `TickEnd`), everything else is one
step. The constant `Races` says which unguarded interleavings a run lets happen:
sending during a resend (`"resend"`), receiving before `start` is over (`"start"`),
receiving before `TickEnd` (`"timer"`), a kill inside `send_process` (`"crash"`), and a
receipt that is counted and recorded while a sender has put its records and not yet
done `++_next_send_seq` (`"count"`, `SendWhileCounting`): `_per_spl` is released at
`session.cpp:1101`, the increment is at 1104, and `update_persist_seqnums` puts the old
number over the new control record. That window is modelled for an application's
send; a heartbeat of the timer and the logon of `start` are sent through the same lines
and meet it too. With `Races = {}` those steps exclude one another as if
the code held a lock: that is the engine as its authors meant it, and the runs
with races say what the missing locks cost. A handler of the application may
throw (`MaxThrows`); `Rethrows` says whether it may do so again on the
retransmission of a message.

A connection is a pair of sequences. A lost connection loses what is in flight, at
any moment (`LinkFail`); writes after it succeed or fail until the
reader notices. `Crash` kills a process between two operations: its successor
has the control record and the store, nothing else.

### Persister and FilePersister

`Persister` has one variable for what is stored, one for the control record and
one for the message handed to the last callback. `FilePersister` has the index file as a sequence of records,
the data file as a sequence of bytes (each named by its text and its place in
it), the descriptor's position, the index in memory, a put between its two
writes and a range query between its system calls. `Unlocked` lets a put run
during a range query, as the session does (`handle_resend_request` has its lock
commented out); `Tearing` lets the process be killed between the two writes.
Assumed: texts are not empty (an encoded message never is; the one exception is
the batch row of section 3), and a control record is written before the first
message, as `Session` does at each logon. Failing system calls and the rotation
of old files are left out.

### EngineThreads

Each thread has a program point. The steps of `Session::stop` and
`Connection::stop` (test the flag, set it, clear the timer, stop and join the
writer, stop the reader, shut the socket, join the reader) are steps any thread
may be in; joins wait for the thread, `TimerClear` waits for the timer's lock.
The owner waits for the reader or stops early, stops the session, deletes the
connection (which stops it once more and joins the callback thread) and deletes
the session (which joins the timer). It always calls `stop()` first, as the
programs in `test/` do. Role and process model (`mode`) are chosen in `Init`. The message content is reduced to what stops or
schedules something: logon, logout, other.

### ReliableClient

One step per statement of the reliability thread that another thread can come
between. What happens inside a connection is left to the other modules: it is up
until its reader ends. `_attempts` is only compared with `login_retries`, so it is
counted up to `LoginRetries + 2`. The servers and their `max_retries` are chosen in
`Init`, so that one run covers every mix.

### SessionOpen

The session of `FixSession` alone. `Receive` draws any message type, any number up
to `MaxSeq`, PossDup or not, every new number in a sequence reset, small ranges in a
resend request, logons with and without reset and with each outcome of
authentication, a text that does not decode, wrong comp ids and an
`OrigSendingTime` after the `SendingTime`. `process_any` adds those faults and the
activation check to `process`. The engine may be killed between operations, lose
its connection, start again with requested numbers, and be switched off and on by
its schedule. A write to the socket may fail (`MaxFails`): `send_process` then returns
before it puts or counts anything, and the operation that called it goes on. `log` is what the application was given; `last` names the operation
for the action properties.

### QueuedPersister

A store is a set of key and text pairs, key 0 the control record. The four kinds
differ as the code does: a `std::map` whose `insert` keeps the first value, a
database behind a queue and a worker thread, one get per key, a sorted set whose
control record is replaced by two commands. The session's half is its two numbers
and the order of its puts: a logon's control record first (`due`), a message and then its
control record, and the count of the number after them (`Count`). `Racing` lets a receipt be
recorded between the last two, as in `SessionPair`. An acceptor's `Session::stop` ends the
worker (`SessionStop`, `session.cpp:244`) while the process and its other threads go on:
what they put from then on, the record of a refused logon first of all (`PutRefused`), is
answered with `true` and stays in the queue (`Deaf`). `bytewise` remembers that a database was opened for a
purge, where `set_bt_compare` is not called; keys are then compared by their first
byte. A range query is its start, one step per record and the last callback.
Callbacks succeed, and the database answers.

### Logger

`worker` is the logging thread's place in its loop: the test of the token, the pop,
the number and letter, the write. The queue is either the FastFlow one (polled; an
empty line ends the thread) or the TBB one (blocking; an empty line is skipped).
`files` are the log and its predecessors; a rotation may fail to open the log, which
leaves a stream nothing can be written to. The mutex makes `rotate` and an unbuffered
write one step; a buffered write does not take it, so it may come between the two
halves of `flush`. `LogFaithful` compares any two lines kept by where they are: the
number of their file, the buffer last, and the place in it.

### MessageCodec, Conversions, Dates, Schedule

A text is a sequence of tag and value pairs; a part of a message has its fields, their
order, the present and suppressed flags, its groups and what was unknown. The
operators are the functions of those names; exceptions are `ok = FALSE`. Data of
length-prefixed fields is one value that contains a separator (`Separated`), read
in full after its length and cut off otherwise. `BodyLength` goes with `BeginString`.

`calc_chksum` is the word-wise algorithm over `Lanes` bytes of `Byte` values, with
words that wrap. `Dates` is a calendar that counts its days month by month, the
reference for the closed formula of `time_to_epoch`; digits are written, cut and
read as the code does, and seconds are pairs of days and seconds of a day (TLC's integers
are no wider than the code's). What is expected is what the calendar counted; only the code's
side wraps where its `int` does.
`Schedule` runs one poll per slot of a day.

## 3. Runs

| run | module | what it shows |
|---|---|---|
| `pair_recovery` | `SessionPair` | `NoSkip`, `ResendStateServed`, `QuietAgree`, `ExpectedCovers`: handlers throw twice, though not on a retransmission; the gaps they leave are asked for, resent and filled, with a heartbeat, a lost connection and a second logon in between |
| `pair_restart` | `SessionPair` | `TypeOK`, `NoSeqReuse`, `NumbersAhead`, `ResendFaithful` over a lost connection, a killed process and a second logon, with batches, throwing handlers and receipts before `start` is over |
| `pair_liveness` | `SessionPair` | `RecoveryEnds`, `LogonCompletes` under fairness, with kills inside `send_process` and sends that a receipt overtakes |
| `session_open` | `SessionOpen` | `DeliveredInOrder`, `RecordLag`, `ExpectedNeverFalls`, `NothingBeforeLogon`, `ResendableKept` whatever the counterparty sends and although a write fails |
| `file_contract` | `MCFilePersister` | `Recoverable`, `RangeComplete`, `Readable` and the refinement `KeepsContract` |
| `stores` | `QueuedPersister` | `QueryComplete`, `ControlCovers`, `StopDrains`, `RecoversItsNumbers`, and under fairness `Drained`, `QueryAnswered`, for four persisters under an initiator and an acceptor |
| `engine_stop` | `EngineThreads` | `SafeDestroy`, `StopReturns`, `DestructionEnds` for both roles in `pm_thread` and an initiator in `pm_pipeline` |
| `reliable_client` | `ReliableClient` | `RetriesKept`, `TriesEveryServer`, `StaysUpOrGivesUp`, `RecoversAlone` for one address and for three servers |
| `logger` | `Logger` | `LogFaithful`, `LineTaken`, `StopReturns` for both queues, buffered or not, appending or not |
| `parts` | `MCParts` | `RoundTrip`, `DecodeFaithful`, `SumExact`, `DatesExact`, `ScheduleFollowed` |
| `resend_race` | `SessionPair` | violated `NoSeqReuse`: sending during a resend |
| `dates` | `Dates` | violated `WorksTill2100`: from 19 January 2038 on the seconds of a time stamp are not those counted |

Each property that passes has a mutant in `PROJECT.json`, a plausible slip in one
mapped definition that breaks it. The findings there say what the code does and
which line says otherwise.

**Other disagreements.** The models show more than the two violation runs. Each
of these needs only another value of a constant, or a property without its
restriction; the passing runs keep away from them and the hazards name the lines.

| change | what TLC then shows |
|---|---|
| `pair_restart` with `Races = {"count"}` | `NumbersAhead` fails at once, `NoSeqReuse` and `NoSkip` after a kill: the reader has put the old send number over the new control record (`session.cpp:270`, 1104), and the successor uses a number again. Its logon usually takes it first, so that only a second kill or a message sent behind it shows two application messages under one number |
| `pair_restart` with `Races = {"crash"}` | `NoSeqReuse` fails: a process killed after the write and before the put has used a number its successor uses again |
| `pair_recovery` with `Races = {"resend"}`, `Rethrows = TRUE`, `MaxApp = 6`, `MaxThrows = 4` | `ResendFaithful` fails: the put of a number used again is refused, and a later resend carries the text first put |
| `pair_liveness` with `Races = {"start"}` | `LogonCompletes` fails: the reply is processed before `start` sets `st_logon_sent`, and the session stays there |
| `pair_recovery` with `Batches = TRUE` | `ResendStateServed` fails: the last message of a batch is stored as an empty text, and resending it throws |
| `pair_recovery` with `Reliable = ResetSeqNums = TRUE` | `ResendFaithful` fails: the numbers are reset, the store is kept |
| `file_contract` with `Unlocked = TRUE` | `Readable` fails: a range query moves the position a put writes at |
| `pair_recovery` with `Rethrows = TRUE` | `NoSkip` fails: the message that reveals a gap was counted although it was held back (`session.cpp:348`), so its retransmission is accepted also when the one before it made the handler throw once more |
| `pair_recovery` with `IgnoreLogonSeqCheck = TRUE` | `ExpectedCovers` fails: a message that reveals a gap in `st_test_request_sent` is held back and counted, and nothing is asked for; without the flag the session would end there (`session.cpp:444`) |
| `ExpectedCovers` without its condition on the other side | a recovery cut short by a kill leaves the receiver counting messages it never got (`session.cpp:352`). It shows only until the next logons have been exchanged: the killed side had not counted the request it was serving and refuses the logon |
| `engine_stop` with `Silences = {"initiator"}` | `StopReturns` fails: `heartbeat_service` gives up a silent peer inside a timer callback, and `stop()` waits in `Timer::clear` for the lock that callback's thread holds (`session.cpp:239`, `timer.hpp:152`, 196) |
| `Recovers` in `ReliableClient` | with failover servers a disconnect that throws nothing ends the loop (`sessionwrapper.hpp:463`), though line 280 says the client "attempts to recover from disconnects and login rejects" |
| `file_contract` with `Tearing = TRUE` | `Readable`, `RangeComplete` and `KeepsContract` fail: an index record without its data is shared by the next message |
| `NothingBeforeLogon` without its restriction to acceptors | an initiator that is sent a resend request before the logon serves it and is then in `st_continuous` (`session.cpp:667`, 693) |
| `ResendableKept` for all logons | a logon with reset that is then refused has purged the store (`session.cpp:562`) |
| `stores` with `Overtaking = TRUE` | `RecoversItsNumbers` fails: the Berkeley DB control record is read past the queue |
| `stores` with `Racing = TRUE` | `ControlCovers` fails, and with it `QueryComplete` for a persister that looks up its last number in the control record; the send number comes back one lower |
| `StopDrains` for all that was put | an acceptor's `stop()` ends the Berkeley DB worker (`session.cpp:244`): what is put afterwards is lost, although `put` returns "true on success" (`persist.hpp:76`) |
| `RecoversItsNumbers` with the memory persister | `get` reads the bytes of a string object, and `put` keeps the first record (`persist.cpp:367`, 377) |
| `stores` with `Tearing = TRUE` | `ControlCovers` fails: redis is without a control record between two commands |
| `stores` with `Radix = 2` | `QueryComplete` fails: keys of a purged database are compared bytewise, which shows from number 256 on (`persist.cpp:63`) |
| `logger` with `EmptyLines = TRUE` | `LineTaken` fails: an empty line ends the thread of a FastFlow build (`logger.cpp:90`) |
| `SumExact` without its limit | the check sum is too low once a lane has carried 256 times; a few thousand bytes are enough (`message.hpp:1198`) |
| `RoundTrip` with edits of a message with raw data, and `58` before `453` in the schema | the added field comes between the length and its data (`message.hpp:566`) |
| `ScheduleFollowed` without `Ordinary` | a schedule that ends at the last poll of a day, or that begins and ends on the same weekday, never ends; one whose days wrap round the week ends a day late (`session.hpp:279`) |
| `DestructionEnds` without `~Pipelined` | in `pm_pipeline` the callback thread is not told to quit once the reader has ended by itself (`connection.hpp:290`) |
| `SafeDestroy` without `Initiator` | an acceptor's `heartbeat_service` outlives the connection (`session.cpp:238`) |
| `owner = "join" ~> owner = "done"` in `ReliableClient` | the destructor waits for a thread that has connected again (`sessionwrapper.hpp:311`) |
| `[][ReaderLeaves => shut]_vars` in `ReliableClient` | a new reader sees the state of the lost connection and ends (`session.cpp:189`) |

**Bounds.** A gap needs one message that is not counted and one after it: two
application messages per side show the gap, and three put a message in the middle
of a resent range. Two throws make a gap of two, or a second gap behind the
first; there are two connections, because
what one leaves behind is met by the next; one loss, one crash and one heartbeat
each meet every other step, though not all in one run. `resend_race` needs four messages: two for the gap, one
during the resend, one after it. Liveness is checked over one connection, where a
recovery begins and ends. Three numbers and two text sizes give the range query an
empty range, a hole, both ends and offsets that differ. In `EngineThreads` one message after the
logon lets a logout meet each of the other ways a session is stopped, and bounds
the heartbeats waiting for the writer; a pipelined acceptor, whose four stopping
threads are beyond five minutes of TLC, is left out (`Pipelines`). Three servers
are the fewest where skipping one differs from going round. `CHECK_DEADLOCK FALSE`
throughout: the bounds run out, and a session or a client that has ended stays so.

In `session_open` four messages are a logon, one that makes a gap or sets the number,
one that is checked against it and one more; three numbers leave room below and
above the expected one; two starts let each connection meet what the last one left. One
operation may find the socket failing, and the counterparty then sends one message less:
a message rejected, and one whose rejection cannot be written, need three.
`stores` needs a message between two session messages for a hole, and one put
during a query: three numbers. Two threads and two letters make the letters run out when one is
not freed; two rotations move a file twice. Texts in `parts` have up to three
elements after the mandatory ones and up to four inside a group: enough for a repeated
tag, a nested element, an unknown tag before and after a known one, and data with a separator.
Bytes of four values and words of three make every lane carry into the next and the
carry counters themselves overflow within seven words. Every month from 1970
to 2099 is a state, with each of its days; `DatesExact` compares those before 2^31 seconds. A week of four days of three slots
has every order of two days and an hour before, in and after each window; two weeks
let the initial flag wear off.

**Fairness.** Weak fairness on the steps of the engine's own threads only: the
scheduler runs a thread that can run. The reliability thread is fair as a whole:
connecting succeeds or fails, since it has a timeout. The Berkeley DB worker and the
logging thread are threads like the others, and a range query is a loop of one of
them; `stop()` of the logger joins, and nobody is assumed to call it. Nothing is assumed of the network, the peer, the
application's wish to send or to stop, or of which thread wins a lock.

## 4. Proofs

The theorems hold for every value of the constants that meets the `ASSUME` of the
component's module and the hypotheses named here. A hypothesis is never about
states: it switches off a race, a kill or a configuration, and where that is known
to be needed, the table above shows what TLC finds without it.

**Two engines** (`SessionPairProofs`; `FixSessionProofs` has the lemmas about the
operators of `FixSession`, one per operator, that it shares with
`SessionOpenProofs`).

* `TypeCorrect`: `Spec => []TypeOK`, for all flags, races and bounds. Its content is
  that no number goes below zero: the code computes them unsigned and subtracts one
  in `handle_sequence_reset`. One lemma per operator shows that it maps sessions to
  sessions; each action then follows.
* `NumbersStayAhead`, `NumbersNotReused`: under `Undisturbed` (no sending during a
  resend, no receipt recorded while a sender has put and not counted, no kill inside
  `send_process`, no reset of the numbers),
  `Spec => []NumbersAhead` and `Spec => []NoSeqReuse`.
  `NoSeqReuse` is not inductive: nothing in it says that the next number is new.
  `NumbersAhead` adds that the numbers used are increasing, and that the control
  record, the number in memory and the number a resend will return to are beyond
  the last one used. The code keeps none of the first three: `resend_race` and the table
  above show what each costs. The theorems say what holds of the engine without them, so
  that what is left to repair is exactly these windows.
* `RecordsStayTrue`: `Spec => []RecordsTrue`, without hypotheses. A record on disk is
  the message sent under its number (`Filed`), what is written or in flight with
  PossDup comes from such a record (`Resent`), and a session in
  `st_resend_request_received` serves a resend unless batches are sent (`Honest`).
  Each operator of the session is shown not to invent records, duplicates or that
  state (`Alike`); only `send_process`, `ResendStep` and `handle_resend_request` need
  an argument of their own.
* `ResendStateIsServed` follows, under `~Batches`. With batches it is false: the
  empty text stored for a batch throws inside the range query.
* `ResendsAreFaithful` follows together with `NumbersAhead`, under `Undisturbed`: the
  record gives the message a number it was sent under, and increasing numbers make
  it the only one. A reset of the numbers and sending during a resend refute it (table
  above). `Races` may still hold `"start"` and `"timer"`.
* `NumbersStayCovered`, `NumbersAgreeWhenQuiet`: under `~Batches` and without the race
  of `start`, for every other race, flag, bound and any crashes, lost connections and
  throwing handlers. `QuietAgree` speaks of the rare moment when nothing is on its way.
  The invariant `NumbersCovered` speaks of every moment of a connection (`Flow`): the last
  message in flight, once counted, leaves its reader expecting no more than what the
  writer sends next (`Covered`); with nothing in flight the reader expects no more
  already; a logon comes first and before the reader is established; and only the
  side that serves a resend may write numbers that are not covered, since the gap fill
  at its end is. Each operator of the session is shown to go on from `Flow` to `Flow`
  (`Onward`). Without `~Batches` the empty text in the store would make a resend end
  in a Reject instead of the gap fill; in the race of `start` a session that has processed
  the logon falls back to `st_logon_sent`. Counting is not delivering: that is
  `ExpectedCovers`.

**One engine, any counterparty** (`SessionOpenProofs`, under `~ResetSeqNums`).
`DeliveryInOrder`, `RecordKeepsUp` are invariants (the latter gives each failed write one
more message of lag, for any `MaxFails`), `NumberNeverFalls`,
`LogonComesFirst`, `ResendableStays` action properties. `DeliveredInOrder` says
nothing of what comes next; `OpenInv` adds `Sound`: the number expected and the one
in the control record are beyond the last number delivered (the second because a
kill makes it the first), a session that is established, timed or resending has its
persister, and a resend runs only while the session is up. Operations are described
by what they may change (`Sent`, `Enforced`, `Handled`, then `Stepped` for whole
operations and `LoggedOn` for logons), so that the action properties are read off
the descriptions. The hypothesis says that nobody configured `reset_sequence_numbers`; with
it a start sets the number back although nothing was received. A counterparty may still ask for
a reset.

**Stores without files** (`QueuedPersisterProofs`, all four kinds).

* `StopLosesNothing`: `StopDrains` without hypotheses, for what was put before the
  session stopped. `DrainInv` says that what was accepted is the database with the queue
  written over it as long as the worker runs, and the database alone once it has ended
  (`Agree`), and that the buffer that ends the worker is the last one it finds in the queue,
  since `Session::stop` holds the lock of the puts until it has joined it (`QueueShape`).
* `RecoverFindsItsNumbers`: under `~Overtaking`. `NumbersInv` says that a store has one
  control record (`OneControl`) and that the last one accepted has the numbers in memory,
  but for a sender that has yet to count, or a receipt recorded before it did (`Current`).
* `ControlAlwaysCovers`: under `~Tearing`, `~Overtaking` and `~Racing`, each of which TLC
  shows to be needed. `CoverInv` adds that the control records in the queue rise
  (`Rising`), and that each message held stands behind one at or above its number (`Covered`).
* `QueriesAreComplete`: under the same hypotheses and, for the Berkeley database, keys of
  one byte (`MaxSeq < Radix`). `QueryInv` says what a query has given, what is left of its
  range, and that the store it walks has one record per key although puts go on.

**Files** (`FilePersisterProofs`, under `Sequential`: no overlap, no torn put):
`RestartLosesNothing`, `RangeIsComplete`, `EveryNumberItsMessage` and the refinement
`FilePersisterImplements`, for any numbers and texts. The inductive
invariant `FilesAgree` says that the index in memory is what loading the index
file gives, that each indexed text stands in the data file where its record
says, that texts do not overlap, that a put in progress is about to write at
the end, and what a range query has handed over so far. The table
of other disagreements shows that both assumptions are needed.

**Threads** (`EngineThreadsProofs`): `DestructionIsSafe`, `Spec => []SafeDestroy` for
every process model, every mix of silent peers and lost connections and any number
of messages. `SafeDestroy` only speaks of the end. `ThreadsInv` says along the way
which threads each join of the owner has met (`OwnerJoined`), that the timer's lock is held exactly
during a callback (`LockHeld`), and, the heart of it, that once the session is shut
down a callback still running is waited for by a thread that the owner joins
(`CallbackAwaited`): only the first caller of `stop()` clears the timer.

**Reconnecting** (`SmallPartsProofs`): `RetriesAlwaysKept`,
`Spec => []RetriesKept` for any servers. `RetriesKept` alone is not inductive: `Turns`
adds that a retry is left at every point from the start of an attempt to its end, and
that a thread leaves the search without one only when it has been asked to stop.

**Schedules and dates** (`SmallPartsProofs`). `ScheduleIsFollowed`,
`ScheduleSpec => []ScheduleFollowed`, for a week of any number of days and slots. The
invariant `ScheduleKept` says that a session is active in its window, and that one that
is active outside it became so there and has not been polled since the window's end.
`DatesAreExact`, `DatesSpec => []DatesExact`, for every day up to `LastYear`, at most
2099, and every time of it below 2^31 seconds; the run `dates` shows what comes after. `Counted` says that the days counted up to the first of the month are those of
the code's formula; the calendar takes a step per month, one case per length, and the
formula is right because up to 2099 every fourth year is a leap year. That what is
written is read back is a matter of digits: `TwoDigits`, `FourDigits` and `TwoBehind`
take the text apart, `WrittenAndRead` puts it together.

**Logger** (`LoggerProofs`): `LogAlwaysFaithful`, `Spec => []LogFaithful`, without
hypotheses. `LoggerInv` relates every line that was written to those on their way:
it is older than the line in the thread's hands and than everything queued, its
number was given out, and its thread, while alive, still has its letter; letters are
unique. Rotation then only has to keep the files in order, wherever their sequence
has a hole, and a flush only to keep the buffer behind the newest file.

Only model-checked:

* the liveness properties (`RecoveryEnds`, `LogonCompletes`, both `StopReturns`,
  `DestructionEnds`, `RecoversAlone`, `StaysUpOrGivesUp`, `TriesEveryServer`,
  `Drained`, `QueryAnswered`, `LineTaken`), which are out of the prover's reach;
* `RoundTrip`, `DecodeFaithful`, `SumExact`: the codec is recursive over texts and
  groups, the check sum a fold over bytes, and what they compute for every input needs
  induction over data, which the provers do not have;
* `NoSkip`, `ExpectedCovers`. With `Rethrows`, `Batches`, `IgnoreLogonSeqCheck` or the
  race of a resend or of `start` TLC refutes one of the two within seconds, so a theorem
  would exclude each of these. Their inductive
  invariant would have to say that what was delivered is a prefix of what was sent, and
  that each message still missing has, in the order of its number, a duplicate in
  flight, a place in the resend being served, or a request on its way, of which there
  may be two, since the end of one resend sets the state of its server back
  (`session.cpp:743`); and across connections, that a recovery cut short leaves the two
  sides with numbers that a logon refuses.

## 5. Known limits, found by reading

Behaviour of the code that the modules leave out on purpose, because it ends in
undefined behaviour or outside the parts modelled:

* Codec: `move_legal` with `force` looks a field up with the wrong end iterator and,
  for a group decoded with count 0, follows one (`message.cpp:324`, 334);
  `copy_legal` with `force` replaces the count and appends the elements;
  `Message::clear` deletes the automatic fields whose pointers `encode` keeps
  using, and leaves null groups and the unknown text behind; an element
  that does not parse inside a group without mandatory fields keeps `decode_group`
  in its loop; a repeated data field after its length is not noticed; a
  signature is not read by its length, since its tag is not one more
  (93 and 89); encoding twice without `setup_reuse` writes `8` and `9` twice;
  `process` takes the first `34=` in the text.
* Session: a rejected message whose reject cannot be written is counted in memory only, for
  as long as writes fail (`session.cpp:393`, 1073); a refused logon is counted and recorded like any other
  (`session.cpp:348`); a second logon is accepted in every state but
  `st_continuous`; test requests are answered before the logon; an inactive
  session counts application messages it drops.
* Logger: lines still queued at `stop()` are dropped, although the comment in
  `operator()` says pending messages are dequeued; buffered lines are only
  written by `flush`, which nobody calls; the destructors join the thread more than once;
  the thread starts before the file is open; the XML logger writes its last line
  before the thread has ended; `rotate` indexes by a number of files that it caps elsewhere.

## 6. Not modelled, and the plan

Next, in this order:

1. Proofs: `NoSkip` and `ExpectedCovers` from an invariant that gives each missing
   message its place in a recovery (section 4).
2. `FIXReader::read`: framing by length, and the requested numbers of an acceptor.
3. **ServerManager**: accepting and reaping instances. The retries of a plain client
   in `connect()`.

Left out for good: the schema compiler (one sequential pass producing text), the
XML reader (a parser that runs once before any session), most of the
configuration (its results are constants of the modules), the console menu,
compression, the unused message bus, and code generated from schemas. More than half
of the repository's lines are the vendored FastFlow library in `include/fix8/ff`, a
general framework of which the runtime uses one unbounded queue, a first-in
first-out sequence here; it is not modelled. Coroutine mode runs the
reader's steps on the application's thread and has no thread of its own.
