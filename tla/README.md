# SOCKS5 proxy: TLA+ specification

The program is a SOCKS v5 proxy (`CONNECT` only) with a management service,
written in C: one event loop (`selector.c` over `pselect`), one DNS thread, a
state machine per session. Paths below are relative to the repository (`src/`
is its source directory).

## 1. Inventory

| part | state | operations | interacts with |
|---|---|---|---|
| sessions, `src/shared/socks5.c`, `stm.c` | `struct socks5`: state, two fds, references, buffers, deadlines, what was logged; pool; list and number of active sessions | `passive_accept`, a handler per state, `pump`, `done`, `check_timeouts`, `destroy` | selector (interests, registration), DNS worker (submit, notification), users, metrics, log |
| tunnel, `copy_*` in `socks5.c`, `buffer.c` | two buffers, `eof`, `write_closed` and bytes per direction, interests of both fds | `copy_read`, `copy_write`, `copy_shutdown_write`, `copy_update_interests` | selector |
| selector, `src/shared/selector.c` | items, master and slave fd sets, list of notifications | `register`, `unregister_fd`, `set_interest`, `select`, `notify_block` | calls every handler; written to by the DNS thread under a mutex |
| DNS worker, `src/shared/dns_worker.c` | FIFO of jobs, `running` | `submit`, the thread, `destroy` | writes into the session, notifies the selector |
| server, `src/server/main.c` | `signal_count`, `draining`, listeners | the loop, signal handler, `cleanup` | all |
| management, `src/server/mng.c` | per session: line, response, authenticated, failures | `read`, `write`, `handle_line` and its commands | users, config, metrics |
| users, config, metrics, access log | tables and counters | lookups, changes, lines | sessions and management |
| parsers `hello.c`, `auth.c`, `request.c` | state of the message being read | `consume`, `marshall` | sessions |
| management client, `src/client/main.c` | the command, the place in its two exchanges | `build_command`, `connect_to`, `send_all`, `read_line` | management service, over TCP |
| `args.c`, `netutils.c` | - | command line, formatting | - |

What is hard here, and hard to test (`PROJECT.json` "hazards" has each at its
line):

- a `struct socks5` is shared by two registered fds and, while a name is being
  resolved, by a job of another thread: a reference count decides when it may
  be recycled, and six ways to end a session give references back;
- readiness is collected once and used after other handlers have run;
- `pump` chains handlers over what the client sent ahead of the replies;
- a connection is tried over several addresses, with a deadline that may strike
  between two of them and after the last one;
- only the interests keep a session going: an fd forgotten in `OP_NOOP` is a
  session that nobody will ever wake;
- half-closes, partial sends and full buffers of the tunnel in every order;
- descriptor numbers come back within one round, and readiness, DNS jobs and
  the selector's items are kept by number;
- the timeout sweep removes sessions from the list it walks, and `CONFIG SET`
  changes the timeouts of sessions in progress;
- the messages of both protocols arrive cut anywhere and pipelined;
- the process may be signalled at any moment, and its cleanup meets a thread
  that still has names to resolve.

Correctness of each part: *sessions* - exact references, no `abort()`, always a
wake-up, one log line per end, counters exact, no request without login when
login is required; *tunnel* - bytes conserved, no stall, no spinning, end of
stream after the data; *selector* - a handler only runs for the fd and interest
it was registered for; *DNS worker* - every job answered, in order, and nothing
written into a recycled session; *timeouts* - neither early nor late; *server* -
drain ends, nothing that `main` acquired left after cleanup, nothing used after it
was freed;
*management* - no command without login, responses in order, closed after three
failures; *users* - a map; *client* - its exit code tells what happened;
*parsers* - the same result for every fragmentation.

## 2. Modules

| module | models | uses |
|---|---|---|
| `Socks5` | sessions, one round of the loop and of the selector, the DNS thread | |
| `CopyRelay` | the `COPY` state with its buffers and interests | refines `Tunnel` |
| `Tunnel` | abstract specification of an open tunnel | |
| `ActiveList` | the doubly linked list of sessions and the sweep that walks it | |
| `Negotiation` | the three parsers over the read buffer, byte by byte | |
| `SelectorLoop` | descriptor numbers: kernel, selector and sessions | |
| `Timeouts` | the clock, the three timeouts, `CONFIG SET` | |
| `Management` | the management service with users, configuration and its counters | extends `UserStore`, refines `UserMap` |
| `UserStore`, `UserMap` | the functions of `users.c`; the map they promise | |
| `AdminClient` | the management client, composed with the service | extends `Management` |
| `Server` | the process: start-up, loop, signals, cleanup, DNS thread | |
| `CopyRelayProofs`, `Socks5Proofs`, `ActiveListProofs`, `NegotiationProofs`, `ServerProofs`, `TimeoutsProofs`, `SelectorLoopProofs` | proofs about the module they are named after | |
| `ManagementProofs` | proofs about `Management` with its `UserStore`, alone and with its client, and about `AdminClient` | extends `AdminClient` |
| `MCSocks5`, `MCNegotiation`, `MCAdminClient`, `MCSelectorLoop` | instances for TLC | |

Each of the modules about sessions (`Socks5`, `CopyRelay`, `Negotiation`,
`SelectorLoop`, `Timeouts`, `ActiveList`, `Server`) keeps what its question needs
of a session and leaves the rest to a choice: `Socks5` has every state and every
call and no bytes, `Negotiation` and `CopyRelay` have the bytes of one session
before and after the tunnel opens, the others reduce the states to the ones their
part of the code tells apart. The type invariant is a property of the run
in `Socks5`, a part of the proved `RelayInv` in `CopyRelay`, and the first conjunct
of the first invariant (`Framing` for `Management`) in the others.

### Socks5

A slot is one `struct socks5` in memory; the record `ses[s]` has its fields
(`refs` is `references`, `cint`/`oint` are the interests of `client_fd` and
`origin_fd`, "unreg" when the fd is not in the selector, `cur` is the length of
the list at `orig.conn.current`, `rb` says that `read_buffer` has bytes, `out`
is the reply in `write_buffer`; `dest`, `open`, `lgd`, `why` are
`destination_set`, `tunnel_opened`, `log_emitted`, `failure_reason != NULL`). The
last fields are histories: the session's log lines and its share of the counters.

The loop thread goes through `select -> iterate -> notify -> sweep`
(`phase`): `pselect`, `handle_iteration`, `handle_block_notifications`,
`socksv5_check_timeouts`. An action is one call of a handler of the state
machine with the jump and the `on_arrival` it causes. `socksv5_pump` chains
handlers; `running` holds the loop thread inside the chain, so that the DNS
thread can move between two handlers but no other session can. `End` is the
`socksv5_done` at the end of `socksv5_read`, `socksv5_write` and
`socksv5_block`.

The DNS thread takes a job, writes the answer through `result_target`, and posts
the notification; it may do so at any moment except while the loop holds
`resolution_mutex` (phase `notify`).

Abstractions. Bytes are outcomes: a handler that reads finds a message
incomplete, complete (with or without bytes left over) or wrong; one that writes
finishes, does not, or fails. Failures of `*_marshall` and of
`selector_set_interest` are the `ERROR` outcome. The users table is a choice at
each look-up. The clock is a choice, at each visit of the sweep, of whether the
deadline of the state has passed. `COPY` is an action that goes on, ends or fails.
Events are visited in any order except that a listening socket comes first
(it was opened first) and reads of an fd come before its writes. The readiness
bits of a closed fd are dropped: reuse of an fd number within a round is in
`SelectorLoop`. `conn-rejected` and a failed `malloc` in `selector_notify_block` are
left out. `Scrub` clears, when a struct is recycled, what `socks5_new` clears
before it is used again.

### CopyRelay and Tunnel

Direction `c2o` is `s->client.copy`, `o2c` is `s->orig.copy`. `rd` and `wr` are
the buffer's pointers; `got` counts what `recv` returned and `sent` is
`transferred`. An action is one call of `copy_read` or `copy_write` up to its
return, with `copy_shutdown_write`, `copy_is_done` and `copy_update_interests`.
`Init` lets `read_buffer` hold bytes the client sent ahead, anywhere in the buffer.
`buffer_compact` in `copy_read` is only reached with a full buffer, for which the
fd is not watched (`NoSpin`), so it has no action.

`Tunnel` says what the two ends see: bounded, loss-free streams, an end of stream
passed on once all was delivered, closed in the step that finishes the second
direction.

### ActiveList

`head`, `prev`, `next` and `count` are `g_active_head`, `active_prev`,
`active_next` and `g_active_sessions`. `Accept` inserts at the head, `Unlink` is
the first half of `socksv5_done`, `Sweep`, `Keep` and `Remove` are the loop of
`socksv5_check_timeouts` one session at a time. Handlers and sweep are in one
thread, so `Accept` and `Done` wait for the end of a sweep. `live`, `due` and
`visited` are histories; `ListExact` compares the pointers with them.

### Negotiation

The client's whole stream is chosen in `Init`; `got` and `rd` are the write and
read pointers of `read_buffer` counted in that stream and `base` is the byte at
`raw_read[0]`, so `got - base` is the room used and `buffer_read`'s return to the
beginning is `base' = got`. `HelloByte`, `AuthByte` and `RequestByte` are one
iteration of the `*_consume` loops, with `uint8_t` counters modulo 256 and arrays
of which only the written cells are kept. `busy` holds the steps of one handler
call, pump included, together. The reference (`HelloLen`, `AuthBad`, ...) reads
the stream as a whole, by position, and shares nothing with the parsers. The
reply is a number of bytes left in `write_buffer`. The users store is a set of
accounts that an administrator may replace between two events. The module ends
where the connection or the resolution begins.

### SelectorLoop

Numbers are `0..OsMax`, the lowest free one is handed out, the selector takes
those below `ItemsMax`. `item` is `fds[]` with `FD_UNUSED` as `used = FALSE`.
`handle_iteration` goes over the numbers in order, read before write; `Here` is the
next call it makes with the present items and interests and the readiness of
`pselect`, of which `slaveR` and `slaveW` keep what is still ahead. Operators on a "world" (table,
kernel, the session) follow the calls of a handler in their order: `Connect` is
`socket`, `connect`, `selector_register`, with the error path that closes again.
DNS jobs are numbers, as in `selector_notify_block`. `fresh` is a history: numbers
opened in this iteration. Growing the table is not reached: `main` asks for
`FD_SETSIZE` items at the start.

### Timeouts

Time passes only in `pselect`, at most `SelectTimeout` units in one call. A session
has the deadlines as the code sets them (`ndl`, `cdl`, `last`), and as history the
times and the settings they come from. `CheckTimeouts` is the body of the sweep's
loop for one session, `ConfigSet` a change of one of the three settings.

### Management, UserStore, UserMap

A session has the fields of `struct mng_session` and the two directions of its
connection. The stream is made of words, CR and LF: a word stands for the bytes
of a token, sizes count words. `ProcessInput` is `mng_process_input`: it stops at
the first byte that queues a response (`Stop`), and `WriteAll` calls it again for
what was left, as `mng_write` does. Responses are their kind (the wording is left
out) and `OutLen` bytes. `served`, `answers`, `asked`, `sent` and `got` are
histories. A peer may close, half-close or reset; `WriteKilled` is `send` without
`MSG_NOSIGNAL` on a connection that was closed and then reset.

`UserStore` is the table as a sequence, with the truncation of `strncpy` as a
function `Kept`; `UserMap` is the map that the protocol describes.
`ImplementsMap` says that each `USER` command does to the map, and answers,
what `UserMap` does.

### AdminClient

`cli[s]` is the program at the other end of descriptor `s`: nobody, a run of the
client with its arguments (an argument may hold spaces, so it is a sequence of
words), or another program with lines to say. `Start` is `main` up to the
connection; `SendAuth`, `ReadAuth`, `SendCommand`, `ReadReply` are the two
exchanges; `ExchangeFails` is any of them finding the connection gone. Arguments
hold no LF: `main` puts the bytes of `argv` into the line unchecked
(`client/main.c:117`, `126`, `177`), so an argument with an LF would send two lines;
what `Conforms` and `ExitTellsTruth` say is for arguments without one. The
service's steps are those of `Management`, unchanged. `-h`, `-L` and `-P` are left
out.

### Server

`pc` is the place in `main`; `have` are the resources the process holds and `given`
the arguments of the call of `cleanup` that was made: each failure of start-up
passes its own. The two tests of `signal_count` are two steps, and `Signal` can
come between any two steps once the handlers are installed. A round is `select`,
then any number of session events, then back to the tests. The DNS thread takes a
job, answers it, sleeps on its condition or ends; `StopDns` and `Join` are
`dns_worker_destroy`.

A session has its state, `fds`, the number of its open descriptors (the client's,
then the origin's), and `refs`, its `references`. `DestroySelector` runs the close
handler of every descriptor: for a SOCKS session that is `socks5_destroy`, which
gives one reference back and closes nothing, and since no notification is delivered
any more, a session in `REQUEST_RESOLV` keeps the reference of the DNS worker. `ses`
and `fds` stay as they are: `cleanup` neither unlinks a session nor closes its
descriptors.

## 3. Runs

| run | instance | shows |
|---|---|---|
| `sessions` | 3 structs, limit 2, pool of 1, lists of up to 2 addresses | the invariants of `Socks5` |
| `sessions_live` | 2 structs, no limit, 1 address | `Settles` |
| `relay` | buffers of 3 bytes, 5 bytes each way | `CopyRelay`'s invariants, `QuietAfterClose`, `Finishes`, `ImplementsTunnel` |
| `session_list` | 4 structs | `ListExact`, `EveryoneVisited` |
| `parsers` | 630 streams and the longest one, buffer of 10 bytes, store empty or with 2 accounts | `Decoded`, `RefusedExactly`, `NothingLeftWaiting` |
| `admin` | 2 descriptors, 4 requests, lines of 6 words, `in_buf` of 3, responses of 2 bytes, table of 2 | the client and the service |
| `deadlines` | 1 session, time up to 6, sleeps of up to 2, timeouts 0, 1, 3 | `NeverLate`, `NeverEarly` |
| `fd_table` | 3 sessions, numbers 0..5, selector takes 0..4 | `FdsExact`, `JobsReachAsker`, `StaleOnlyConnecting` |
| `shutdown` | 2 sessions, 2 administrators, 3 signals | `NoUseAfterFree`, `AllReleased`, `LeftAtExit`, `SecondSignalEnds`, `DrainEnds` |
| `admin_sigpipe` | as `admin` | violates `OnlyItsOwnPeer` |
| `idle_timeout` | 1 session, time up to 8, timeouts 0, 3 | violates `IdleSinceLastRead` |
| `fd_reuse` | 3 sessions, numbers 0..4 | violates `SuccessIsReal` |

Bounds. *Sessions* only meet through the round, the DNS queue, the pool and the
counters: two at a time show every pair of steps, and the third struct makes the
allocator choose between the pool and the heap, with a pool that overflows. Two
addresses are one that fails with another left and one that is the last. The
limit is reached and left. In `sessions_live` the second session is the one that
keeps both threads busy and the queue occupied. *Relay*: 3 bytes allow a partly
sent, a full and a full but partly sent buffer; 5 bytes are more than a buffer,
so that it is filled again after a reset. *List*: four structs are a head, a tail
and two in the middle, so that the sweep can remove two neighbours. *Parsers*:
10 bytes are the longest reply and shorter than most streams, so that messages
cross the end of the buffer; the streams combine right, wrong and unfinished
messages of each kind with more bytes behind them, names with a zero byte in
them, and names of 255 bytes, where each `uint8_t` is at its limit. *Admin*:
`in_buf` is shorter than a line, a line may be exactly as long as allowed or
longer, a response takes two sends, the table is empty or full; every program is
run alone and some in pairs over the same account. *Deadlines*: a timeout shorter
than a sleep, one longer, and the disabled one; sessions do not meet in this
code. *Fd_table*: three sessions can hold six numbers and there are five left, so
the kernel's and the selector's limits are both reached, and a number is closed
by one session, taken by a second and still ahead for a third. *Shutdown*: two
sessions are a job with the thread and one in the queue, which is what the join waits
for, or one that ended and one that is cut short in any state; the third signal is
like the second.

What the properties say:

- `ReferencesExact`: `references` is the number of pointers others hold, none to
  a recycled struct. `NeverAborts`: no `abort()` of `stm_handler_*` and
  `socksv5_done` is reached. `WakeUp`: when the loop sleeps, every session has an
  fd in the fd sets or a DNS job. `LogDiscipline`, `OriginCountedOnce`,
  `ActiveExact`: log, counters and connection limit. `AuthFirst`: nothing past the
  login without it, pipelined or not. `Settles`: a session opens its tunnel or
  ends.
- `Conservation`, `ClosedAfterDrain`, `NoStall`, `NoSpin`, `QuietAfterClose`: the
  relay's bytes, half-closes and interests. `Finishes`: both ends closed and read,
  it ends. `ImplementsTunnel`: it is a `Tunnel`.
- `ListExact`, `EveryoneVisited`: the list is the set of live sessions, and a
  sweep visits each once although it removes some.
- `Decoded`, `RefusedExactly`, `NothingLeftWaiting`: the same result for every
  fragmentation, an error exactly at the first wrong byte, and no message left in
  the buffer while the loop waits for the client.
- `Framing`: until a line is too long, no byte of the management stream lost,
  repeated or reordered and one response per line; "line too long" only after a
  request that was. `LocksOut`, `OnlyAuthorised`, `EndsForAReason`, `CountsExact`: login
  and lifetime. `ImplementsMap`: the users table. `ExitTellsTruth`, `Conforms`: the
  client's exit code and its use of the protocol. `NobodyWaits`: every request is
  answered and every run of the client ends.
- `NeverLate`, `NeverEarly`: the timeouts, with settings that change.
- `FdsExact`, `JobsReachAsker`, `StaleOnlyConnecting`: descriptor numbers.
- `NoUseAfterFree`: the DNS thread never meets a destroyed selector or a struct that
  was given back. `AllReleased`: every exit releases what `main` acquired, joins the
  thread and ends the management sessions. `LeftAtExit`: what is left of the SOCKS
  sessions, exactly: nothing of one that ended, so nothing at all after a drain; of
  one that cleanup cut short its descriptors, which only the end of the process
  closes, and its struct with the resolved addresses if it was in `REQUEST_RESOLV`.
  `SecondSignalEnds`, `DrainEnds`: the process does end.

Violations. `admin_sigpipe`: a peer that closed and then reset its connection
makes `send` raise SIGPIPE, which nobody handles or blocks, so that all sessions
end; the protocol document lists the causes for which a connection is closed, and
this one is none of them. `idle_timeout`: `copy_init` does not set `last_activity`,
so a tunnel whose setup took longer than the idle timeout is closed by the sweep
of the round that opened it; the design document counts from the last read in
`COPY`. `fd_reuse`: a session's descriptor with a write event still ahead is
closed, another session's `connect` gets its number in the same iteration, and
`connecting_write` reads `SO_ERROR` = 0 of a connect in progress: the client is told
of a success that may not come. `StaleOnlyConnecting` shows that this is the only
handler an old event reaches.

Disagreements between code and documents that were met while modelling and have
no run of their own: `USER SET` with a name of more than 255 bytes never finds the
entry it made and appends it again (`users.c:29`; `docs/management-protocol.md:177`
says it replaces the password), so `ImplementsMap` is for names that fit; the rest
of a line that was too long is taken for the next request, executed and answered
again (`mng.c:407`; `docs/management-protocol.md:28` has one response for such a
line, and the service does not keep to it), so `Framing` says nothing of what follows
one: the scene with the line `Long` in `MCAdminClient` reaches it, and `Conforms` shows
that the client never sends one; after a second signal a tunnel logged `OPEN` gets
no `CLOSE` (`main.c:230`; `docs/design.md:175`); and two signals between the tests
of `signal_count` skip the drain.

Fairness. `Socks5`: `ThreadFairness` says that the loop is never blocked for good
(`pselect` has a timeout of 10 s) and neither is the DNS thread, given that
`getaddrinfo` returns; `SF(DnsNotify)` is the mutex being obtained in the end.
`Settles` also needs the deadlines of the session it is about: they are absolute
times, so once passed they are passed at every later sweep (with the three
timeouts different from 0, otherwise a silent client may stay for ever, as
documented); and that `pselect` reports a client whose only traffic was a few
bytes of negotiation as writable. `CopyRelay`: an fd that stays ready is served,
the ends take what they are sent and close their streams in the end.
`AdminClient`: a program that can go on does, and a ready descriptor is served
(`WF(Client \/ Serves)`); nothing is assumed of interruptions, resets or other
programs. `Server`: both threads run; sessions need not end, and `DrainEnds` has as
its premise that the peers leave.

`CHECK_DEADLOCK FALSE` stands where a behaviour really ends: `relay` (`DONE` and
`ERROR`), `parsers` (the negotiation is over), `admin` (all programs have said what
they had to say), `deadlines` (the bound on the clock), `shutdown` (the process
exited). The other runs check for deadlock.

Every property of a passing run has a mutant in `PROJECT.json`: the operators
marked `(mutant)` in the modules are never used by the specification; put in the
place of the definition that follows them they make TLC report the property.

## 4. Proofs

For every buffer size and every number of bytes (`CopyRelayProofs`):

- `RelayInvariant`: `Spec => []RelayInv`. `RelayInv` is `TypeOK`, `Conservation`
  and `ClosedAfterDrain` strengthened by `EmptyIsReset` (an empty buffer begins
  at `data`, hence one without room has something to send), `ShutWhenDrained`
  (the step that drains a finished direction also shuts it), `InterestsCurrent`
  (the fd sets are those of the present buffers; every way out of a handler
  recomputes them) and the relay not being complete in `COPY`. Without the
  first two `NoStall` does not follow: a full empty buffer, or a drained
  direction that was not shut, has no fd to move it.
- `RelayConserves`, `RelayClosesLast`, `RelayNeverStalls`, `RelayNeverSpins` and
  `RelayQuiet` are `Conservation`, `ClosedAfterDrain`, `NoStall`, `NoSpin` and
  `QuietAfterClose` of the run `relay`; the last is an action property, proved
  from the invariant before the step.
- `RelayImplementsTunnel`: each call of `copy_read` or `copy_write` is one step of
  `Tunnel` or a stutter. The step that matters is the end of a handler
  (`ConcludeSettles`): by `ShutWhenDrained` and `ClosedAfterDrain` the relay is
  `DONE` exactly when both directions are drained.

Assumptions: `BufferSize` is a positive number. The invariants were checked by TLC
before they were proved.

For every finite set of structs, every length of the address lists, every pool
size and every connection limit (`Socks5Proofs`):

- `SessionInvariant`: `Spec => []SessionInv`. None of the properties below is
  inductive: that a reference is given back once depends on which fds are
  registered in the state the session is in. `Shape` therefore says, state by
  state, what the interests of both fds are, that a DNS job exists exactly in
  `REQUEST_RESOLV`, and how many references that makes; a struct that is not
  live has no fd and no job. `QueueInv` (each queued job once) is needed so that
  the job the DNS thread takes leaves no second one behind, and `LoopInv` (a
  session is in `DONE` or `ERROR` only inside the handler that will end it; the
  sweep only visits live sessions) so that a timeout never meets a session that
  is already ending.
- `Types`, `References`, `NoAbort` and `NoneForgotten` are `TypeOK`,
  `ReferencesExact`, `NeverAborts` and `WakeUp` of the run `sessions`.

The module has one lemma per operator on a session record (its type and the
fields `Shape` looks at), lemmas for the two ways a step can change a session
(`HandlerEnd`: by a handler that leaves it alive, `SlotStep`: by anything else)
and one lemma per action. Assumptions: `Slots` is finite and does not contain
`NoSlot`, `MaxAddrs` is positive, the limit and the pool size are numbers.

On top of it, in the same module and from the same assumptions:

- `PastInvariant`: `Spec => [](PastInv /\ ActiveExact)`. The histories of a session
  are not enough to say what a step may add to them, so `Past` ties them to the
  state: before `CONNECTING` nothing was counted (`OriginPast`), a reply other than
  success has its reason for the `FAIL` line and an `OPEN` exists exactly for a
  tunnel that opened (`LogPast`), and who waits for the answer to a rejected
  password has no destination (`AuthPast`). `ActiveExact` is inductive by itself,
  given that a struct leaves `Live` once, which is `SessionInv`.
- `AccessLog`, `OriginOnce`, `LoginFirst` and `ActiveCount` are `LogDiscipline`,
  `OriginCountedOnce`, `AuthFirst` and `ActiveExact` of the run `sessions`.

For every finite set of structs (`ActiveListProofs`):

- `ListInvariant`: `Spec => []ListInv`. `ListExact` follows the pointers from the head
  and counts, which says nothing about the middle of the list while it is cut.
  `ListInv` therefore names the list: there is a sequence without repetitions whose
  neighbours are `next` and `prev` of each other (`IsList`), and a sweep stands at
  some position of it, having visited once what it began with and is not from there
  on (`SweepAt`). Inserting shifts the sequence, `Unlink` drops a position of it.
- `ListOfLiveSessions` and `SweepReachesAll` are `ListExact` and `EveryoneVisited` (an
  action property) of `session_list`. That following `next` from the head reaches
  every position is an induction along the sequence.

For every set of byte streams, every fragmentation, every set of accounts and every
buffer that holds the longest reply (`NegotiationProofs`):

- `ParsersKnow`: `Spec => []NegotiationInv`. A parser consumes a byte at a time and what
  it will accept depends on counters and cells written long before, so `ParserInv`
  gives, for each number of bytes read of the present message, every field of the
  parser (`HelloKnows`, `AuthKnows`, `RequestKnows`): the counter still to go is the
  announced length less what was read, an array holds the bytes read and nothing
  else. `BufferInv` orders the pointers, an empty buffer is reset, and a session
  that reads is in the middle of a handler exactly when bytes are left; `SessionInv`
  ties the state to where its parser is.
- `RefusesExactly`, `LeavesNothingWaiting` and `DecodesExactly` are `RefusedExactly`,
  `NothingLeftWaiting` and `Decoded` of `parsers`: the reference definitions, which look
  at the stream as a whole, are compared with the fields of `ParserInv`. The
  `uint8_t` counters never wrap, because the length they count down was read from
  one byte.

Assumptions: `BufferSize` is at least 10 (4096 in the code), streams are
sequences of bytes.

For every finite set of sessions and any number of signals (`ServerProofs`):

- `ServerInvariant`: `Spec => []ServerInv`. `PcInv` says for each point of `main` what
  the process holds, in start-up what the next failure would hand to `cleanup` and
  in `cleanup` what remains of its arguments, and what the DNS thread can be doing
  there; that `cleanup` never gets a worker without a selector is what makes
  the thread's end come before the selector's. `JobsInv` (a name is queued, being
  resolved or answered, once) is needed because a session may only be freed when no
  job is left that would write into it. `RefsInv` counts: one reference for each
  registered descriptor and one for the DNS worker, of which the close handlers of
  `selector_destroy` give back the first kind only.
- `ThreadSafe`, `CleanExit` and `LeftBehind` are `NoUseAfterFree`, `AllReleased` and
  `LeftAtExit` of `shutdown`.

For every set of sessions and of settings, every length of a sleep and every bound
on the clock (`TimeoutsProofs`):

- `TimeoutsInvariant`: `Spec => []TimeoutsInv`. A deadline is kept, not a timeout, so
  `DeadlinesOf` ties it to the setting in force when it was set; `InTime` is
  `NeverLate` with the slack of the phase: just after a sweep nothing is late at all,
  which is what makes a sleep of at most `SelectTimeout` enough.
- `DeadlinesMet` is `NeverLate`; `NothingEarly` is `NeverEarly`, an action property.

Assumptions: the sleep and the bound on the clock are positive, settings are numbers.

For every number of sessions, every limit of the kernel and of the selector
(`SelectorLoopProofs`):

- `LoopInvariant`: `Spec => []LoopInv`. `FdInv` is `FdsExact` with what a session has
  in each state (`Shape`) and the listener's item. `JobsInv` is `JobsReachAsker` for
  the jobs in progress. `FreshInv` is about one iteration: while the listener has not
  been served nothing that `pselect` reported has been closed, so `accept`, which
  takes the lowest free number, never gets one that is still ahead; after that the
  only descriptors opened are those of `connect`, whose client is not listened to.
- `DescriptorsExact`, `AnswersReachAsker` and `StaleReadiness` are `FdsExact`,
  `JobsReachAsker` and `StaleOnlyConnecting` of `fd_table`.

Assumptions: the selector takes at least the listener's number, and `NoSlot` is
not a slot. The proof needs one induction, that a set of numbers has a least one,
which is the library's well-foundedness of the naturals.

For every finite set of sessions, any requests and any sizes, with arbitrary peers
(`Spec`) and with the client (`CSpec`) (`ManagementProofs`):

- `ServiceInvariant`: `[]ServiceInv` under both specifications. The count of failures is
  a number and `LocksOut` is about the answers given, so `FailuresExact` says that
  `failures` is the number of wrong secrets since the last right one (`InARow`).
  `Queued` says that output is watched exactly while a response is queued and that a
  session that is going to close has its last response queued: it does not
  read again, hence nothing follows "locked" or "bye". `CountsExact` is inductive
  given that only an open session is closed.
- `SessionsCounted`, `ThirdFailureLocks`, `SecretFirst` and `SessionsEndForAReason` are
  `CountsExact`, `LocksOut`, `OnlyAuthorised` and `EndsForAReason` of `admin`, the last two
  action properties.

Every step, of the service, of an arbitrary peer or of the client, is one of five
kinds (`ServiceStep`: a session begins, a step without an answer, one run of
`mng_process_input`, a session ends for a reason, the process is killed); the two
specifications differ only in the lemma that says so (`NextIs`, `CNextIs`).
`LineOutcome` is the lemma about the commands: five ways in which `handle_line`
leaves a session. On top of it, in the same module:

- `StreamInvariant`: `[]StreamInv` under both. `Framing` compares what was handled with
  what was sent; `StreamInv` adds what lies between (`InOrder`: the lines handled, the
  line, `in_buf` and the socket are what was sent, without the CRs), that a peer sends whole lines (`SentLines`), one response per
  line (`OneEach`), the sizes of all buffers and the types of the stores.
- `LinesFramed` is `Framing`; after a line that was too long it only says that such a
  line was sent and that every response is accounted for.
- `TableIsAMap` is `ImplementsMap` under the hypothesis `NamesFit`: each name that a
  `USER SET` of the behaviour adds fits in an entry (names that do not are the
  disagreement of section 3). All names of the scenes of `admin` fit, so the run
  checks the property without it. With no name twice in the array
  (`Unique`, kept by `users_add` and by the swap of `users_del`) `FindUser` is a
  function of the name.
- `PeersInvariant` and `RunsInvariant` are about the client (`CSpec`). A run ends before, after
  or while its session does, and its last response may be lost, so `RunsInv` counts:
  at each place of `main` how many lines were sent (`Talking`) and how many
  responses were read, wait in the inbox or are still queued (`Heard`), and what
  the service handled is a beginning of the run's lines, also when one side has gone
  (`Logged`, `Concluded`).
- `ClientConforms` and `ExitCodesTellTheTruth` are `Conforms` and `ExitTellsTruth` of `admin`.

Assumptions: `Sessions` is finite; a line, `in_buf` and a response are not empty; LF and
CR are not words, requests are made of words and CRs; the first tables have no name
twice and fit; what an entry keeps of a word it keeps whole; a command that the client
agrees to send is no longer than a line of the service (`CommandSize <= LineSize`: both
are 1024); a scene gives every descriptor a program that has not begun.

All the invariants were checked by TLC on the instances of the runs before they
were proved.

Where a fact is about sequences of any length (what taking the CRs out does to a
concatenation, that a list is reached from its head, that a set of numbers has a
least one) the proof takes the least counterexample, which exists because the
naturals are well-founded; `NoCR` is a recursive function for this reason.

Only model-checked: liveness (`Settles`, `Finishes`, `NobodyWaits`, `DrainEnds`,
`SecondSignalEnds`), because fairness and `ENABLED` are out of the prover's reach. Every
invariant, every other action property and both refinements of the passing runs
are theorems.

## 5. Plan

The modules were written in the order sessions, tunnel, list, parsers, descriptors,
timeouts, management with users and client, process; and the proofs after the
models they are about. All of them are done. What could be added is in section 6.

## 6. Not modelled

- `args.c`: runs once before the first socket, pure parsing of `argv` that ends the
  process on an error; its results are constants and initial stores here.
- `netutils.c` and the table from `errno` to reply codes: pure functions whose
  results no property tells apart.
- The text of log lines and responses, and the log file.
- Failure of `malloc` in `selector_notify_block` (`selector.c:516`): the DNS thread
  does not look at the result, so the session would stay in `REQUEST_RESOLV`.
- A clock that jumps (`time(NULL)` is the wall clock).
- That the loop spins while `accept` fails at the descriptor limit: `fd_table`
  reaches the limit, but a busy loop is not a wrong state.
