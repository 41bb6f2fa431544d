# TLA+ models of pion

This directory holds TLA+ models of the pion HTTP engine (`src/`), the TLC
configurations that check them, and `PROJECT.json`, which records the source
lines each definition stands for, the runs, the mutants that validate each
property, the findings and the list of hazards the properties target.

## 1. Inventory

The repository ships only part of pion's sources. `src/` holds the scheduler,
the connection watchdog timer, two HTTP headers (`request_writer.hpp`,
`response_reader.hpp`), HTTP constants, string utilities, basic
authentication, the plugin server's configuration parser, process
utilities, admin rights, the FileService header and a test stub. The
connection, the HTTP reader/parser (`reader.cpp`, `parser.cpp`), the writer
(`writer.cpp`, `message.cpp`) and `scheduler.hpp` are not in `src/`. Where
a model needs them, it models them from `spec.md` and `PROJECT.json` marks
those definitions `spec_modelled`.

| Component | Source | State | Operations | Concurrency and failure |
|---|---|---|---|---|
| Scheduler | `src/src/scheduler.cpp` | `m_is_running`, `m_active_users`, `m_mutex`, two condition variables, the thread pool, the io_services | `startup` (single-service and one-to-one), `add_active_user`, `remove_active_user`, `shutdown`, `join`, `keep_running`, `process_service_work` | user threads, controller threads and worker threads share the state. Some reads of `m_is_running` take no lock. Condition-variable waits can wake spuriously. `shutdown` holds the mutex while it joins the workers. |
| WatchdogTimer | `src/src/tcp_timer.cpp` | `m_timer_active`, `m_was_cancelled`, the asio wait | `start`, `cancel`, `timer_callback` | the callback runs on any worker and races the read's completion handler, which calls `cancel`. The callback ignores the error code. |
| Connection | not in `src/` | socket, keep-alive flag | `async_read_some`, `async_write`, `cancel`, `close`/`finish` | `cancel` aborts only operations still outstanding |
| MessageReader | `response_reader.hpp` (the parser is not in `src/`) | parse state, partial tokens, the message | `read_bytes`, `consume_bytes`, the two callbacks | partial reads; a timeout abort shows up as an error |
| MessageWriter | `request_writer.hpp` (`writer.cpp` is not in `src/`) | buffer list, chunked flag | `write`, `write_no_copy`, `send`, `send_final_chunk`, `handle_write` | one completion per send; `clear()` after each chunk |
| BasicAuth | `src/src/http_basic_auth.cpp` | user cache (credentials to last-use time and user), `m_cache_cleanup_time` | `handle_request`, `parse_authorization`, `parse_credentials`, `handle_unauthorized`, `set_option` | concurrent requests on worker threads. `m_cache_cleanup_time` is read and written without the cache mutex. |
| PluginServer config | `src/src/http_plugin_server.cpp` | parse state, command/resource/value strings, the auth object | `load_service_config` (a character-level state machine), `add_service`, `load_service`, `set_service_option` | bad input; the order of commands |
| String utilities | `src/src/string_utils.cpp` | none (pure functions) | `url_decode`, `url_encode`, `split`, `trim`, `starts_with`, ... | edge cases: `%` near the end, strtol partial parses, NUL |
| Process | `src/src/process.cpp` | `shutdown_now`, its mutex and condition variable; on Win32 the dump directory, DbgHelp handle, dump procedure and exception filter; the descriptor table and session that `daemonize` changes | `shutdown`, `wait_for_shutdown`, `initialize` (signal handlers), `daemonize`, `set_dumpfile_directory`, `unhandled_exception_filter` | a signal handler takes a mutex; a reconfiguration can throw halfway |
| AdminRights | `src/src/admin_rights.cpp` | a static mutex held while rights are raised, `m_has_rights`, `m_user_id` | constructor, `release`, `run_as_user`, `run_as_group`, `find_system_id` | non-recursive mutex held across calls; field splitting |
| HTTP types | `src/src/http_types.cpp` | constants | `get_date_string`, `make_query_string`, `make_set_cookie_header` | formatting only |
| FileService, InterfaceStub, error, noncopyable | headers | declarations | none in `src/` | none |

### How the parts interact

The Scheduler owns the worker threads. Servers and connections register with
it as active users. A client writes each request with a MessageWriter; then the response reader starts a WatchdogTimer for each
read, then calls `async_read_some`. The read completion runs on a worker
thread and cancels the timer. The timer callback also runs on a worker. If the
timer has not been cancelled, the callback cancels the connection, and the
outstanding read completes with `operation_aborted`. Parsed requests go to
handlers. BasicAuth sits in front of the handlers and answers 401 through a
response writer. `load_service_config` builds the services and the auth
object at start-up. Process and AdminRights are called by the embedding
program.

### What makes each part correct

- **Scheduler:** `shutdown` stops only once no user is active. No `join`
  caller is left blocked after the scheduler stops. `shutdown` returns
  because every worker leaves its loop. A thread whose `add_active_user` has
  returned has a running scheduler.
- **WatchdogTimer:** once `cancel()` has returned, the callback does not
  cancel the connection. So a read is aborted only by its own timer. A read
  whose peer never answers is ended by the timeout.
- **BasicAuth:** a request is accepted only with credentials the user manager
  accepts, or with cached credentials recently used. A credential the user
  manager has dropped stops working within a bounded time of its last use
  (twice the expiry, as the code stands). The cache cleanup never evicts a
  record that is still fresh.
- **Config parser:** every well-formed line is applied. A malformed line
  affects only that line. A `restrict` or `user` line never runs before an
  `auth` line.
- **MessageWriter:** the peer decodes exactly the body the caller handed
  over, in order and once, whether it is framed by Content-Length or sent in
  chunks. The send callback reports success only once the peer has all of
  it. This is the abstract specification `BodyStream`.
- **URL codec:** `url_decode(url_encode(s)) = s`. An invalid escape is left
  as literal text (spec §9).
- **Process:** `wait_for_shutdown` returns after `shutdown`, including a
  `shutdown` called from a signal handler.

## 2. Plan

The most important behaviour comes first:

1. `Scheduler`: done. It models all of `scheduler.cpp`.
2. `WatchdogTimer`: done. It models the timer, the reader's use of it, and
   `connection::cancel`. The last two are spec-modelled.
3. `BasicAuth`: done. It models concurrent `handle_request` over the
   credential cache, and covers the cache cleanup racing insertions and the
   unlocked `m_cache_cleanup_time`.
4. `ConfigParser`: done. It models `load_service_config` as a state
   machine over a word-level alphabet, checked against a line-by-line
   reference.
5. `UrlCodec` and `StringUtils`: done. `url_encode` is a RECURSIVE
   operator and the loop of `url_decode` a state machine, both over bytes.
   `trim`, `to_lower`, `iequals`, `strip_filename`, `strip_parent_dir` and
   `make_query_string` are operators, each checked against what
   `string_utils.hpp` documents.
6. `ProcessShutdown`: done. It models `shutdown` and `wait_for_shutdown`
   with a signal handler that interrupts the waiting thread.
7. `AdminRights`: done. It models the static mutex across the constructor
   and `release`, `run_as_user` and `run_as_group`, and `find_system_id`
   over `split`.
8. `MessageWriter`: done. `RequestWriter` models `request_writer` over
   `http::writer`'s write and send operations (spec 4.4). Through INSTANCE
   ... WITH, each writer is shown to implement the abstract `BodyStream`.
9. `ClientConnection`: done. It composes `RequestWriter` and
   `WatchdogTimer` on one keep-alive connection. Each round writes a
   request, then reads its response under the watchdog.
10. The chunked-body decoder of spec 4.3 (`ChunkedBody`, spec-modelled):
   done. It decodes, byte by byte, what `RequestWriter` puts on the wire.
   Next: the start-line and header parser; then the scheduler's
   active-user registration of a connection, as an INSTANCE of `Scheduler`.
11. `parse_authorization` and `parse_credentials` in `BasicAuth`: done,
   with the cache keyed by the raw credentials. The Win32 build of
   `admin_rights`: done, in `AdminRights` beside the POSIX one.
12. `DumpFile`: done. It models the Win32 dump-file configuration and
   exception filter, composed with `ProcessShutdown` in the
   `process_shutdown` run.
13. `Daemonize`: done. It models `daemonize` on both builds, called before
   any thread starts, in the same run.

## 3. Modules and runs

### Scheduler (`Scheduler.tla`, `MCScheduler.tla`)

**State.** The module's variables are `is_running`, `active_users`,
`mutex`, the waiter sets of the two condition variables (`no_users_cv`,
`stopped_cv`), a program counter per user or controller thread, `wpc` per
worker, and `stopped` per io_service. Every section that runs under
`m_mutex` without waiting is one atomic step guarded by `mutex = NoThread`.
The mutex is held across steps only between the end of `shutdown`'s drain
loop and the join of the workers.

**Actions.**
- `add_active_user` is split at its unlocked read of `m_is_running`
  (`AddCheckRunning`). It then takes two separate critical sections:
  `Startup`, then `AddActiveUser`.
- `shutdown` is `ShutdownBegin`, `ShutdownWake` (the re-test of the drain
  loop) and `ShutdownJoinWorkers`.
- A wait may return without a notification (`SpuriousWakeup`).
- Workers run `WorkerCheck` (the unlocked loop test),
  `WorkerRunReturns` and `WorkerRunThrows` (an exception caught by the
  loop).

**Runs.**
- `scheduler` (MCScheduler.cfg) passes. It uses the one_to_one strategy, 2
  users, 2 controllers and 2 workers, and reaches about 2,000 states. It
  checks:
  - `JoinersWoken`: no thread stays blocked in `join` once the scheduler
    has stopped.
  - `ShutdownReturns`: liveness under weak fairness of the worker threads.
- `scheduler_stale_add` (MCScheduler_stale_add.cfg, single-service
  strategy) finds `RegisteredUserHasScheduler` violated in 8 states:
  1. A user starts the scheduler in `add_active_user`.
  2. A controller's `shutdown` sees no active user and stops everything.
  3. The user's increment then lands on a stopped scheduler.
- `scheduler_drain_starvation` (MCScheduler_drain.cfg) finds
  `ShutdownEventuallyReturns` violated. The run assumes users that
  eventually deregister. Two users deregister and re-register in turn, so
  `m_active_users` never reaches zero. The spec says shutdown "refuses new
  scheduled work" while draining. `add_active_user` has no such check.

**Bounds and fairness.** Two users suffice for the starvation and
re-registration interleavings. Two controllers give a joiner beside a
shutdown. Two workers give a pool where one worker exits while the other
runs. Worker threads and a shutdown that holds the mutex are weakly fair,
because the OS schedules runnable threads. Users and callers are not fair.

### ClientConnection (`WatchdogTimer.tla`, `RequestWriter.tla`, `BodyStream.tla`, `ClientConnection.tla`, `MCClientConnection.tla`)

A client uses one keep-alive connection for `MaxReads` rounds. Round `r`
writes request `r` with a `request_writer`. When the final send completes,
the caller's handler creates a `response_reader`, which reads the response
under a watchdog `tcp::timer`.

**WatchdogTimer state.** Each read `r` has its own timer object:
`active[r]`, `cancelled[r]`, and the state of its asio wait (`wait[r]`).
`op` is the outstanding `async_read_some`.

**WatchdogTimer actions.**
- `TimerStart`, `TimerCancel` and `TimerCallback` are the three methods that
  hold the timer's mutex for their whole body.
- `ConnCancel` is `connection::cancel` (spec-modelled). It aborts only a
  read that is still pending.
- `StartRead` is `read_bytes_with_timeout` with `response_reader::read_bytes`.
- `ConsumeBytes` is `consume_bytes`, ending in `finished_reading` or the
  next round.
- `Expire` and `DataArrives` are time and the peer.

**RequestWriter state.** Per message: the writer's payload, whether the
header block has gone out, the chunking flag, the outstanding async_write
(`outgoing`), the frames the peer has (`wire`), and `written`, the history
of what the caller handed over. A frame is a header block (with
Content-Length `n` or chunked), a body, a chunk, or the last chunk. A piece
of body is a model value.

**RequestWriter actions.**
- `Create` is the constructor. It queues the request's content only if its
  first byte is not `'\0'`.
- `Write`, `Send`, `SendChunk` and `SendFinalChunk` are `http::writer`
  (spec 4.4, spec-modelled). Each send is one `async_write` of the header
  block (the first time), the payload, and the last chunk when it ends a
  chunked message.
- `HeaderBlock` is `prepare_buffers_for_send`. The writer's length, if
  non-zero, becomes the request's Content-Length.
- `HandleWrite` is `handle_write`: `clear()` after a chunk, then
  `finished_writing`. `HandleWriteError` is the same with a write error.
  Some prefix of the bytes has reached the peer: `k` whole buffers and `j`
  bytes of the next, so a chunk may be cut inside its size line or its
  data. `handle_write` ignores `bytes_written`.
- `FrameBytes` and `BodyBytes` turn the buffers after the header block into
  bytes: a chunk as `<hex size> CR LF <data> CR LF`, the last chunk as
  `0 CR LF CR LF`, a Content-Length body as it is.
- `peer[m]` is the peer's chunk decoder (`ChunkedBody`). For a chunked
  message, `PeerReads` feeds it the bytes of each write, and the decoder
  keeps its partial token between reads.
- `Received` is what the peer has decoded. With a Content-Length header it
  is the first `n` pieces of the buffers that arrived whole. When chunked,
  it is the body the decoder has produced.

**ChunkedBody** (`ChunkedBody.tla`, spec-modelled: the parser and
`http::writer` are not in `src/`) models the chunked coding byte by byte.
A byte is `CR`, `LF`, `;`, a hex digit `"0"`..`"f"`, or a piece of body.
- `Hex`, `ChunkBytes` and `LastChunkBytes` are the writer's framing.
- `ChunkStep` is the decoder of spec 4.3, in the states `size`, `ext`,
  `size_lf`, `data`, `data_cr`, `data_lf`, `trailer`, `trailer_line`,
  `trailer_lf`, `end_lf`, `done` and `error`.
  - `SizeStep` reads the size line. It accumulates hex digits with
    `HexAccum`, and a `;` starts an ignored extension.
  - A byte that is not a hex digit before the first digit is an error.
  - A zero size leads to the optional trailer lines and the empty line.
  - `done` and `error` are absorbing.
- `ChunkFeed` feeds the bytes of one read. It is a RECURSIVE operator
  rather than `FoldLeft`, which the community module evaluates through a
  deep recursion that can overflow TLC's stack.
- No property is stated about the decoder alone: it is spec-modelled, so
  it would hold whatever `src/` does. It serves `Received`, through which
  `WriterImplementsBodyStream` checks the code of `request_writer`.

**Composition.** The writer of round `r` runs while `r` is the current
round and the read has not started. `ReadResponse` starts the read once the
request is `done`. `WriteFailed` is the caller closing the connection after
a write error.

**Refinement.** `BodyStream` says what a message writer promises: `Write`,
`Deliver` (a longer prefix of the body reaches the peer), `Complete` (the
callback reports success, and the peer has everything) and `Fail`. The
mapping takes `written[r]`, `Received(r)`, and `done`/`failed` of the writer
as the outcome. `WriterImplementsBodyStream` is `\A r : S(r)!Spec`, written
with `[]` outside the quantifier so that TLC can check it.

**Runs.** The bounds are 2 rounds and up to 2 writes of 2 distinct pieces
per request. With these, round 1's late timer callback meets round 2's
read, chunks follow chunks, and a repeated or reordered piece is visible.
A failed write may cut the stream at any byte.
- `client_connection` passes (243,764 states) with request content empty or
  ordinary text. It checks four properties:
  - `AbortedByOwnTimer`: a read is aborted only by its own timer. It fails
    if the callback tests the error code instead of `m_was_cancelled`: a late
    callback of read 1's timer then aborts read 2.
  - `ReadEnds`: every read ends, even if the peer never sends.
  - `WriterImplementsBodyStream`: the refinement above. It fails if
    `handle_write` does not clear the payload after a chunk. Through
    `Received`, it also checks the chunk decoder on every stream the
    writers produce, and on every cut of one by a failed write.
  - `TypeOK`.
- `writer_nul_body` adds requests whose content starts with a NUL byte, and
  finds `WriterImplementsBodyStream` violated. The constructor does not queue
  such content, and `prepare_buffers_for_send` leaves the request's
  Content-Length in the header. The peer gets the header `Content-Length: 1`
  and no body, and the send reports success. Spec 4.4 says the body follows
  the headers. A keep-alive server would then read the next request as this
  one's body.

**Fairness.** Deadlines pass, and worker threads dispatch every queued
handler: timer callbacks, read completions and write completions (weak
fairness).
- A write completion is stated as `WriteCompletes(r)`, with `wpc` as the
  subscript: round `r`'s handler leaves `writing`.
- Only `HandleWrite` and `HandleWriteError` make that step, so this is the
  same fairness as weak fairness of those two actions.
- Stated this way, TLC's liveness checking does not evaluate the byte
  decoder in `PeerReads`. The peer and the caller are not fair: a peer may never answer,
and a caller may never send. Deadlock checking is off because the
connection really finishes after its last round, or when a caller stops.

### UrlCodec and StringUtils (`UrlCodec.tla`, `StringUtils.tla`, `MCStringUtils.tla`)

**State.** Characters are byte values. `plain` is a string over
`Alphabet`. `input` is `plain` itself or `url_encode(plain)`. `pos` and
`result` are the loop index and the output of `url_decode`.

**Actions.** There is one action per case of `url_decode`'s switch:
`DecodePlus`, `DecodeEscape` (the `pos + 2 < size` branch),
`DecodePercentAtEnd` and `DecodeOther`.
- `DecodeEscape` takes the branch's value from `strtol16`, which is
  `strtol(buf, 0, 16)` on two characters: it skips white space, takes a
  sign, and stops at the first non-hex digit.
- When the low byte is zero, `DecodeEscape` appends `%` and moves `pos` on
  by one, as `pos -= 2` followed by `++pos` does.
- `url_encode` is a RECURSIVE operator. It escapes the characters outside
  33..126 (a byte of 128 or more is a negative `char`) and the listed
  specials, as `%XX` in upper case.

**The other helpers.** `StringUtils` extends `UrlCodec` with the pure
helpers as operators, each a translation of its code:
- `trim`: `find_if_not` from the front, then from the back, stopping at
  the first non-space.
- `to_lower` and `iequals`: `iequals` compares sizes, then `tolower` of
  each pair of characters.
- `strip_filename` and `strip_parent_dir`: `find_last_of` on the
  separators. `strip_parent_dir` first replaces `\` with `/` and drops the
  trailing `/`s.
- `make_query_string` (`http_types.cpp`): `key=value` pairs joined by `&`,
  both parts `url_encode`d.

Their properties are stated of `plain`, so they are checked on every string
of the bounds.

**replace_all.** Its loop is a second state machine (`str`, `snippet`,
`replacement`, `rpc`) that shares no state with `url_decode`'s.
`CallReplaceAll` starts it on `plain` once `url_decode` has returned,
which orders two independent computations without losing any behaviour.
- `CallReplaceAll` takes the early return for an empty snippet.
- `ReplaceStep` is one iteration: `find` from the start of the string,
  then `replace` of that first occurrence.
- `ReplaceReturn` is `find` returning `npos`.
- A step that would make the string longer than `MaxReplaceLen` (5) is
  not explored. The loop is cut off there.
- `StringSpec` has weak fairness on both loop actions, because the loop
  runs in its caller's thread.

**Run.** The bounds are strings of up to 3 characters over 14 characters:
- NUL, space, `%`, `+`, `-`, `0`, `4`, `G` and byte 200. These reach every
  case of both switches, and every way `strtol` parses two characters:
  fully, partly (`4G`), with a sign, after white space, and as zero (`00`).
- `/` and `\`, the path separators.
- `&` and `=`, the query separators.
- `g`, a lower-case letter, and the replacement text of `replace_all`.

The query keys and values (`Texts`) are up to two of `G`, `g` and `&`.

The `replace_all` arguments are `G` by nothing and `Gg` by `g` (shorter),
`g` by `G` (as long), `G` by `GG` (contains the snippet), and the empty
snippet.

`string_utils` passes (79,054 states). It checks:
- `RoundTrip`: `url_decode` inverts `url_encode` on every string with no
  NUL byte. NUL is encoded as `%00`, which `url_decode` deliberately does
  not decode.
- `QueryParsesBack`: a query string splits back at `&`, then at `=`, into
  the encoded keys and values. It fails if `url_encode` leaves `&` or `=`
  unescaped.
- `TrimStripsSpace`: `trim` removes exactly the white space at both ends.
- `PathSplits`: for a path with a separator before a file name,
  `strip_filename` and `strip_parent_dir` together give back the path.
  Paths with no separator, or ending in one, are left out. There
  `strip_filename` returns the whole path, against its documented "parent
  directory path" (`PROJECT.json` lists this as a hazard).
- `ReplaceAllReturns`: `replace_all` returns whenever the replacement is
  shorter than the snippet. It searches from the start again and replaces
  occurrences that earlier replacements created, but each iteration
  shortens the string. A mutant that inserts the replacement before the
  occurrence (`replace(pos, 0, ...)`) never returns. `G` by `GG` runs
  until the cut-off, and no property claims it returns.
- `TypeOK`.

Decoding input that `url_encode` did not produce is not checked by a run.
The comment in `url_decode` and spec §9 say an escape `strtol` cannot parse
is kept as literal text. Checking the decode loop against such a reference
shows the code does otherwise: `"% 4"` decodes to byte 4, swallowing both
characters, and so do `"%4G"` and `"%-4"`. `PROJECT.json` lists this as a
hazard at `string_utils.cpp:169`.

Deadlock checking is off: `url_decode` returns when the loop ends.

### BasicAuth (`BasicAuth.tla`, `MCBasicAuth.tla`)

**State.**
- Time is the integer `clock`.
- `m_user_cache[c]` is the last-use time of credentials `c`, or `NoEntry`.
  The cache is keyed by the raw text after `Basic `.
- `m_cache_cleanup_time`.
- `accounts[u]` is user `u`'s password in the user manager, or `NoUser`.
  The user manager is not in the repository, so an administrator's
  `SetAccount` is an environment action.
- Per thread: `pc`, `time_now`, `auth` (the request's Authorization header)
  and `outcome`.
- `last_approved[c]` is a history variable: the clock at the last approval
  of `c`.

**Headers and credentials.** A header is a record of its scheme (absent,
`Basic `, or another one) and the text after the prefix. `Decode` gives what
`base64_decode` makes of a credential: whether it decodes, the user part
before the first `:`, whether there is a `:`, and the password.
`parse_authorization` (lines 105-113) and `parse_credentials` (lines
115-132) are operators over them.

**Actions.** `handle_request` is split where another thread can run:
1. `HandleRequest` reads the clock, and tests `m_cache_cleanup_time`
   without the lock (line 43).
2. `Cleanup` is the locked block of lines 45-56.
3. `Lookup` is lines 60-94. With Basic credentials it looks up the cache:
   on a hit it approves and refreshes the record; on a miss it parses the
   credentials and asks the user manager, then inserts and approves. Every
   other path answers 401 through `handle_unauthorized`.

**Run.** `basic_auth` passes (1,926,978 states in about 40 s). It uses 2
threads (symmetric) and 3 credentials: `c1` and `c2` are one user with two
passwords, and `c3` has an empty user name. The requests carry no header,
`Basic ` alone, each credential, or another scheme. `CACHE_EXPIRATION` is 1
tick and the clock runs to 4. That is the least time in which a cleanup
can be scheduled late and a record survive it past twice the expiry.
- `RevokedExpireFromCache`: a credential the user manager no longer accepts
  is approved only for a request that arrived within 2 * `CACHE_EXPIRATION`
  of its last approval. The bound is tight: with 1 * `CACHE_EXPIRATION` TLC
  finds this trace.
  1. A record is stamped at time 1.
  2. A cleanup at time 2 keeps it, and sets `m_cache_cleanup_time` to 2.
  3. A request at time 3 does not clean again. It hits the record although
     the password was changed.

  The sliding refresh of line 71 makes the window restart at every use. A
  revoked user who keeps using the server never loses access. Neither the
  code's comments nor spec.md state a bound, so this is recorded as a
  hazard and not as a finding.

The other direction is documented as a hazard, not checked: a record is
stamped with its request's `time_now`, read before the cache lock. A
request that arrives at 0 and is looked up at 1 is stamped 0, and a
cleanup at 2 evicts it one tick after its use. The cost is one more
user-manager lookup, never a wrong answer.

No fairness is assumed. Requests and the clock are driven by the outside
world. Nothing is claimed about liveness.

### ProcessShutdown, DumpFile and Daemonize (`ProcessShutdown.tla`, `DumpFile.tla`, `Daemonize.tla`, `MCProcessShutdown.tla`)

**State.**
- `shutdown_now`, the holder of `shutdown_mutex`, and the waiters of
  `shutdown_cond` (`cv`).
- `pc` of each thread, and `hpc`, the POSIX `handle_signal` running on top
  of a thread.
- `platform`, fixed in `Init` to the build being explored.

**Actions.**
- `WaitLock`, `WaitTest`, `WaitWake`, `SpuriousWake` and `WaitRelock` are
  `wait_for_shutdown`'s lock, while-test, and condition wait.
- `ConsoleEvent` is a Win32 console control event. It starts
  `console_ctrl_handler` on a thread of its own. For Ctrl-C, Ctrl-Break,
  close and shutdown, the handler calls `shutdown()` (`ShutdownLock`,
  `ShutdownBody`). For other events it returns FALSE.
- `Signal` delivers SIGINT or SIGTERM on POSIX. It pushes `handle_signal`
  onto a live thread at whatever point that thread has reached.
  `HandlerLock` and `HandlerBody` then run `shutdown()` on that thread. A
  thread that already holds the mutex can never take it again.

**Dump files (Win32).** `DumpFile` models `set_dumpfile_directory` and
`unhandled_exception_filter`. Its state is `cfg.dumpfile_dir`,
`cfg.h_dbghelp`, `cfg.p_dump_proc` and the installed exception filter.
- The environment is fixed in `DumpInit`: which directories exist, which
  copies of DbgHelp.dll load, and which are too old to export
  `MiniDumpWriteDump`. A loaded DLL stays loaded, so a second `LoadLibrary`
  finds the same copy.
- `set_dumpfile_directory` is one step with one disjunct per exit:
  - the throw at line 83, before any change;
  - the throw at line 108, with the directory already stored;
  - the throw at line 119, with `p_dump_proc` reset;
  - the normal return, which installs pion's filter when there is a
    procedure and the default filter when there is not.
- `Crash` runs the installed filter once. pion's filter reports "not
  configured" without a directory or procedure. Otherwise it creates the
  dump file, which may fail, and writes the dump.
- `generate_dumpfile_name` only formats a time stamp, so a dump is
  identified by its directory.

**Daemonize.** `Daemonize` models `process::daemonize`. Its state is the
descriptor table (`fds`: each descriptor closed, inherited from whoever
started the process, or on /dev/null), the session, the umask, whether
the parent is init, and `dpc`.
- `DaemonInit` is the process as started: descriptors 0-2 open, the others
  open or not, the parent init or not.
- `daemonize` (POSIX, lines 238-268) is one step of the main thread with
  one disjunct per way it ends:
  - the parent is init: it returns at once (line 244);
  - `fork` fails: the process exits with 1 (line 248);
  - otherwise the parent exits with 0 and the model follows the child. It
    calls `setsid` (which succeeds, as a fork child never leads a group),
    closes every descriptor (`CloseAll`), and opens /dev/null, which may
    fail. If the open succeeds, it calls `dup` twice. `open` and `dup` take
    the lowest free descriptor (`LowestFree`). Last, it sets umask 027.
- `daemonize_win32` (lines 214-217) does nothing.

`MCProcessShutdown` composes the three modules. They share no state, so
each step belongs to one of them. Dump-file steps happen only on the Win32
build. `fork` copies only the calling thread, so `daemonize` is enabled
only while no thread has begun, no signal has come, and no dump-file call
has been made. Once the process has exited, nothing else runs, and the
threads' fairness holds only while the process lives (`MCFairness`).

**Runs.** Both use 2 waiters and 1 signal. The dump-file part uses one
directory (existing or not), two calls and one crash. The descriptor
table has 4 entries: the three standard ones and one more, open or not.
- `process_shutdown` passes (207,866 states, both builds). It checks:
  - `WaitersReleased`: once `shutdown_now` is set, every waiter returns.
  - `DumpsAsConfigured`: a crash after `set_dumpfile_directory` last
    returned normally does what that call configured. With a directory,
    it writes a dump (or fails only to create the file). With the empty
    directory, the default handling runs. A mutant that leaves
    `p_dump_proc` set when the directory is emptied (line 122) keeps pion's
    filter installed. The crash then reports "not configured".
  - `DaemonDetached`: a process that `daemonize` turned into a daemon
    leads its own session. No descriptor it inherited is still open.
    /dev/null is on exactly descriptors 0-2, or on none if it could not be
    opened. Its umask is 027. A mutant whose close loop stops at 1
    (`i > 0`) leaves the terminal on descriptor 0, and /dev/null lands on
    1-3.
- `process_signal_deadlock` (POSIX only) finds `SignalShutsDown` violated:
  1. SIGINT lands on a waiter between line 48 and line 50.
  2. `handle_signal` blocks on the mutex its own thread holds.
  3. The process never shuts down.

  A second signal is not needed. With two, `WaitersReleased` fails the same
  way, which is why the passing run uses one.

**Fairness.** Every thread that can run is eventually scheduled (weak
fairness per thread). Signals and spurious wakeups are not forced. Deadlock
checking is off: with no signal nothing shuts the process down, and that
end state is legitimate.

### ConfigParser (`ConfigParser.tla`, `MCConfigParser.tla`)

**State.**
- The file is `lines`, a sequence of lines of symbols. A run of letters is
  one symbol (a word), and blank, line end, `#`, `=` and `/` stand for
  themselves. Words are atomic, so two partial words never join into a
  command. The inputs contain no partial words.
- Parser state: the index `i` of `c`, `parse_state`, and the four string
  buffers.
- `auth` is `my_auth_ptr`: an empty pointer, or the object with its
  restrict and user rules.
- `server` lists the `add_plugin_directory`, `load_service` and
  `set_service_option` calls in order.
- `installed` is the argument of `set_authentication`.

**Actions.**
- One action per case of the switch. Each ends with the loop's `get()`.
- `FinishValue` is lines 161-218. It splits an option value at the first
  `=`; with no `=`, both halves are the whole value, because `npos + 1`
  wraps to 0. A `restrict` or `user` line with an empty `my_auth_ptr`
  crashes the parser.
- `EndOfFile` is the loop exit and `set_authentication`.

**Reference.** `RefConfig` reads the file line by line and applies each
complete line on its own. A malformed line, an unsupported auth scheme, an
option without `=`, and a restrict or user line before any auth line
change nothing. `AppliesEachLine` says the parser neither crashes nor
differs from `RefConfig` when it returns.

**Runs.**
- `config_parser` passes (2,625 states). It uses every file of up to three
  well-formed lines, with the restrict and user lines after an auth line.
- `config_parser_malformed` uses any two lines, malformed ones included.
  TLC finds the null dereference of `restrict /x` with no auth line first.

Inputs from the malformed set, checked one at a time, show the other
divergences:
- `x x` then `path x`: the unknown command leaves the parser in
  `PARSE_COMMAND` for good, and every later line is appended to
  `command_string`.
- `service /x` then `path x`: the next line is glued onto the resource, and
  the parser calls `load_service("/xpath", "x")`.
- `option /x x`: the parser sets option `x` to `x`.

An unended last line is dropped by the code and by the reference alike.

Deadlock checking is off: the parser returns at the end of the file.

### AdminRights (`AdminRights.tla`, `MCAdminRights.tla`)

This models both builds of `admin_rights.cpp`; the constant `Platforms`
picks one per behaviour (`platform` in the state). Nothing in the
repository uses the class, so the model runs the usual daemon pattern:
1. At startup, the process drops privileges once with `run_as_group` and
   `run_as_user`, in either order.
2. `StartWorkers` records the identity startup left in `run_euid`.
3. Worker threads then take root for a while by constructing an
   `admin_rights` object, and give it back with `release()`.

**State.**
- The process's real, effective and saved uid and gid. They are
  process-wide, shared by every thread.
- The contents of `/etc/passwd` and `/etc/group`.
- The holder of the static `m_mutex`.
- Per object: `m_user_id`, `m_has_rights`, and whether `m_lock` still owns
  the mutex.
- A file is a sequence of lines, each a sequence of fields. A field is a
  name, a numeric id, other text, or `Empty`.
- `seteuid` and `setegid` follow POSIX: a root euid may pick any id, and any
  other euid only the real, effective or saved id.

**Actions.**
- The constructor is `CtorLock`, `CtorSave` and `CtorUpgrade`:
  - `CtorLock` is `m_lock(m_mutex)`, which blocks.
  - `CtorSave` is `geteuid`.
  - `CtorUpgrade` is `seteuid(0)`. On failure it unlocks and returns.
- `release` is `release()` followed by the object's destruction, where
  `m_lock`'s destructor unlocks the mutex if it still owns it.
- `run_as_user` and `run_as_group` call `find_system_id`.
  - `find_system_id` is an operator.
  - `split` drops empty fields, as `utils::split` does.
- Win32 (lines 34-58): `CtorLockWin32` is the constructor, whose
  initialisers lock the mutex and set `m_user_id` -1 and no rights, with an
  empty body. `release()` is empty, so `release` is the destructor's
  unlock. `run_as_stub` is `run_as_user` and `run_as_group`, which return
  -1 and change nothing.

**Run.** `admin_rights` passes (36,240 states). It uses both builds, 2 threads, ids 0..2,
start uids 0 (root) and 1, and every passwd file of one or two lines from 4
line shapes. Symmetry is over the threads.
- `RightsScoped` says that once the workers run, the process is root
  exactly while some object holds rights. Outside those sections it is back
  to `run_euid`.
- A mutant whose `m_lock` does not take the mutex breaks `RightsScoped`. A
  second object saves euid 0, and the two releases leave the process root.

Two behaviours are documented as hazards, not checked:
- `split` drops the empty password field of a line like `alice::2:0`, so
  the "third parameter" `find_system_id` reads is the gid, 0. A daemon told
  to run as `alice` keeps running as root. The run reaches this state.
- `run_as_user` does not take `m_mutex`. Called while another thread holds
  rights, it changes the euid under that thread.

Deadlock checking is on: the workers can always take and release rights.

## 4. What is not modelled, and why

- The connection's socket I/O, HTTP constants and date and cookie formatting
  are pure I/O or formatting.
- `generate_dumpfile_name` only formats a time stamp into a file name.
- `daemonize` after another thread has started is not modelled. The
  child would keep only the calling thread. It is listed as a hazard.
  Nothing in `src/` calls `daemonize`. What the daemon later writes to
  descriptors left closed by a failed open of /dev/null is outside
  `process.cpp`.
- The dump-file code runs `set_dumpfile_directory` as one step. A crash
  on another thread during that call would race on `cfg.dumpfile_dir`.
  This is listed as a hazard.
- `ends_with`, `equals`, `alloc_copy` and `empty_string`: nothing in
  `src/` calls them.
- `get_date_string` and `make_set_cookie_header` are formatting only.
- `response_writer`, the HTTP parser and the connection are not in `src/`.
  Of the parser, only the chunked-body decoding is modelled (`ChunkedBody`).
  The start line and headers are not. Their partial-token handling is the
  same kind of byte loop, but nothing in `src/` calls it except through
  `response_reader`.
- FileService is declarations only in `src/`.
- Plugin loading is out of the spec's scope, and its code is not in `src/`.
- `scheduler.hpp` is not in `src/`. Its helpers `stop_services`,
  `stop_threads`, `finish_services` and `finish_threads` are modelled as the
  original pion defines them: stop every service, join every worker, reset
  or clear the services, and clear the pool.
