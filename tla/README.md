# TLA+ models of fluvio-future

`fluvio-future` is a set of small asynchronous building blocks over the `async-*`
crates: a watchdog, retries, time limits, file helpers, zero-copy, and connectors
over TCP and three TLS libraries. This directory holds models of the parts that
carry state or run concurrently, the configurations that check them, and proofs.

## The system and its models

| part (under `src/src`) | module | what its state and actions are |
|---|---|---|
| `doomsday.rs` | `Doomsday` | the mutex-guarded deadline, the flag, the locals of `main_loop` and of each caller's `reset`; one action per stretch of code between two points another thread can observe |
| `retry.rs` (`mod delay`) | `Backoff`, `BackoffSeries` | the three iterators as records; `next` as `Delay` and `Advance` |
| `retry.rs` (`retry_if`, `RetryExt::timeout`), `future.rs` | `Retry` | one call: attempts, sleeps, the timer of either time limit, and the polls, in which time goes on and results arrive between the look at the future and the look at the timer; extends `BackoffSeries`, whose `NextDelay` is part of the action that retries |
| `fs/extension.rs`, `file_slice.rs` | `FileSlice` | a caller of `as_slice` or `raw_slice`, a file that others change |
| `zero_copy.rs` | `ZeroCopy` | the loop of `copy_slice` on either platform; extends `FileSlice` |
| promise of `copy_slice` | `SliceTransfer` | the abstract transfer of a slice |
| `fs/bounded.rs` | `BoundedSink` | the counter, the pipe of `async_fs::File`, the file, and the pipes of sinks that were dropped |
| `fs/mmap.rs`, using a mapping | `MmapFlush` | pages in memory and on disk, the `RwLock` and its poison, flush closures, dropped ones and those that wait for a guard of their own caller, crashes |
| `fs/mmap.rs`, `create` and `open` | `MmapFile` | the system calls of several callers on one path, each with a length of its own, the lengths of file and mappings, the SIGBUS of a file that was shrunk; extends `MmapFlush` |
| `openssl/handshake.rs`, `async_to_sync_wrapper.rs` | `TlsHandshake` | two futures shaking hands over bounded pipes, the borrowed `Context` |
| `openssl/stream.rs` | `TlsStream` | the two halves after `split_connection`, the `BiLock`, one waker per socket direction, which the other half may replace |
| `openssl/connector.rs`, from handshake to use | `TlsConnection` | `TlsHandshake` and an instance of `TlsStream` that begins when the client's future returns |
| PEM and PKCS #12 files, `mod cert(s)` of the backends | `TlsFiles` | operators: a file is the sequence of its sections; what each loader makes of it, by the places of the sections it wants |
| builders of `rust_tls.rs`, `native_tls.rs`, `openssl/` | `TlsBuilder` | one action per builder call; the builder as a record, gone after an error; openssl's place for a certificate and a key per algorithm |
| `connect` and `accept` of what was built | `TlsSession`, `MCTlsSession` | the certificates that are shown and the two verifications of a handshake; the small PKI it is checked with |
| `net/`, `native_tls.rs`, `rust_tls.rs`, `openssl/connector.rs` | `Connector` | `connect` of the eight connectors step by step, socket options included, over reusable descriptor numbers |

Interactions: `Retry` takes its delays from `BackoffSeries`; `ZeroCopy` copies the
slices `FileSlice` makes; `MmapFile` makes the mapping that `MmapFlush` uses. A TLS
connection is configured in `TlsBuilder` from `TlsFiles`, dialled in `Connector`,
verified in `TlsSession`, and polled in `TlsConnection`, where the openssl stream of
`TlsStream` takes the wrapper over from `TlsHandshake`.

Definitions that begin with the comment `Mutant:` are faulty variants of the one
that follows. No specification uses them; each shows that some property notices
the fault.

## Runs

| run | bounds | shows |
|---|---|---|
| `doomsday` | 2 callers, duration 2, clock to 5, both exit modes | while resets do not overlap none is undone, and no explosion comes within the duration of one that was stored before the loop read the deadline; an unreset timer explodes; a defused loop ends; a defuse that finds the loop asleep is honoured |
| `zero_copy` | both platforms, numbers 0..3, u64 to 5, files to 4, socket buffer 2 | with the exception of an empty slice on macOS: a prefix of the slice arrives, each byte once; a short count means a short file; a checked slice of a file that did not shrink is copied whole; the loop ends; it implements `SliceTransfer` |
| `backoff` | durations to 40, 8 calls | delays follow the closed series through overflow, stay within `max_delay` and never shrink |
| `retry` | up to 2 retries, the three strategies with initial delays 0 and 2, capped at 1 or by overflow at 5, limit 3, clock to 6 | the result sums up the attempts, back-off is kept, a result that is there when a poll begins beats the timer of `or`, calls return |
| `tls_connection` | three flights of up to 5 messages, pipes of 2, two halves, two directions | no dangling `Context`, in the handshake, in the stream or between them; no lost wake-up; handshakes end (a poll after `Done` would panic and not end); a parked half is registered, waiting halves are polled again unless the other half took their place at the socket, and never do both wait for good |
| `tls_session` | 3 calls per builder, 4 certificates, keys of 2 algorithms, 3 certificate, 5 key and 4 CA files, 3 bundles, a name and certificates for it and for others | a server is verified unless a call gave that up; a server that demands client certificates gets them; a built-in certificate has its key, unless openssl was given a pair of two algorithms; the issuer's certificate is CA enough for rustls and openssl |
| `bounded_sink` | `max_len` 3 or none, buffers to 3, pipe 2, 2 bytes of dropped sinks | counted bytes are accounted for; the limit holds; an Ok flush vouches for its bytes |
| `mmap_file` | 2 callers with lengths 1 and 2, 2 users, 2 pages, 1 write, a file that is missing or has 2 pages | no mapping is empty, and it stays within the file if the calls agree on the length, wherever one fails or the machine stops; flushed pages survive crashes unless a call cuts them off; flushes end, also when the lock is poisoned, if their caller holds no guard |
| `connector` | 2 calls, 2 descriptors, all backends | a descriptor names its connection while a half lives; no path leaks a socket; what is handed out has its socket options |

Why the bounds are enough. The clocks saturate: the last instant stands for every
later one. The numbers of `FileSlice` go past the end of the file and make the sum
overflow. Socket buffers and pipes are smaller than what is sent through them, so
both sides block. Three builder calls are enough for an identity, a CA and a switch, or
for one replaced by another; chains are a leaf, an intermediate and a root. Two
descriptors for two calls make every number be reused. One write to a mapping tells old
pages from new ones; `MaxWrites = 2`, where a second write meets the flush of the first,
passes too (710,947 states, several minutes, nearly all for `FlushEnds`), and
`FlushedBytesSurvive` is proved for any number.
Races in this code are between two parties, so two callers, halves, peers or users
are what each run has.

Three runs show a statement of a doc comment that the code does not meet:

| run | statement | what happens |
|---|---|---|
| `doomsday_defuse` | a defused timer no longer explodes | the flag is read before the deadline, and `defuse` falls in between |
| `retry_race` | a future that completes in time is returned | the future completes while the timer runs; the next poll is late and `race` looks at the timer first |
| `bounded_sink_tracks` | the sink tracks what it has written | `open_write` opens read-only, the counted bytes are lost although the disk never fails (`DiskErrors = FALSE`) |

Other places where the code does less than its words, met while modelling:

* `doomsday.rs:59`: `reset` reads the clock before it awaits the mutex, so of two
  overlapping calls the older deadline may be stored last. This is why
  `ResetHolds` and `NoEarlyExplosion` stop at the first overlap: without
  `~overlapped` TLC violates both with two callers.
* `openssl/mod.rs:31`: the halves of a split stream share a socket that keeps one waker
  per direction. When both need the same direction, the waker of one is replaced or used
  up by the other, and its task waits until something else polls it (`"forgotten"` in
  `TlsStream`).
* `openssl/connector.rs:209` and `:232`, `openssl/acceptor.rs:42`: a certificate and a key
  of two algorithms are taken without an error, because OpenSSL compares them only where
  they share a place and nothing calls `check_private_key`. The certificate has no key and
  is never shown: a server fails its handshakes, a client is anonymous.
* `fs/mmap.rs:69`: a flush that is awaited with a guard of the same task alive waits for
  that guard for ever (`flushHoldingGuard`).
* `fs/mmap.rs:33` and `:116`: `set_len` shrinks a file that another call has mapped with
  more pages; touching one of them ends the process (`Sigbus`).
* `zero_copy.rs:144`: to macOS a count of zero means all up to the end of the file, so that
  an empty slice is copied as the rest of the file; if that takes a second call the
  subtraction at line 133 underflows (`Asked`, `UnderflowPanics`).
* `fs/extension.rs:63`: `>=` refuses a slice that ends exactly at the end of the file.
* `fs/mmap.rs:109`: the minimum length of `open` is used only for an empty file; a
  shorter one is mapped as it is, which is why `MappingInsideFile` promises the whole
  length for `create` only.
* `new_domain` of the anonymous and plain connectors ignores its argument.
* `rust_tls.rs:142`: the anonymous connector dials `host:port` and then refuses the
  same string as a server name (`ServerName` in `Connector`).
* `task.rs:5`: `run` is said to "return immediately"; outside wasm it blocks on the
  future.
* `rust_tls.rs:66`: `load_keys` panics on a malformed file although it returns a
  `Result`.
* `openssl/test.rs:67` sets out to test client authentication, but its acceptor only
  calls `with_ca_from_pem_file`, so that nobody is asked for a certificate;
  `AcceptedClientAuthenticated` therefore speaks of the verify mode.

## Fairness

Weak fairness only, on what a scheduler owes: time passes, a runnable task is
polled once it was woken and a poll runs to its end, a closure on the blocking pool runs; an error is
never owed when a call could also succeed. `BoundedSink`,
`Connector` and `TlsSession` have safety properties only and assume none. `ZeroCopy`
also assumes that the peer reads, `TlsConnection` that the socket becomes ready again
and the reactor runs, and `MmapFile` that guards are dropped, unless their owner waits for
a flush of its own. Attempts of `Retry` may hang: `RetryReturns`
states the opposite as its hypothesis. The `RwLock` is not fair, so `FlushEnds`
speaks of a flush that the others leave alone.

## Proofs

Every safety property of the runs is also a theorem that TLAPS checks, for every value
of the constants that meets the `ASSUME`s: any number of callers, calls, users, pages
and descriptors, any widths, durations and PKI, and any set of files. The assumptions say that the
bounds are numbers, that the markers (`None`, `Address`, `Bad`...) differ from real
values, and, where the code has two of something (peers, platforms), which two. Nothing is
assumed of the algorithms of keys. Each
module `XProofs` holds the proofs about `X` and the modules `X` extends. All follow one
pattern: the property is not preserved by a step on its own, the module names the
inductive invariant that is (TLC has checked each of them), and a lemma per action or
group of actions shows that it stays.

* `DoomsdayProofs`. `TypeCorrect`; `ResetsHold` and `ExplosionsAreDue`;
  `DefuseHonoured`. "The stored deadline is no earlier than the promised one" is not
  inductive: a reset under way could store an older one. `SerialInv` adds that, before
  the first overlap, at most one reset is under way and its deadline is no earlier than
  the promise, and that promises and pending deadlines are stamps of the past; and that the
  deadline the loop has read is no earlier than what was promised when it read it
  (`heeded`).
* `RetryProofs`, the strategies. `DelaysBounded` and `DelaysGrow` from `SeriesInv`: the
  last answer is no more than the next one, which needs the pair of a Fibonacci strategy
  to be ordered; the lemma `AdvanceGrows` carries both through saturation.
  `DelaysAreTheSeries` from `FollowInv`, which says where the iterator is in its series
  (`Following`): at the member it returns next or, once it stands still, at one beyond
  `max_delay`. That the series never comes back below `max_delay`, and that saturating
  each step is saturating the exact member (`SaturatedSum`, `SaturatedProduct`), is what
  makes it inductive.
* `RetryProofs`, `retry_if`. `RetryUsesTheSeries`: a behaviour of `Retry` is one of
  `BackoffSeries`, so the theorems above hold of it. `RetryResultSound`,
  `RetriesBackOff` and `ReadyResultsWin` from `RetryInv`: each item taken stands for one
  retried error, the outcome after those is the result; the clock, or the end of the
  sleep, has reached the sum of the delays taken; no result waits while retry_if sleeps,
  and when the timer of `or` is polled a result can only have come during that poll.
* `ZeroCopyProofs`. `CopyCorrect` and `ShortCopyMeansShortFile` from `CopyInv` (the
  prefix property, the lowest length the file had, an untouched socket before the copy,
  something left to ask for in every round of a slice that is not empty),
  with the lemma `RunsJoin` on consecutive runs of offsets; `CheckedSliceIsCopiedWhole`
  for builds with overflow checks; `CopyRefinesTransfer`, step by step from the same
  invariant.
* `BoundedSinkProofs`. `CountAccountsForBytes`, `FileStaysWithinMax` and
  `FlushVouchesForBytes` from `SinkInv`: besides the account itself, there is room for
  what is left of the current write (`RoomForTheRest`), dropped sinks are done writing
  where the properties speak (`PipesSettled`), and without a failure nothing is missing
  between the file, the pipe and what was accepted (`NothingMissing`).
* `MmapFileProofs`. `FlushedBytesSurvive` and `MappingsStayInsideFile` from `MmapInv`:
  versions are ordered from durable to memory, only pages that the file has hold
  anything, and as long as the calls agree (`common`) the file has the length they agree on
  from the first that gave it, so that a mapping only sees it grow. The
  lemmas on `MmapFlush` are stated for its own steps and reused.
* `TlsConnectionProofs`. `HandshakeContextSafe` and `HandshakeWakeupsArrive` from
  `HandshakeInv` (a parked future is at a transport call and registered for that call);
  `StreamContextSafe` and `ParkedHalvesRegistered` from `StreamInv` (whoever holds the
  lock has lent its `Context`; a queued half is the one the lock will wake);
  `NoPollPanics` from both. `StreamImplemented`: the connection implements `TlsStream`
  started on its own, because the stream is as it was made until the client's handshake
  has returned it.
* `ConnectorProofs`. `DescriptorNamesConnection`, `SocketsNeverLeak` and
  `HandedOutConnectionsTuned` from `ConnectorInv`: a call holds at most one socket, and
  only where its control says so; a free descriptor has no options left from before;
  halves are alive exactly after `connect` has returned.
* `TlsSessionProofs`. `KeysMatchCertificates`, `ConnectedServersVerified`,
  `AcceptedClientsAuthenticated` and `IssuersSuffice` from `SessionInv`
  (`SessionInvariant`). Its core is `RoleInv`, which relates a builder to the successful
  calls on it: a check is off exactly when a call said so, roots are the given CAs or the
  system's, no certificate is beside the key of another one, and only a pair of two
  algorithms leaves one without its key. There is a lemma per kind of update of a
  builder, one per back end that its calls are such updates, and the handshake is
  argued once for all of them.

Types are theorems as well: `TypeCorrect` and `MmapTyped`; the others are conjuncts of the
invariants.

Induction over the natural numbers is proved in `RetryProofs` from the well-foundedness
of `<` (`Induction`), and so is the existence of recursively defined sequences
(`Recursion`), from which `Fibonacci`, `Power` and `Waited` get their equations.

Only model-checked: the liveness properties (`UnresetTimerExplodes`,
`DefusedLoopEnds`, `CopyTerminates`, `TimeoutReturns`, `RetryReturns`, `HandshakesEnd`,
`WaitingHalfIsPolled`, `StreamNeverHangs`, `FlushEnds`), since fairness and `ENABLED` are out of the prover's
reach; and, by their nature, the three violations.

## Limits of the models

* `FileSlice` without overflow checks: the sum wraps and no property is claimed.
* `MmapFile`: only the mapping of one caller of `create` is used and flushed.
* `BoundedSink`: one live sink on a path. A sink that is opened while bytes of a
  dropped one are still on their way (history variable `early`) counts from a length
  that will grow; the properties leave it out. A flush is polled until it answers; one
  that is dropped after its first poll, so that the next write gets its error, is left out.
* `ZeroCopy`: the descriptors stay valid, as they do while the future that borrows
  them lives; the closure of a dropped future runs on and is left out.
* `Connector`: the descriptor promises nothing once both halves are gone.
* `TlsSession`: the order of TLS 1.3, where the client is done before the server has
  seen its certificate. The libraries' path building is reduced to issuers and trusted
  certificates: expiry, key usage and revocation are not told apart. Which of
  several certificates a peer shows is left open. Without verification the name is not
  looked at either, which the property allows. No system roots are installed in the run. Whether native-tls accepts a partial chain depends on the
  platform and is left open. A file that cannot be read and one that is broken
  both take the builder (`Fails`), and so does the panic of `load_keys`.

Three behaviours are modelled, or known, without a property, because no doc or test says
what should happen: `poll_close` of the openssl stream turns a shutdown that would block
into an error (`CloseWouldBlock`); dropping the task of a watchdog cancels it silently
(`DropTask`); `current_len + buf_len` in `can_be_appended` wraps for a length near
`u64::MAX` in a build without overflow checks.

Not modelled: `use_sni` (no verification depends on it), `task.rs` (hands futures to
an executor), the wasm timers,
`lib.rs`, `io.rs`, test support, the derive macros, and `write.rs`,
`fs/shared_file.rs` and `fs/stream.rs`, which no module declares and which are never
compiled.

## Plan

1. A copy that outlives its future: `ZeroCopy` with the descriptor reuse of `Connector`.
2. Lemmas towards liveness that are safety: bounds on the steps left of `copy_slice`,
   `retry_if` and a handshake, which every step of theirs decreases.
