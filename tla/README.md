# tlspxy in TLA+

A verification project for tlspxy, a TLS-terminating TCP and HTTP proxy in Go
(`src/main.go`, `src/internal/...`). TLC checks small instances of the modules
below; TLAPS proves the most important properties for every value of the
constants. `PROJECT.json` maps every definition to its source lines and lists
runs, mutants, hazards, findings and theorems.

Check a run with `tlc -workers 2 -config TcpConn.cfg MCTcpConn`, a proof with
`tlapm TcpConnProofs.tla`.

Contents: 1 inventory, 2 modules, 3 runs, bounds and fairness, 4 proofs,
5 findings and observations, 6 what is not modelled.

## 1. Inventory

| Component | State it keeps | Operations | Talks to |
|---|---|---|---|
| TCP connection, `internal/proxy/tcp.go` | two `net.Conn`, `ErrorSignal` (capacity 1), `CloseOnce`, per-connection context, counters | `Start`, two `Pipe` goroutines, a cancellation watcher, four deferred calls | root context (shared), peers, metrics |
| TCP server, `main.go` case `tcp` | listener, `sem`, `WaitGroup`, `connID`, drain timer | accept, admit or reject, launch, close the listener, drain | one `TCPProxy` per connection, root context |
| HTTP server limit, `main.go` case `http` | `sem`, `mu`, `acquired` map | the `ConnState` hook for `StateNew` and `StateClosed` | `net/http`, which calls it from several goroutines |
| Certificate store, `internal/tls/certstore.go`, `watcher.go` | default pair, map of SNI pairs, RW lock; watcher's event channel and debounce timer | load at startup, `GetCertificate`, `Reload(All)` on SIGHUP and by the watcher | the file system (renewals), the signal mux, the TLS listener |
| Signal mux and life cycle, `internal/signal/signal.go`, `main.go` | signal channel (capacity 1), callbacks by signal, `WaitGroup`; stage of main, `rootCtx` | register, take a signal, run its callbacks, `NotifyContext`, the stages of startup, exit | everything main starts |
| HTTP transport and health, `internal/proxy/http.go`, `internal/health` | bytes read of each body, the logged prefix of a response, two counters | `RoundTrip`, `Read` and `Close` of a counting body, the health short cut | `net/http/httputil`, root context, metrics |
| Header rewrite, `internal/proxy/rewrite.go` | none | forwarding headers of one request | `net/http/httputil` |
| PROXY header, `proxyproto.go` | none | build a v1 or v2 header | the TCP connection |
| Configuration, `internal/config` | layered key-value tree | defaults, files, environment, flags; `ValidateConfig` | startup |
| TLS configuration, `internal/tls/{server,remote,tls,versions}.go` | none | build `tls.Config` for listener and backend | startup, certificate files |
| Load-test tool, `internal/loadtest`, `cmd/loadtest` | shared statistics (a lock and two atomics), harness with listeners, goroutines and a limit | scenarios one after the other, workers, snapshot, exit status | an in-process proxy and echo backend |
| Metrics, logging | Prometheus counters, a logger | registration, an endpoint; level and destination | all |

What is hard in it:

* **One connection** has four goroutines that can all ask for the teardown, and
  tear down by closing sockets under each other. The close request is one token
  in a channel two goroutines read. Correct means: the request is not lost, every
  goroutine ends, bytes are relayed in order and exactly once across short
  writes, the counters match the wire, and teardown is not counted as an error.
* **The connection limit** is kept in two unlike ways, a semaphore around the
  accept loop and a hook that `net/http` calls concurrently. Correct means the
  same for both: never more than the limit, no slot lost, a refused connection
  neither holds nor releases one.
* **Shutdown** races `Accept`, the launch of connections, the drain and its timer.
* **Certificate renewal** is a race between writers of two files, two reads that
  are not atomic, three loaders and a debounced event stream.
* **Signals** take two ways (the mux and `NotifyContext`), the mux drops signals
  while callbacks run, and startup registers its callbacks one by one while
  signals already arrive.
* **A response** of the HTTP proxy is read by two readers in turn when its
  contents are logged, and counted on `Close`; a request body is read by one
  goroutine of the transport and may be closed by another, or by both.
* **The configuration** has five layers and some forty keys, `ValidateConfig`
  looks at them one way and the code that uses them another. Correct means that
  a setting that was accepted has its effect, above all that TLS and
  verification are not silently absent (section 5 names two cases in which they are).
* **The load test** ends by cancelling its workers, and must tell the failures
  that this causes from real ones; its statistics are read in two parts, and its
  workers read and write without deadlines.

`hazards` in `PROJECT.json` lists these at their lines.

## 2. Modules

| Module | Models | Remarks |
|---|---|---|
| `Relay` | what a connection promises: a FIFO relay per direction, silent once over | abstract |
| `TcpConn` | `TCPProxy.Start`, `Pipe`, watcher, defers | implements `Relay` |
| `ConnLimit` | what both limits promise | abstract |
| `TcpServer` | accept loop, semaphore, drain | implements `ConnLimit` |
| `HttpServer` | `ConnState` hook | implements `ConnLimit` |
| `CertStore` | store, loaders, watcher, renewals | |
| `Lifecycle` | main's stages, mux, callbacks, `NotifyContext` | |
| `HttpProxy` | `Transport`, counting bodies, health check, base context of requests | |
| `ProxyProto` | both header versions | operators, used by `Startup` |
| `Config` | defaults, `ValidateConfig`, `GetServerConfig`, `ConfigRemote` | operators, used by `Startup` |
| `Startup` | `GetConfig` layer by layer, main up to serving | composes `Config` and `ProxyProto` |
| `LoadTest` | `cmd/loadtest`, harness, generators, statistics | |
| `MC*` | instances for TLC | |
| `*Proofs` | theorems of `TcpConn`, `TcpServer`, `HttpServer`, `CertStore`, `Lifecycle`, `HttpProxy`, `Startup`, `LoadTest` | |

### TcpConn and Relay

Each goroutine has a program counter (`start`, `watch`, `pipe[d]`), and a step is
what lies between two points where another goroutine, a peer or the context can
be observed; a failed `Read` and the classification of its error, for example,
are two steps because the context is looked at in between. Payload is numbered
units; unit 0 of the direction to the backend is the PROXY header, so order,
loss and repetition are visible in `out`. Errors are four kinds (end of stream,
local close, timeout, other) because that is what `TCPProxy.err` and `Pipe` tell
apart. `mishap` is a history variable used only by properties.

`Pipe` reads a chunk of any size that is available and writes any part of what is
left of it, as a `net.Conn` that writes short would. Over TLS a `Read` may return
the last bytes together with `io.EOF`, as `tls.Conn.Read` does when a
`close_notify` is already buffered behind the last record.

### ConnLimit, TcpServer and HttpServer

`ConnLimit` has one variable, the slot of each connection. `TcpServer` has the
steps of the `tcp` case one by one; `Start` is the single step "it returns", and
that it returns once the context is cancelled, which the fairness assumes, is
`CancelTerminates` of `TcpConn`. `HttpServer` is the hook under the discipline of
`net/http` (external): `StateNew` from `Serve`'s loop, one connection at a time;
`StateClosed` from each connection's goroutine. The steps of the hook are split
where `mu` or `sem` can block.

### CertStore

A file's content is a version; a pair loads if its halves have the same version.
A renewal writes one file and then the other, swaps both through a symbolic link
(which shows only as a creation in the directory), or stops half way for good.
Reading a pair is two steps, installing it a third. The kernel's event queue holds
`MaxEvents` events and drops what does not fit, which the code only logs
(`watcher.go:133`). `calm` is a history variable: no file has changed unannounced,
that is before the watch began, or with the queue full and nothing in it or in
the timer that would still make the watcher read the file. A full queue alone
does no harm, because what is in it starts a reload of everything later on.

### Lifecycle

Signals go to every channel registered for them, are dropped by a full one and
kill the process if there is none. SIGINT and SIGTERM are registered for the same
things and are one signal. The configuration (mode, metrics, certificates) is
chosen in `Init`. A callback uses an object that exists only under some
configurations (the metrics server, the certificate store, the HTTP server);
`TypeOK` says that no other one is ever registered or run.

### HttpProxy

One record per request: where its handler is, its request body and its response.
`net/http` is external and modelled by what `http.go` relies on: the transport
reads and closes the request body in a goroutine of its own, which may outlive
`RoundTrip`; a `RoundTrip` that fails while the body is being sent closes it too,
which makes two calls of `Close`. `ReverseProxy` copies the response and closes
it once, however the copy ends: a `Read` of the body and the `Write` to the client
of what it returned are two steps, because the client may stall between them for
ever. `WriteTimed` says whether the server has a write deadline. Response units
are numbered, so that a prefix handed on twice, dropped or out of order shows. The
prefix that is read for the log is put in front of the rest, at most `MaxLogged`
units of it. `ContextEnds` is what a cancelled request context does (external): it
fails a `RoundTrip` and a `Read` of the body, not a `Write` to the client.

### Config, ProxyProto and Startup

A configuration is a function from keys to values; a value is abstracted to what
the code tells apart (a file name is empty, or what is behind it: good, missing,
broken; `remote.addr` is empty, `host:port`, or a URL with the scheme http, https
or another). `ValidateConfig` is a conjunction of named groups of its checks; the TLS
configurations are functions of the configuration, and of whether the system's
roots load. `Startup` runs main from its arguments to serving: each file, the
environment and the flags are one step each that overlays its keys, each failing
call is the exit it leads to. The environment of the process is chosen in `Init`
from `Inputs`. `Dial` is how a backend connection is made once the proxy serves:
in TCP mode TLS if there is a TLS configuration for it, in HTTP mode as the scheme
of the URL says. Addresses have a form (`*net.TCPAddr`, printable, neither), a
family, a host and a 16-bit port.

### LoadTest

Main runs the scenarios in order; in each, the harness starts its loops, the
workers dial, write, read and record, the duration ends, `Snapshot` copies the
samples under the lock and loads the counters behind it, and the harness closes
its listeners and waits. A worker's record is one step per field, as the code
does it, so a snapshot in between would be visible. The proxied connection is
`TcpConn`; here it is served, rejected by the limit, or fails. `h.wg` covers the
two accept loops of a harness only: proxied connections go on behind `Close`, each
with its token, and `linger` keeps them by scenario. A scenario has `Fits`: its
payload is sure to fit the socket buffers on the way. If not, or if nobody serves
the connection, the `Write` may block for ever (`Blocked`), as it has no deadline.
`results` is what main collects and reports; with `-json` the report may fail,
which is an exit status of 1. `bad`, `lost` and `faults` are history variables.

## 3. Runs

| Run | Checks | Shows |
|---|---|---|
| `tcp_conn` | `TypeOK`, `SignalNotLost`, `OnlyRealErrorsCounted`, `CountersHonest`, `EofMeansAllCopied`, `RelaySpec` | safety and refinement of a plain connection with header, timeouts, panics, resets, cancellation |
| `tcp_conn_live` | `SignalTerminates`, `CancelTerminates`, `PeerCloseTerminates` | nothing hangs, even with no timeout configured, behind TLS |
| `tcp_conn_tls_eof` | `EofMeansAllCopied`, violated | finding 1 |
| `tcp_server` | `TypeOK`, `TokensMatch`, `DrainHonest`, `LimitSpec`, `ShutdownExits`, `SlotsReturn` | limit, drain and shutdown of the TCP server |
| `http_limit` | `TypeOK`, `TokensMatch`, `LimitSpec`, `HookReturns` | limit of the HTTP server, no deadlock between `mu` and `sem` |
| `cert_store` | `OffersMatchingPair`, `WatchCurrent`, `WatchApplies`, `HupApplies` | what is offered matches; nothing announced is lost, even with a lossy queue; SIGHUP and watcher apply what is on disk |
| `cert_stale` | `NewestStays`, violated | finding 2 |
| `lifecycle` | `TypeOK`, `OneSignalAtATime`, `TermExits`, `MuxTermExits` | signals at any stage, both modes |
| `http_proxy` | `TypeOK`, `ResponseIntact`, `BytesCounted`, `CancelDrains` | responses arrive unchanged with and without content logging; the received counter is off by at most one `Read` per broken client, the sent counter, unless a body is closed twice, by one `Read` per body; after SIGTERM every request ends, whatever the backend does, unless its client stalls in a `Write` without a deadline |
| `http_proxy_sent` | `SentAsDocumented`, violated | finding 3 |
| `startup` | `ConfigAsLayered`, `TLSKept`, `HeaderTrue` | each key has the value of the latest layer that sets it; TLS asked for on the listener, or by a TCP proxy towards its backend, is not replaced by plaintext, and what is told to verify does; the PROXY header is true |
| `load_test` | `TypeOK`, `SnapshotConsistent`, `ErrorsReal`, `ExitHonest`, `TestEnds` | the report's numbers agree with each other, the end of a test is no error, the exit status is honest, nothing hangs but the `Write` of a payload that the buffers do not hold |

Every property of a passing run has a mutant: a plausible error in a mapped
definition, kept beside it as `<definition>_<error>`, under which TLC finds the
property violated.

### Bounds

* `MaxUnits`: two units one way, so that a chunk can be written in parts and a
  second read can follow; both Pipes run in every run and are the same code. One
  unit is enough for liveness and the violations.
* `Conns`, `MaxConns`: four clients and two slots, so that the limit is reached,
  two are refused, and slots are reused.
* `NumSNI`, `MaxVersion`, `MaxHups`: two entries (one may fail while the other
  loads), one renewal of each, one SIGHUP that overlaps the watcher. A second
  SIGHUP during a reload multiplies the state space by three and was checked
  once with the same result.
* `MaxSignals`: four are enough to occupy the mux, fill its channel and have one
  dropped.

* `MaxEvents`: two, so that the queue overflows with one renewal of each file.
* `Reqs`, `BodyUnits`, `RespUnits`, `MaxLogged`: two requests share the counters;
  a response of two units is longer than the logged prefix of one, or as long, or
  shorter; a request body of one unit can be read once before and once behind a
  `Close`. With bodies of two units the run passes as well, in three times the time.
* `Inputs`: every single setting of every key on top of each of seven example
  configurations, with a second setting on top of that for the keys that interact
  with others; and directories with several files that set the same keys, with
  stray, unmarked, broken and missing ones. The examples hold the keys that
  checks relate to each other (certificate with key and CA, Let's Encrypt with its
  domain, client certificates with `sysroots`).
* `Workers`, `MaxOps`, `Scenarios`: two workers compete for a limit of one and
  for the statistics; two requests, so that one may fail after one has
  succeeded; three scenarios (TCP with a limit, HTTP, TCP with a payload that
  need not fit the buffers), of which any may go wrong before another goes well.
  `Json` is on, because only a JSON report can fail.

The counters of the code that can grow without bound (bytes, connections,
errors) grow with these bounds only; overflow of 64-bit counters is out of reach
of the program.

### Fairness

Weak fairness for goroutines that can run (the Go scheduler), for timers (drain,
debounce) and for calls that carry a timeout (handshake, dial, the callbacks'
30 seconds). None for peers, clients, signals, renewals, panics or failures.
Not for `Write`: a peer that does not read can block it for ever, so
`PeerCloseTerminates` and `CancelDrains` have that case as their exception. Strong fairness only for
the steps of the HTTP hook that contend for `mu`, because Go's mutex hands the
lock to a waiter that has starved for a millisecond. In `TcpServer` a connection
is sure to end only after cancellation, in `HttpServer` only if it was refused.
In `HttpProxy` fairness is for three things: a wait for the backend fails once
the context of its request has ended (`ContextEnds`), a `Read` of a buffered prefix
returns (`CopyPrefix`), and a configured write deadline expires
(`WriteTimesOut`). Neither backends nor clients owe anything.
In `LoadTest` the duration ends, goroutines run and the in-process backend echoes;
connections fail or not as they like. A worker is fair only while it is not
`Blocked`: a `Write` that the buffers may not hold and a `Read` on a connection that
is neither served nor closed are not assumed to return.

## 4. Proofs

`TcpConnProofs`, for any `MaxUnits` and all settings:
`TypeCorrect`, `SignalKept`, `ErrorsReal`, `CountersCorrect`, `PlainEof` (without
TLS) and `Refinement` (`Spec => RelaySpec`). All rest on one inductive invariant:
`TypeOK`, `ControlInv` (which sockets and goroutines exist at each point of
`Start`), `TokenInv` (where the token is; `SignalNotLost` alone is not inductive,
because it does not say that a token taken by the watcher leaves the channel
empty), `DataInv` (chunk, written and counted units against the wire, in each
state of a Pipe) and `ErrorInv` (which errors imply a real failure). The
refinement maps `over` to "Start has returned": Pipes that outlive it can no
longer write because both connections are closed by then, which `ControlInv`
says.

`TcpServerProofs`, for any finite set of connections and any limit, 0 included:
`TypeCorrect`, `LimitKept`, `DrainCorrect`, `LimitImplemented`
(`Spec => LimitSpec`). The invariant ties `cur` to main's program counter
(`WorkInv`), `sem` and `wg` to the cardinalities of the sets of connections that
hold them (`CountInv`; this is what makes the counters of `TypeOK` stay at or
above zero), and the waiter and the drain to `wg` (`DrainInv`).

`HttpServerProofs`, for any finite set of clients and any limit: `TypeCorrect`,
`LimitKept`, `LimitImplemented` (`Spec => LimitSpec`). `OwnerInv`
says that the map of owners holds exactly the connections that are served or
closing and were not refused; without it a refused connection, which reports
`StateClosed` too, could release a token it never had.

`CertStoreProofs`, for any number of entries, versions, signals and any size of
the event queue: `TypeCorrect` (the only place where the store's `TypeOK` is
checked), `OffersCorrect`, `WatcherLosesNothing`. `PairInv` says that everything
on disk, read or installed was written; `StartInv` that main loads the entries in
order before it goes on. The third theorem needs the invariant `WatchInv`: every
difference between the store and the disk is announced by an event, by the timer,
or by a reload that has not reached the entry yet, and what that reload has read
is still on disk unless a later change is announced.

`LifecycleProofs`, for any number of signals: `TypeCorrect`, `CallbacksExclusive`.
`MuxInv` (the mux is off until main creates it) is what the first stage needs,
and that what is registered stays `Callable` is what `StartMetrics`, `StartTLS` and
`StartServe` each have to show under their condition; `OneSignalAtATime` is then inductive, because the mux takes the next signal only
when its `WaitGroup` is at zero.

`StartupProofs`, for every environment (whatever files, variables and flags hold)
and every set of addresses with 16-bit ports: `TLSNeverLost`, `HeaderCorrect`,
`CADropped` and `LayersCorrect`. For the first three the invariant `Inv` carries
what each stage established to the later ones: behind validation
`ServerTLSValid(k)` holds, also after the log level was normalised; the listener's
and the backend's TLS configuration are those of the final `k` and no error; the
header is that of the connection. `TLSNeverLost` is about the backend's TLS in TCP
mode only: in HTTP mode the scheme of the URL decides (section 5). `CADropped`
says when the code uses a CA configured for a verified backend: just when there is
a client certificate and `sysroots` is off.

`LayersCorrect` (`Spec => []ConfigAsLayered`) needs an invariant of its own,
`LayerInv`, because `ConfigAsLayered` speaks only of the end of `GetConfig`.
`Position` says where the reading is: `paths` and `todo` are what is left of the
`-config` paths and of the directory at hand, and no file that counts and is
behind was broken. `Layered` says that `k` holds, for each key, the value of the
latest file among those read that sets it, or the default; a file that is loaded
is later than all before it (`FromAdd`), and of several files only one is the
latest, which makes the `CHOOSE` of the reference definition the file found
(`FromAll`). A broken file in the working directory ends the walk: the files
behind it are passed over because they do not count.

`HttpProxyProofs`, for any finite set of requests, any sizes of bodies and any
limit on the logged prefix: `TypeCorrect`, `ResponseCorrect`, `BytesCorrect`.
Each request has an invariant of its own, `ReqInv`. `ResponseInv` says that what
was read from the backend is what the wrapper handed on followed by the buffered
prefix, consecutive and without a gap; without the part about the prefix
`ResponseIntact` is not inductive. `StageInv` says that the client is behind by the
unit that is being written to it, and lacks it only when it is gone, `BodyInv` that
`bytesRead` lags by at most the `Read` under way and that there is none after a
`Close`. `BytesCounted` is not inductive, because it says nothing of the sent
counter once a body was closed twice: `SumsInv` says what every `Close` has added.
Its sums over the requests are cardinalities, and `SumsMove` reduces what a step
does to a sum to what it does to the one request it touches.

`LoadTestProofs`, for any finite set of workers, any `MaxOps` and any sequence of
scenarios: `TypeCorrect`, `SnapshotCorrect`, `ErrorsCorrect`, `ExitCorrect`. The statistics are tied to the places of the workers: each number
is another one plus the workers that are between the two (`RecordInv`), and an
error is matched by a fault or a refusal that its worker met (`FaultInv`).
`PlaceInv` says that no worker is in its loop outside the test, so that both
halves of a snapshot are taken at rest; `ResultInv` carries the first half across
the unlock, and `FailedInv` ties the exit status to the scenarios that went wrong
and to the report. `LingerInv` says that no connection of a scenario still to come
lingers, so that each harness starts with all its slots although connections of
earlier ones may still be there.

Assumptions: only the named `ASSUME`s on the constants (naturals, Booleans, finite
sets, 16-bit ports; the files of a path and the `-config` paths are sequences, the
working directory is a directory or unreadable), which TLC evaluates in the runs.

Only model-checked: everything under fairness (the leads-to properties and
`TestEnds`), because TLAPS has no rule for it here. Every invariant and every
refinement that a passing run checks is also proved.

## 5. Findings and observations

1. `tcp_conn_tls_eof`: `Pipe` looks at `err` before `n`, and drops the bytes that
   `tls.Conn.Read` returns together with `io.EOF`.
2. `cert_stale`: SIGHUP and watcher may reload at the same time; the one that
   read first can install last and bring the old pair back.
3. `http_proxy_sent`: a request body that is closed twice, by a `RoundTrip` that
   fails during the upload and by the goroutine that sends it, is counted twice
   (`http.go:38`); README.md:236 calls the metric the total bytes sent.

Further disagreements between the code and its documentation, which the modules
contain and the properties do not promise:

* `remote.tls.ca` is used only together with a client certificate and with
  `sysroots: false` (`remote.go:24-56`); README.md:187 promises it without
  conditions. The theorem `CADropped` is the proof.
* In HTTP mode an http URL makes the backend connection plaintext with
  `remote.tls.enable` on (`main.go:311`, `Dial` in `Startup`), and `ValidateConfig`
  accepts it; README.md:185 says that backend connections use TLS by default and
  that `enable: false` turns it off. `TLSKept` therefore speaks of TCP mode.
* A `-config` directory loads every YAML file in it, marked or not
  (`config.go:246`), as the comment at `config.go:229` says; README.md:51 speaks of
  its `#tlspxy` files. `ConfigAsLayered` follows the code.
* A worker of the load test writes its whole payload without a deadline before it
  reads (`generator.go:74`); with one that the buffers do not hold `Run` never
  returns, although its comment has the workers run until the context is
  cancelled. It is the exception of `TestEnds`.
* `RunScenario` returns an error for a scenario that fails its own `Validate`; main
  takes it for one that did not run and drops its result
  (`cmd/loadtest/main.go:66`), so that the report does not show it. The exit status
  does.

Other behaviour met while modelling, visible in the modules and not stated as a
run:

* The idle timeout is per direction; a busy one-way transfer is cut when the other
  direction has been quiet for that long (`tcp.go:280`).
* A renewal between the first load and `Watch` raises no event and is loaded only
  by the next event or SIGHUP.
* A SIGTERM during startup, after the mux has begun to trap signals and before
  `NotifyContext`, has no effect; in HTTP mode, neither has one that the mux's full
  channel drops.
* In HTTP mode main returns as soon as `Shutdown` closes the listener, while the
  callbacks still run.
* `log.level: warning`, as README.md:110 spells it, becomes `warn` in
  `ValidateConfig` (`config.go:504`), which `logging.Configure` does not know: the
  level is then info.
* `ValidateConfig` accepts an empty `server.type` or `server.addr`, with which
  main exits later; a maximum version below the default minimum; `verify` without
  TLS, which has no effect. With Let's Encrypt `server.tls.ca` has no effect.
* A file named by `-config` that does not end in `.yml` or `.yaml` is skipped
  without a word (`config.go:269`).
* With `server.timeouts.write` at its default of 0, a client that stops reading
  keeps its handler for ever, also past SIGTERM, until the process exits (the
  exception in `CancelDrains`).
* The body wrapper of `http.go:122` hides the `io.Writer` that an upgraded (101)
  connection needs.
* A scenario of the load test in which no request was made passes
  (`stats.go:128`). A harness that cannot be set up leaves its backend loop behind
  (`harness.go:75`), and `Close` does not wait for proxied connections and echo
  goroutines (`harness.go:143`, `213`), which may run into the next scenario.

## 6. Not modelled, and the plan

Abstracted away: log texts, byte contents, the size of the buffer, the length of
time-outs (a timer may fire at any moment), the RW lock of the store (its critical
sections are single steps), the order of Go's map iteration over SNI entries
(entries are independent), cipher and ALPN lists beyond whether they parse.

Not modelled:

* `rewrite.go`: a pure function of one request in which every branch assigns one
  header through `net/http`.
* The Prometheus endpoint, log output, help output, the text of the load test's
  report and percentiles: output only. `CombineMaps`: unused.
* The HTTP limiter of the load-test harness, which no scenario switches on, and
  the certificate reloads of one scenario, which are `CertStore`'s.
* The debounce of the watcher under an endless stream of events: the timer is
  restarted by each of them, so that no bound on the reload exists; `CertStore`
  assumes that renewals pause.

Next, in this order:

1. The composition of `Lifecycle` with `TcpServer`: one root context for both.
2. The enabling facts behind the liveness properties that can be stated without
   `ENABLED`: at each point of a connection's teardown some goroutine's guard
   holds.
