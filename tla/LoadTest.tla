----------------------------- MODULE LoadTest -----------------------------
(***************************************************************************)
(* The load-test tool: cmd/loadtest's loop over scenarios, RunScenario,    *)
(* the harness with its echo backend, accept loops and connection limit    *)
(* (internal/loadtest/harness.go), the workers of both generators          *)
(* (generator.go) and the statistics they share (stats.go).                *)
(*                                                                         *)
(* The proxied connection itself is TcpConn; here it echoes, fails or ends.*)
(* Latencies and the text of the report are left out: a sample is a count, *)
(* RecordBytes adds one payload, and of its size it matters only whether   *)
(* the socket buffers hold it. The certificate reloads of one scenario are *)
(* CertStore's and touch nothing else.                                     *)
(***************************************************************************)
EXTENDS Naturals, Sequences, FiniteSets

CONSTANTS
    Workers,    \* the workers of a scenario
    Scenarios,  \* sequence of [Mode, MaxConns, Validate, Fits]; Fits: the payload is
                \* sure to fit the socket buffers from the worker to the echo and back
    Json,       \* -json
    MaxOps      \* bound: requests of a worker in one scenario

ASSUME LoadTestAssumption ==
    /\ IsFiniteSet(Workers) /\ MaxOps \in Nat /\ Json \in BOOLEAN
    /\ Scenarios \in Seq([Mode : {"tcp", "http"}, MaxConns : Nat, Validate : BOOLEAN,
                          Fits : BOOLEAN])
    /\ Scenarios # <<>>

VARIABLES
    stage,    \* where main is, see Stage
    cur,      \* the scenario it is at
    failed,   \* main's failed
    bad,      \* history: the scenarios that did not go well
    results,  \* main's results: the scenarios that will be in the report
    lost,     \* history: the report could not be written
    code,     \* exit status, 9 while the tool runs
    loops,    \* the goroutines the harness waits for, as <<scenario, name>>
    open,     \* the listeners of the current harness that are open
    ended,    \* ctx of the scenario: its duration is over
    at,       \* at[w]: where worker w is, see At
    ops,      \* requests it has begun
    conn,     \* conn[w]: its connection as the harness sees it, see Conn
    linger,   \* linger[c]: proxied connections of scenario c whose client has closed
    orphans,  \* connections closed by the client before they were accepted
    stats,    \* Stats
    result,   \* the Result being put together
    faults    \* history: failures not caused by the end of the test

main == <<stage, cur, failed, bad>>
report == <<results, lost, code>>
harness == <<loops, open>>
clients == <<at, ops, conn, linger, orphans>>
vars == <<main, report, harness, ended, clients, stats, result, faults>>

Stage == {"setup", "run", "locked", "close", "wait", "report", "exit"}
At == {"off", "top", "dial", "connect", "write", "read", "do", "body", "failed", "err",
       "breakdown", "rt", "bytes", "success", "done"}
Conn == {"none", "backlog", "served", "rejected"}
Fields == {"connect", "rt", "bytes", "success", "errors", "breakdown"}
Zero == [f \in Fields |-> 0]

Mode == Scenarios[cur].Mode

\* The proxied connections of the current harness, each with a token of its sem
Held == Cardinality({w \in Workers : conn[w] = "served"}) + linger[cur]

\* With a limit no more than MaxConns connections are proxied at a time.
TypeOK ==
    /\ stage \in Stage /\ cur \in 1..Len(Scenarios)
    /\ failed \in BOOLEAN /\ ended \in BOOLEAN
    /\ bad \subseteq 1..Len(Scenarios) /\ results \subseteq 1..Len(Scenarios)
    /\ lost \in BOOLEAN /\ code \in {0, 1, 9}
    /\ open \subseteq {"backend", "proxy"}
    /\ loops \subseteq (1..Len(Scenarios)) \X {"backend", "proxy"}
    /\ at \in [Workers -> At] /\ ops \in [Workers -> 0..MaxOps]
    /\ conn \in [Workers -> Conn]
    /\ linger \in [1..Len(Scenarios) -> Nat] /\ orphans \in Nat /\ faults \in Nat
    /\ stats \in [Fields -> Nat] /\ result \in [Fields -> Nat]
    /\ Scenarios[cur].MaxConns > 0 => Held <= Scenarios[cur].MaxConns

Init ==
    /\ stage = "setup" /\ cur = 1
    /\ failed = FALSE /\ bad = {} /\ results = {} /\ lost = FALSE /\ code = 9
    /\ loops = {} /\ open = {}
    /\ ended = FALSE /\ faults = 0
    /\ at = [w \in Workers |-> "off"] /\ ops = [w \in Workers |-> 0]
    /\ conn = [w \in Workers |-> "none"]
    /\ linger = [c \in 1..Len(Scenarios) |-> 0] /\ orphans = 0
    /\ stats = Zero /\ result = Zero

----------------------------------------------------------------------------
(* main and RunScenario *)

\* NewHarness has started both goroutines, and the generator its workers.
Setup(mode) ==
    /\ stage = "setup" /\ Mode = mode
    /\ stage' = "run"
    /\ loops' = loops \cup {<<cur, "backend">>, <<cur, "proxy">>}
    /\ open' = {"backend", "proxy"}
    /\ at' = [w \in Workers |-> "top"]
    /\ UNCHANGED <<cur, failed, bad, report, ended, ops, conn, linger, orphans, stats, result,
                   faults>>

\* The accept loops of the echo backend and of the proxy
SetupTCP == Setup("tcp")

\* The goroutine that closes httptest's server, and the one in Serve; no scenario
\* has a connection limit in this mode.
SetupHTTP == Setup("http")

\* The next scenario, or the report; each has a harness, a context and a Stats of
\* its own. Connections nobody accepted are reset with the listener. The
\* goroutines of proxied connections and of the echo are not in h.wg: those that
\* have not ended go on beside the next scenario (linger).
Advance ==
    /\ IF cur < Len(Scenarios) THEN cur' = cur + 1 /\ stage' = "setup"
                               ELSE cur' = cur /\ stage' = "report"
    /\ ended' = FALSE /\ faults' = 0
    /\ at' = [w \in Workers |-> "off"] /\ ops' = [w \in Workers |-> 0]
    /\ conn' = [w \in Workers |-> "none"] /\ orphans' = 0
    /\ UNCHANGED <<linger, lost, code>>
    /\ stats' = Zero /\ result' = Zero

\* Mutant: a scenario that could not be run does not count.
SetupFailed_Skipped == failed

\* main's reaction to an error of RunScenario
SetupFailed == TRUE

\* NewHarness fails and only cancels the context: in TCP mode a backend that is
\* already accepting goes on for ever.
SetupFails(left) ==
    /\ stage = "setup"
    /\ left \in IF Mode = "tcp" THEN {{}, {<<cur, "backend">>}} ELSE {{}}
    /\ loops' = loops \cup left
    /\ failed' = SetupFailed
    /\ bad' = bad \cup {cur}
    /\ Advance
    /\ UNCHANGED <<results, open>>

\* context.WithTimeout
Deadline ==
    /\ stage = "run" /\ ~ended
    /\ ended' = TRUE
    /\ UNCHANGED <<main, report, harness, clients, stats, result, faults>>

\* Mutant: Run starts the workers and does not wait for them.
RunReturns_NoWait == ended

\* wg.Wait of the generator
RunReturns == \A w \in Workers : at[w] = "done"

\* Snapshot copies the slices and the map under mu ...
Snapshot ==
    /\ stage = "run" /\ RunReturns
    /\ stage' = "locked"
    /\ result' = [f \in Fields |-> IF f \in {"connect", "rt", "breakdown"} THEN stats[f] ELSE 0]
    /\ UNCHANGED <<cur, failed, bad, report, harness, ended, clients, stats, faults>>

\* ... and loads the counters after the unlock.
SnapshotLoads ==
    /\ stage = "locked"
    /\ stage' = "close"
    /\ result' = [f \in Fields |-> IF f \in {"bytes", "success", "errors"} THEN stats[f] ELSE result[f]]
    /\ UNCHANGED <<cur, failed, bad, report, harness, ended, clients, stats, faults>>

\* Close closes every listener (and, with the context, httptest's server) ...
Close ==
    /\ stage = "close"
    /\ stage' = "wait"
    /\ open' = {}
    /\ UNCHANGED <<cur, failed, bad, report, loops, ended, clients, stats, result, faults>>

\* An accept loop ends when its listener is closed.
LoopEnds(l) ==
    /\ <<cur, l>> \in loops /\ stage = "wait" /\ l \notin open
    /\ loops' = loops \ {<<cur, l>>}
    /\ UNCHANGED <<main, report, open, ended, clients, stats, result, faults>>

\* h.wg.Wait(): of the goroutines of a harness, the two accept loops
Joined == \A l \in {"backend", "proxy"} : <<cur, l>> \notin loops

Exceeds(r) ==
    r.errors * 100 > (IF Scenarios[cur].Validate THEN 75 ELSE 1) * (r.success + r.errors)

\* ... and waits for the loops; main looks at the result. A scenario that fails
\* its own Validate is an error of RunScenario, and main does not collect it.
Verdict ==
    /\ stage = "wait" /\ Joined
    /\ failed' = (failed \/ Exceeds(result))
    /\ bad' = IF Exceeds(stats) THEN bad \cup {cur} ELSE bad
    /\ results' = IF Scenarios[cur].Validate /\ Exceeds(result) THEN results
                  ELSE results \cup {cur}
    /\ Advance
    /\ UNCHANGED <<loops, open>>

\* The report, and the exit status: a JSON report that cannot be written is an
\* error, text is printed without a look at the result.
Report(written) ==
    /\ stage = "report" /\ stage' = "exit"
    /\ written \/ (Json /\ results # {})
    /\ lost' = ~written
    /\ code' = IF failed \/ ~written THEN 1 ELSE 0
    /\ UNCHANGED <<cur, failed, bad, results, harness, ended, clients, stats, result, faults>>

----------------------------------------------------------------------------
(* The workers *)

\* Worker w goes from one place to another and nothing else changes in it.
Goes(w, from, to) == at[w] = from /\ at' = [at EXCEPT ![w] = to]

Quiet == UNCHANGED <<main, report, harness, ended, result>>

\* The head of the loop; with MaxOps requests done only the end is left.
Top(w) ==
    /\ \/ ended /\ Goes(w, "top", "done") /\ UNCHANGED ops
       \/ /\ ~ended /\ ops[w] < MaxOps
          /\ Goes(w, "top", IF Mode = "tcp" THEN "dial" ELSE "do")
          /\ ops' = [ops EXCEPT ![w] = @ + 1]
    /\ Quiet /\ UNCHANGED <<conn, linger, orphans, stats, faults>>

\* A dial succeeds in the kernel, before the accept loop sees the connection; a
\* TLS handshake, which shows a rejection earlier, is left out.
Dial(w) ==
    /\ Goes(w, "dial", "connect")
    /\ conn' = [conn EXCEPT ![w] = "backlog"]
    /\ Quiet /\ UNCHANGED <<ops, linger, orphans, stats, faults>>

\* conn.Write of the whole payload, before anything of it is read
Write(w) ==
    /\ Goes(w, "write", "read")
    /\ Quiet /\ UNCHANGED <<ops, conn, linger, orphans, stats, faults>>

\* The payload has come back.
Read(w) ==
    /\ conn[w] = "served" /\ Goes(w, "read", "rt")
    /\ Quiet /\ UNCHANGED <<ops, conn, linger, orphans, stats, faults>>

\* A dial, a Write or a Read fails; a rejected connection is no new fault.
TcpFails(w) ==
    /\ \E from \in {"dial", "write", "read"} : Goes(w, from, "err")
    /\ faults' = IF conn[w] = "rejected" THEN faults ELSE faults + 1
    /\ Quiet /\ UNCHANGED <<ops, conn, linger, orphans, stats>>

\* client.Do and io.ReadAll succeed ...
Http(w) ==
    /\ Goes(w, "do", "body") \/ Goes(w, "body", "rt")
    /\ Quiet /\ UNCHANGED <<ops, conn, linger, orphans, stats, faults>>

\* ... or fail, by a fault or because ctx has ended.
HttpFails(w) ==
    /\ Goes(w, "do", "failed") \/ Goes(w, "body", "failed")
    /\ faults' = IF ended THEN faults ELSE faults + 1
    /\ Quiet /\ UNCHANGED <<ops, conn, linger, orphans, stats>>

\* Mutant: every failed request is recorded.
AfterFailure_Recorded == "err"

\* if ctx.Err() != nil { return }, some time after the failure
AfterFailure == IF ended THEN "done" ELSE "err"

HttpChecks(w) ==
    /\ Goes(w, "failed", AfterFailure)
    /\ Quiet /\ UNCHANGED <<ops, conn, linger, orphans, stats, faults>>

\* conn.Close: what was accepted stays with the proxy for a while.
Closes(w) ==
    /\ conn' = [conn EXCEPT ![w] = "none"]
    /\ linger' = IF conn[w] = "served" THEN [linger EXCEPT ![cur] = @ + 1] ELSE linger
    /\ orphans' = IF conn[w] = "backlog" THEN orphans + 1 ELSE orphans

Adds(f) == stats' = [stats EXCEPT ![f] = @ + 1]

\* RecordConnect and RecordRoundTrip, in the order of the two generators, and
\* RecordBytes.
Records(w) ==
    /\ \/ Adds("connect") /\ Goes(w, "connect", IF Mode = "tcp" THEN "write" ELSE "bytes")
       \/ Adds("rt") /\ Goes(w, "rt", IF Mode = "tcp" THEN "bytes" ELSE "connect")
       \/ Adds("bytes") /\ Goes(w, "bytes", "success")
       \/ Adds("errors") /\ Goes(w, "err", "breakdown")
    /\ Quiet /\ UNCHANGED <<ops, conn, linger, orphans, faults>>

\* RecordSuccess, or the map of RecordError under mu; then the connection is
\* closed and the loop goes on.
RecordsLast(w) ==
    /\ \/ Adds("success") /\ Goes(w, "success", "top")
       \/ Adds("breakdown") /\ Goes(w, "breakdown", "top")
    /\ Closes(w)
    /\ Quiet /\ UNCHANGED <<ops, faults>>

Worker(w) ==
    \/ Top(w) \/ Dial(w) \/ Write(w) \/ Read(w) \/ TcpFails(w)
    \/ Http(w) \/ HttpFails(w) \/ HttpChecks(w) \/ Records(w) \/ RecordsLast(w)

\* Neither Write nor Read has a deadline. A Write may last for ever if the
\* connection is not served, or is but nobody reads the end of the echo, and a
\* Read if the connection is neither served nor closed.
Blocked(w) ==
    \/ at[w] = "write" /\ conn[w] # "rejected" /\ ~(conn[w] = "served" /\ Scenarios[cur].Fits)
    \/ at[w] = "read" /\ conn[w] \notin {"served", "rejected"}

----------------------------------------------------------------------------
(* The accept loop of the harness in TCP mode *)

\* Mutant: one connection too many gets in.
Room_OffByOne == Scenarios[cur].MaxConns = 0 \/ Held <= Scenarios[cur].MaxConns

\* case sem <- struct{}{}
Room == Scenarios[cur].MaxConns = 0 \/ Held < Scenarios[cur].MaxConns

\* Mutant: a connection without a slot is dropped but not closed.
Reject_LeftOpen == "none"

\* conn.Close()
Reject == "rejected"

Accept(w) ==
    /\ stage = "run" /\ conn[w] = "backlog"
    /\ conn' = [conn EXCEPT ![w] = IF Room THEN "served" ELSE Reject]
    /\ faults' = IF Room THEN faults ELSE faults + 1
    /\ Quiet /\ UNCHANGED <<at, ops, linger, orphans, stats>>

\* A connection its client has given up takes a slot like any other.
AcceptOrphan ==
    /\ "proxy" \in open /\ orphans > 0
    /\ orphans' = orphans - 1
    /\ linger' = IF Room THEN [linger EXCEPT ![cur] = @ + 1] ELSE linger
    /\ Quiet /\ UNCHANGED <<at, ops, conn, stats, faults>>

\* p.Start returns and the deferred function receives from the sem of its own
\* harness, which may be closed by now.
ConnEnds(c) ==
    /\ linger[c] > 0
    /\ linger' = [linger EXCEPT ![c] = @ - 1]
    /\ Quiet /\ UNCHANGED <<at, ops, conn, orphans, stats, faults>>

----------------------------------------------------------------------------
Main ==
    \/ SetupTCP \/ SetupHTTP \/ (\E left \in SUBSET {<<cur, "backend">>} : SetupFails(left))
    \/ Deadline \/ Snapshot \/ SnapshotLoads \/ Close
    \/ (\E l \in {"backend", "proxy"} : LoopEnds(l)) \/ Verdict
    \/ \E written \in BOOLEAN : Report(written)

Done == stage = "exit" /\ UNCHANGED vars

Next ==
    \/ Main
    \/ \E w \in Workers : Worker(w) \/ Accept(w)
    \/ AcceptOrphan \/ \E c \in 1..Len(Scenarios) : ConnEnds(c)
    \/ Done

(***************************************************************************)
(* Timers fire, goroutines are scheduled and, unless a worker is blocked   *)
(* without a deadline, its I/O ends in one way or the other: a dial and an *)
(* HTTP request have timeouts, and a proxied connection returns what fits  *)
(* its buffers or breaks.                                                  *)
(***************************************************************************)
Fairness ==
    /\ WF_vars(Main) /\ WF_vars(AcceptOrphan)
    /\ \A c \in 1..Len(Scenarios) : WF_vars(ConnEnds(c))
    /\ \A w \in Workers : WF_vars(~Blocked(w) /\ Worker(w)) /\ WF_vars(Accept(w))

Spec == Init /\ [][Next]_vars /\ Fairness

----------------------------------------------------------------------------
(* Properties *)

\* The counters that Snapshot loads after the unlock agree with the samples it
\* copied under it: every success has its latencies and bytes, every error its
\* line in the breakdown.
SnapshotConsistent ==
    stage \in {"close", "wait"} =>
       /\ result.rt = result.success /\ result.bytes = result.success
       /\ result.connect >= result.success
       /\ result.breakdown = result.errors
       /\ result = stats

\* Requests cut off by the end of the test are not counted as errors: there
\* are no more errors than faults and rejected connections.
ErrorsReal == stats.errors <= faults

\* The exit status is 0 exactly when every scenario was set up and stayed
\* within its error rate and the report was written; a later scenario does not
\* hide an earlier one.
ExitHonest == stage = "exit" => (code = 0 <=> bad = {} /\ ~lost)

\* The tool ends: no worker hangs in a Read or a Write on a connection that was
\* refused, and no harness on its own accept loops. The one thing that keeps it
\* is a Write of a payload that the socket buffers do not hold: it has no deadline
\* and the end of the duration does not reach it, although the comment of
\* TCPGenerator.Run has the workers go on "until ctx is cancelled".
TestEnds ==
    <>(\/ stage = "exit"
       \/ [](\E w \in Workers : at[w] = "write" /\ ~Scenarios[cur].Fits))
=============================================================================
