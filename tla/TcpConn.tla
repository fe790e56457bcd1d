------------------------------ MODULE TcpConn ------------------------------
(***************************************************************************)
(* One proxied TCP connection: TCPProxy.Start, its two Pipe goroutines,    *)
(* its cancellation watcher, and the counters (internal/proxy/tcp.go).     *)
(*                                                                         *)
(* Every goroutine has a program counter; a step is what happens between   *)
(* two points where another goroutine, a peer or the process context can   *)
(* be observed. Payload is abstracted to numbered units: unit n of a       *)
(* direction is the n-th unit its source sent, and unit 0 of the           *)
(* direction to the backend is the PROXY protocol header.                  *)
(***************************************************************************)
EXTENDS Naturals, Sequences

CONSTANTS
    ServerTLS,   \* ServerConn is a *tls.Conn (server TLS configured)
    RemoteTLS,   \* RemoteTLSConf # nil
    ProxyProto,  \* remote.proxyprotocol is "v1" or "v2"
    ReadTimed,   \* IdleTimeout > 0 or ReadTimeout > 0
    WriteTimed,  \* WriteTimeout > 0
    Panics,      \* bound: whether panics (all recovered) are explored
    MaxUnits     \* bound: MaxUnits[d] units are sent in direction d

Dirs  == {"send", "recv"}          \* client to backend, backend to client
Sides == {"server", "remote"}      \* ServerConn, RemoteConn

ASSUME TcpConnAssumption ==
    /\ {ServerTLS, RemoteTLS, ProxyProto, ReadTimed, WriteTimed, Panics}
          \subseteq BOOLEAN
    /\ MaxUnits \in [Dirs -> Nat]

Src(d) == IF d = "send" THEN "server" ELSE "remote"
Dst(d) == IF d = "send" THEN "remote" ELSE "server"
IsTLS(s) == IF s = "server" THEN ServerTLS ELSE RemoteTLS

\* Units in front of the payload of direction d: the PROXY header.
Pre == [d \in Dirs |-> IF d = "send" /\ ProxyProto THEN 1 ELSE 0]

VARIABLES
    ctxDone,   \* p.Ctx (the process's root context) is cancelled
    connDone,  \* Start's own connCancel has run
    start,     \* program counter of Start
    panicked,  \* Start is unwinding from a panic
    pipe,      \* pipe[d]: program counter of Pipe in direction d
    ek,        \* ek[d]: the error Pipe d got, "none" before
    watch,     \* program counter of the watcher goroutine
    sig,       \* tokens in ErrorSignal, a channel of capacity 1
    once,      \* CloseOnce has run
    conn,      \* conn[s]: "none" (not dialled), "open", "closed" by the proxy
    sent,      \* sent[d]: units that have arrived from the source of d
    fin,       \* fin[d]: the source of d has closed in order (FIN, close_notify)
    fault,     \* fault[s]: the connection on side s is broken (reset)
    got,       \* got[d]: units Pipe d has taken with Read
    chunk,     \* chunk[d]: units in its buffer, len(b)
    written,   \* written[d]: units of the buffer already written
    out,       \* out[d]: units handed to the destination
    cnt,       \* Counter.to / Counter.from
    errs,      \* ErrorsTotal{type="connection"}
    mishap     \* history: some operation really failed

envVars   == <<sent, fin, fault>>
dataVars  == <<got, chunk, written, out, cnt>>
startVars == <<start, panicked>>
vars == <<ctxDone, connDone, start, panicked, pipe, ek, watch, sig, once, conn,
          sent, fin, fault, got, chunk, written, out, cnt, errs, mishap>>

StartPc == {"handshake", "dial", "header", "spawn", "select", "signal",
            "closeRemote", "cancel", "closeServer", "recover", "returned"}
PipePc  == {"off", "check", "read", "rerr", "write", "werr", "count",
            "signal", "done"}
WatchPc == {"off", "wait", "resend", "woken", "closeServer", "closeRemote",
            "done"}
ErrKinds == {"none", "eof", "closed", "timeout", "other"}

TypeOK ==
    /\ ctxDone \in BOOLEAN /\ connDone \in BOOLEAN
    /\ start \in StartPc /\ panicked \in BOOLEAN
    /\ pipe \in [Dirs -> PipePc] /\ ek \in [Dirs -> ErrKinds]
    /\ watch \in WatchPc
    /\ sig \in 0..1 /\ once \in BOOLEAN
    /\ conn \in [Sides -> {"none", "open", "closed"}]
    /\ sent \in [Dirs -> Nat]
    /\ fin \in [Dirs -> BOOLEAN] /\ fault \in [Sides -> BOOLEAN]
    /\ got \in [Dirs -> Nat] /\ chunk \in [Dirs -> Nat]
    /\ written \in [Dirs -> Nat] /\ cnt \in [Dirs -> Nat]
    /\ out \in [Dirs -> Seq(Nat)]
    /\ errs \in Nat /\ mishap \in BOOLEAN

Init ==
    /\ ctxDone = FALSE /\ connDone = FALSE
    /\ start = (IF ServerTLS THEN "handshake" ELSE "dial")
    /\ panicked = FALSE
    /\ pipe = [d \in Dirs |-> "off"] /\ ek = [d \in Dirs |-> "none"]
    /\ watch = "off"
    /\ sig = 0 /\ once = FALSE
    /\ conn = [s \in Sides |-> IF s = "server" THEN "open" ELSE "none"]
    /\ sent = [d \in Dirs |-> 0]
    /\ fin = [d \in Dirs |-> FALSE] /\ fault = [s \in Sides |-> FALSE]
    /\ got = [d \in Dirs |-> 0] /\ chunk = [d \in Dirs |-> 0]
    /\ written = [d \in Dirs |-> 0] /\ cnt = [d \in Dirs |-> 0]
    /\ out = [d \in Dirs |-> <<>>]
    /\ errs = 0 /\ mishap = FALSE

----------------------------------------------------------------------------
(* Shared helpers *)

\* connCtx.Err() # nil: the per-connection context is a child of p.Ctx.
CtxErr == ctxDone \/ connDone

\* Mutant: the send without the sync.Once around it.
CloseOnceDo_Unguarded == once' = TRUE /\ sig' = sig + 1

\* p.CloseOnce.Do(func() { p.ErrorSignal <- true }): the first caller sends,
\* and would block on a full channel; every later caller does nothing.
CloseOnceDo ==
    \/ once /\ UNCHANGED <<once, sig>>
    \/ ~once /\ sig = 0 /\ once' = TRUE /\ sig' = 1

\* Mutant: the net.ErrClosed exemption is missing.
Counted_LocalCloseToo(kind) == kind # "eof"

\* TCPProxy.err counts everything but a peer's EOF and a local close.
Counted(kind) == kind \notin {"eof", "closed"}

\* What Pipe does with a failed Read or Write once its context is live:
\* a timeout is not an error, the rest goes through TCPProxy.err.
PipeErrs(kind) == errs + (IF kind # "timeout" /\ Counted(kind) THEN 1 ELSE 0)

----------------------------------------------------------------------------
(* Start *)

\* HandshakeContext succeeds.
HandshakeOK ==
    /\ start = "handshake"
    /\ start' = "dial"
    /\ UNCHANGED <<ctxDone, connDone, panicked, pipe, ek, watch, sig, once, conn,
                   envVars, dataVars, errs, mishap>>

\* It fails: a probe, a timeout, a cancelled process. Logged at Info only.
HandshakeFail ==
    /\ start = "handshake"
    /\ start' = "signal"
    /\ UNCHANGED <<ctxDone, connDone, panicked, pipe, ek, watch, sig, once, conn,
                   envVars, dataVars, errs, mishap>>

DialOK ==
    /\ start = "dial"
    /\ conn' = [conn EXCEPT !["remote"] = "open"]
    /\ start' = (IF ProxyProto THEN "header" ELSE "spawn")
    /\ UNCHANGED <<ctxDone, connDone, panicked, pipe, ek, watch, sig, once,
                   envVars, dataVars, errs, mishap>>

\* The dial is refused, times out or is cancelled: p.err, then return.
DialFail ==
    /\ start = "dial"
    /\ errs' = errs + 1 /\ mishap' = TRUE
    /\ start' = "signal"
    /\ UNCHANGED <<ctxDone, connDone, panicked, pipe, ek, watch, sig, once, conn,
                   envVars, dataVars>>

HeaderOK ==
    /\ start = "header"
    /\ out' = [out EXCEPT !["send"] = <<0>>]
    /\ start' = "spawn"
    /\ UNCHANGED <<ctxDone, connDone, panicked, pipe, ek, watch, sig, once, conn,
                   envVars, got, chunk, written, cnt, errs, mishap>>

\* The header's Write fails; p.err counts a timeout here too.
HeaderFail ==
    /\ start = "header"
    /\ fault["remote"] \/ WriteTimed
    /\ errs' = errs + 1 /\ mishap' = TRUE
    /\ start' = "signal"
    /\ UNCHANGED <<ctxDone, connDone, panicked, pipe, ek, watch, sig, once, conn,
                   envVars, dataVars>>

\* The three go statements: the watcher and one Pipe per direction.
Spawn ==
    /\ start = "spawn"
    /\ watch' = "wait"
    /\ pipe' = [d \in Dirs |-> "check"]
    /\ start' = "select"
    /\ UNCHANGED <<ctxDone, connDone, panicked, ek, sig, once, conn,
                   envVars, dataVars, errs, mishap>>

SelectSignal ==
    /\ start = "select"
    /\ sig = 1
    /\ sig' = 0
    /\ start' = "closeRemote"
    /\ UNCHANGED <<ctxDone, connDone, panicked, pipe, ek, watch, once, conn,
                   envVars, dataVars, errs, mishap>>

\* Mutant: the final select waits for ErrorSignal only.
SelectCtx_Missing == FALSE /\ UNCHANGED vars

SelectCtx ==
    /\ start = "select"
    /\ ctxDone
    /\ start' = "closeRemote"
    /\ UNCHANGED <<ctxDone, connDone, panicked, pipe, ek, watch, sig, once, conn,
                   envVars, dataVars, errs, mishap>>

\* The first deferred call of an early return.
FirstDefer == IF conn["remote"] = "none" THEN "cancel" ELSE "closeRemote"

StartSignal ==
    /\ start = "signal"
    /\ CloseOnceDo
    /\ start' = FirstDefer
    /\ UNCHANGED <<ctxDone, connDone, panicked, pipe, ek, watch, conn,
                   envVars, dataVars, errs, mishap>>

StartPanic ==
    /\ Panics
    /\ start \in {"handshake", "dial", "header", "spawn"}
    /\ panicked' = TRUE
    /\ start' = FirstDefer
    /\ UNCHANGED <<ctxDone, connDone, pipe, ek, watch, sig, once, conn,
                   envVars, dataVars, errs, mishap>>

\* Start's deferred calls run last-in first-out: RemoteConn.Close, connCancel,
\* ServerConn.Close, and the recover, which signals if there was a panic.
DeferCloseRemote ==
    /\ start = "closeRemote"
    /\ conn' = [conn EXCEPT !["remote"] = "closed"]
    /\ start' = "cancel"
    /\ UNCHANGED <<ctxDone, connDone, panicked, pipe, ek, watch, sig, once,
                   envVars, dataVars, errs, mishap>>

DeferCancel ==
    /\ start = "cancel"
    /\ connDone' = TRUE
    /\ start' = "closeServer"
    /\ UNCHANGED <<ctxDone, panicked, pipe, ek, watch, sig, once, conn,
                   envVars, dataVars, errs, mishap>>

\* Mutant: no defer p.ServerConn.Close().
DeferCloseServer_Missing ==
    /\ start = "closeServer"
    /\ start' = "recover"
    /\ UNCHANGED <<ctxDone, connDone, panicked, pipe, ek, watch, sig, once, conn,
                   envVars, dataVars, errs, mishap>>

DeferCloseServer ==
    /\ start = "closeServer"
    /\ conn' = [conn EXCEPT !["server"] = "closed"]
    /\ start' = "recover"
    /\ UNCHANGED <<ctxDone, connDone, panicked, pipe, ek, watch, sig, once,
                   envVars, dataVars, errs, mishap>>

DeferRecover ==
    /\ start = "recover"
    /\ IF panicked THEN CloseOnceDo ELSE UNCHANGED <<once, sig>>
    /\ start' = "returned"
    /\ UNCHANGED <<ctxDone, connDone, panicked, pipe, ek, watch, conn,
                   envVars, dataVars, errs, mishap>>

StartStep ==
    \/ HandshakeOK \/ HandshakeFail \/ DialOK \/ DialFail
    \/ HeaderOK \/ HeaderFail \/ Spawn
    \/ SelectSignal \/ SelectCtx \/ StartSignal
    \/ DeferCloseRemote \/ DeferCancel \/ DeferCloseServer \/ DeferRecover

----------------------------------------------------------------------------
(* The watcher goroutine *)

\* It wins the race for the token ...
WatchSignal ==
    /\ watch = "wait"
    /\ sig = 1
    /\ sig' = 0
    /\ watch' = "resend"
    /\ UNCHANGED <<ctxDone, connDone, startVars, pipe, ek, once, conn,
                   envVars, dataVars, errs, mishap>>

\* Mutant: the watcher keeps the token it took.
WatchResend_Kept ==
    /\ watch = "resend"
    /\ watch' = "done"
    /\ UNCHANGED <<ctxDone, connDone, startVars, pipe, ek, sig, once, conn,
                   envVars, dataVars, errs, mishap>>

\* ... and puts it back for Start, without blocking, then exits.
WatchResend ==
    /\ watch = "resend"
    /\ sig' = 1
    /\ watch' = "done"
    /\ UNCHANGED <<ctxDone, connDone, startVars, pipe, ek, once, conn,
                   envVars, dataVars, errs, mishap>>

WatchWake ==
    /\ watch = "wait"
    /\ CtxErr
    /\ watch' = "woken"
    /\ UNCHANGED <<ctxDone, connDone, startVars, pipe, ek, sig, once, conn,
                   envVars, dataVars, errs, mishap>>

\* Only a cancelled p.Ctx makes it close the connections.
WatchDecide ==
    /\ watch = "woken"
    /\ watch' = (IF ctxDone THEN "closeServer" ELSE "done")
    /\ UNCHANGED <<ctxDone, connDone, startVars, pipe, ek, sig, once, conn,
                   envVars, dataVars, errs, mishap>>

WatchCloseServer ==
    /\ watch = "closeServer"
    /\ conn' = [conn EXCEPT !["server"] = "closed"]
    /\ watch' = "closeRemote"
    /\ UNCHANGED <<ctxDone, connDone, startVars, pipe, ek, sig, once,
                   envVars, dataVars, errs, mishap>>

WatchCloseRemote ==
    /\ watch = "closeRemote"
    /\ conn' = [conn EXCEPT !["remote"] = "closed"]
    /\ watch' = "done"
    /\ UNCHANGED <<ctxDone, connDone, startVars, pipe, ek, sig, once,
                   envVars, dataVars, errs, mishap>>

WatchStep ==
    \/ WatchSignal \/ WatchResend \/ WatchWake \/ WatchDecide
    \/ WatchCloseServer \/ WatchCloseRemote

----------------------------------------------------------------------------
(* Pipe *)

\* The context check at the head of the loop, then the read deadline.
PipeCheck(d) ==
    /\ pipe[d] = "check"
    /\ pipe' = [pipe EXCEPT ![d] = IF CtxErr THEN "done" ELSE "read"]
    /\ UNCHANGED <<ctxDone, connDone, startVars, ek, watch, sig, once, conn,
                   envVars, dataVars, errs, mishap>>

Available(d) == sent[d] - got[d]

\* Mutant: traffic is counted when it is read.
PipeRead_CountsEarly(d) ==
    /\ pipe[d] = "read"
    /\ conn[Src(d)] = "open"
    /\ \E n \in 1..Available(d) :
          /\ got' = [got EXCEPT ![d] = @ + n]
          /\ chunk' = [chunk EXCEPT ![d] = n]
          /\ cnt' = [cnt EXCEPT ![d] = @ + n]
    /\ written' = [written EXCEPT ![d] = 0]
    /\ pipe' = [pipe EXCEPT ![d] = "write"]
    /\ UNCHANGED <<ctxDone, connDone, startVars, ek, watch, sig, once, conn,
                   envVars, out, errs, mishap>>

\* Read returns n units and no error.
PipeRead(d) ==
    /\ pipe[d] = "read"
    /\ conn[Src(d)] = "open"
    /\ \E n \in 1..Available(d) :
          /\ got' = [got EXCEPT ![d] = @ + n]
          /\ chunk' = [chunk EXCEPT ![d] = n]
    /\ written' = [written EXCEPT ![d] = 0]
    /\ pipe' = [pipe EXCEPT ![d] = "write"]
    /\ UNCHANGED <<ctxDone, connDone, startVars, ek, watch, sig, once, conn,
                   envVars, out, cnt, errs, mishap>>

\* The errors a Read in direction d may return now. An expired deadline wins
\* over data that came late. A *tls.Conn that finds the peer's close_notify
\* behind the last record returns that record's bytes together with io.EOF;
\* the loop looks at the error first and drops them.
ReadErrors(d) ==
    {k \in ErrKinds :
        \/ k = "closed"  /\ conn[Src(d)] = "closed"
        \/ k = "other"   /\ fault[Src(d)]
        \/ k = "eof"     /\ fin[d] /\ (Available(d) = 0 \/ IsTLS(Src(d)))
        \/ k = "timeout" /\ ReadTimed}

PipeReadFail(d) ==
    /\ pipe[d] = "read"
    /\ \E k \in ReadErrors(d) : ek' = [ek EXCEPT ![d] = k]
    /\ pipe' = [pipe EXCEPT ![d] = "rerr"]
    /\ UNCHANGED <<ctxDone, connDone, startVars, watch, sig, once, conn,
                   envVars, dataVars, errs, mishap>>

\* Units base+1 .. base+k of a direction, as they follow each other on the wire.
Units(base, k) == [i \in 1..k |-> base + i]

\* Mutant: a short write is resumed with b, not with b[written:].
PipeWrite_FromStart(d) ==
    /\ pipe[d] = "write"
    /\ conn[Dst(d)] = "open"
    /\ \E k \in 1..(chunk[d] - written[d]) :
          /\ out' = [out EXCEPT ![d] = @ \o Units(got[d] - chunk[d], k)]
          /\ written' = [written EXCEPT ![d] = @ + k]
          /\ pipe' = [pipe EXCEPT ![d] =
                        IF written[d] + k = chunk[d] THEN "count" ELSE "write"]
    /\ UNCHANGED <<ctxDone, connDone, startVars, ek, watch, sig, once, conn,
                   envVars, got, chunk, cnt, errs, mishap>>

\* Mutant: no loop around Write, the rest of a short write is forgotten.
PipeWrite_NoLoop(d) ==
    /\ pipe[d] = "write"
    /\ conn[Dst(d)] = "open"
    /\ \E k \in 1..(chunk[d] - written[d]) :
          /\ out' = [out EXCEPT ![d] =
                        @ \o Units(got[d] - chunk[d] + written[d], k)]
          /\ written' = [written EXCEPT ![d] = @ + k]
    /\ pipe' = [pipe EXCEPT ![d] = "count"]
    /\ UNCHANGED <<ctxDone, connDone, startVars, ek, watch, sig, once, conn,
                   envVars, got, chunk, cnt, errs, mishap>>

\* The next k units of the buffer, b[written:], leave.
PipeWrite(d) ==
    /\ pipe[d] = "write"
    /\ conn[Dst(d)] = "open"
    /\ \E k \in 1..(chunk[d] - written[d]) :
          /\ out' = [out EXCEPT ![d] =
                        @ \o Units(got[d] - chunk[d] + written[d], k)]
          /\ written' = [written EXCEPT ![d] = @ + k]
          /\ pipe' = [pipe EXCEPT ![d] =
                        IF written[d] + k = chunk[d] THEN "count" ELSE "write"]
    /\ UNCHANGED <<ctxDone, connDone, startVars, ek, watch, sig, once, conn,
                   envVars, got, chunk, cnt, errs, mishap>>

\* Write returns 0 and no error: io.ErrNoProgress, through TCPProxy.err.
PipeNoProgress(d) ==
    /\ pipe[d] = "write"
    /\ conn[Dst(d)] = "open"
    /\ ek' = [ek EXCEPT ![d] = "other"]
    /\ errs' = errs + 1 /\ mishap' = TRUE
    /\ pipe' = [pipe EXCEPT ![d] = "signal"]
    /\ UNCHANGED <<ctxDone, connDone, startVars, watch, sig, once, conn,
                   envVars, dataVars>>

WriteErrors(d) ==
    {k \in ErrKinds :
        \/ k = "closed"  /\ conn[Dst(d)] = "closed"
        \/ k = "other"   /\ fault[Dst(d)]
        \/ k = "timeout" /\ WriteTimed}

PipeWriteFail(d) ==
    /\ pipe[d] = "write"
    /\ \E k \in WriteErrors(d) : ek' = [ek EXCEPT ![d] = k]
    /\ pipe' = [pipe EXCEPT ![d] = "werr"]
    /\ UNCHANGED <<ctxDone, connDone, startVars, watch, sig, once, conn,
                   envVars, dataVars, errs, mishap>>

\* Mutant: an end of stream ends the goroutine without a signal.
PipeError_QuietEof(d) ==
    /\ pipe[d] \in {"rerr", "werr"}
    /\ pipe' = [pipe EXCEPT ![d] = IF CtxErr \/ ek[d] = "eof" THEN "done" ELSE "signal"]
    /\ errs' = (IF CtxErr THEN errs ELSE PipeErrs(ek[d]))
    /\ UNCHANGED <<ctxDone, connDone, startVars, ek, watch, sig, once, conn,
                   envVars, dataVars, mishap>>

\* The error is classified only after looking at the context again.
PipeError(d) ==
    /\ pipe[d] \in {"rerr", "werr"}
    /\ pipe' = [pipe EXCEPT ![d] = IF CtxErr THEN "done" ELSE "signal"]
    /\ errs' = (IF CtxErr THEN errs ELSE PipeErrs(ek[d]))
    /\ UNCHANGED <<ctxDone, connDone, startVars, ek, watch, sig, once, conn,
                   envVars, dataVars, mishap>>

\* Counter.To / Counter.From, after the whole buffer was written.
PipeCount(d) ==
    /\ pipe[d] = "count"
    /\ cnt' = [cnt EXCEPT ![d] = @ + written[d]]
    /\ chunk' = [chunk EXCEPT ![d] = 0]
    /\ written' = [written EXCEPT ![d] = 0]
    /\ pipe' = [pipe EXCEPT ![d] = "check"]
    /\ UNCHANGED <<ctxDone, connDone, startVars, ek, watch, sig, once, conn,
                   envVars, got, out, errs, mishap>>

PipeSignal(d) ==
    /\ pipe[d] = "signal"
    /\ CloseOnceDo
    /\ pipe' = [pipe EXCEPT ![d] = "done"]
    /\ UNCHANGED <<ctxDone, connDone, startVars, ek, watch, conn,
                   envVars, dataVars, errs, mishap>>

\* A panic in Pipe is recovered and signalled.
PipePanic(d) ==
    /\ Panics
    /\ pipe[d] \in {"check", "read", "write", "count"}
    /\ pipe' = [pipe EXCEPT ![d] = "signal"]
    /\ UNCHANGED <<ctxDone, connDone, startVars, ek, watch, sig, once, conn,
                   envVars, dataVars, errs, mishap>>

PipeStep(d) ==
    \/ PipeCheck(d) \/ PipeRead(d) \/ PipeReadFail(d)
    \/ PipeWriteFail(d) \/ PipeError(d) \/ PipeCount(d) \/ PipeSignal(d)

----------------------------------------------------------------------------
(* The process context and the two peers *)

Cancel ==
    /\ ~ctxDone
    /\ ctxDone' = TRUE
    /\ UNCHANGED <<connDone, startVars, pipe, ek, watch, sig, once, conn,
                   envVars, dataVars, errs, mishap>>

PeerSend(d) ==
    /\ conn[Src(d)] = "open" /\ ~fin[d] /\ ~fault[Src(d)]
    /\ sent[d] < MaxUnits[d]
    /\ sent' = [sent EXCEPT ![d] = @ + 1]
    /\ UNCHANGED <<ctxDone, connDone, startVars, pipe, ek, watch, sig, once, conn,
                   fin, fault, dataVars, errs, mishap>>

PeerClose(d) ==
    /\ conn[Src(d)] = "open" /\ ~fin[d]
    /\ fin' = [fin EXCEPT ![d] = TRUE]
    /\ UNCHANGED <<ctxDone, connDone, startVars, pipe, ek, watch, sig, once, conn,
                   sent, fault, dataVars, errs, mishap>>

PeerReset(s) ==
    /\ conn[s] = "open" /\ ~fault[s]
    /\ fault' = [fault EXCEPT ![s] = TRUE]
    /\ mishap' = TRUE
    /\ UNCHANGED <<ctxDone, connDone, startVars, pipe, ek, watch, sig, once, conn,
                   sent, fin, dataVars, errs>>

----------------------------------------------------------------------------
\* Start has returned and no goroutine of the connection is left.
Quiesced ==
    /\ start = "returned"
    /\ \A d \in Dirs : pipe[d] \in {"off", "done"}
    /\ watch \in {"off", "done"}

\* The connection is over; keeps the model checker's deadlock test meaningful.
Finished == Quiesced /\ UNCHANGED vars

Next ==
    \/ StartStep \/ StartPanic
    \/ WatchStep
    \/ \E d \in Dirs : PipeStep(d) \/ PipeWrite(d) \/ PipeNoProgress(d)
                       \/ PipePanic(d)
    \/ Cancel
    \/ \E d \in Dirs : PeerSend(d) \/ PeerClose(d)
    \/ \E s \in Sides : PeerReset(s)
    \/ Finished

(***************************************************************************)
(* The scheduler runs every goroutine that can run. The handshake and the  *)
(* dial end because both carry a timeout, and the header fits the empty    *)
(* send buffer of a fresh socket. A Read returns when there is data, an    *)
(* error or an expired deadline. A Write may block for ever on a peer that *)
(* does not read: only its failure or its deadline is sure to end it.      *)
(***************************************************************************)
Fairness ==
    /\ WF_vars(StartStep)
    /\ WF_vars(WatchStep)
    /\ \A d \in Dirs : WF_vars(PipeStep(d))

Spec == Init /\ [][Next]_vars /\ Fairness

----------------------------------------------------------------------------
(* Properties *)

\* A close request is never lost: once some goroutine has signalled and while
\* Start still waits in its select, the token is in ErrorSignal or in the hands
\* of the watcher, which is about to put it back.
SignalNotLost ==
    once /\ start = "select" => sig = 1 \/ watch = "resend"

\* A connection that ends without a failed dial, header, reset or write counts
\* no error: an orderly close, an idle timeout and the local teardown that
\* makes the surviving Pipe see net.ErrClosed are all benign.
OnlyRealErrorsCounted == errs > 0 => mishap

\* Units of payload handed to the destination of d.
Delivered(d) == IF Len(out[d]) < Pre[d] THEN 0 ELSE Len(out[d]) - Pre[d]

\* The traffic counters never run ahead of what was written, and never miss
\* more than the buffer a Pipe is still working on or died with.
CountersHonest ==
    \A d \in Dirs : /\ cnt[d] <= Delivered(d)
                    /\ Delivered(d) - cnt[d] <= chunk[d]

\* What the two peers observe is a FIFO relay that stops for good when Start
\* returns, although Pipe goroutines may outlive it.
Relayed == INSTANCE Relay WITH Preamble <- Pre, over <- (start = "returned")
RelaySpec == Relayed!Spec

\* When Pipe meets the source's end of stream, everything the source sent has
\* been written to the destination: every buffer of the loop before it, whole,
\* however its Write was cut up.
EofMeansAllCopied ==
    \A d \in Dirs : ek[d] = "eof" => Delivered(d) = sent[d]

\* However a close request comes about, Start returns and every goroutine of
\* the connection ends, although one may be blocked in Read or Write.
SignalTerminates == once ~> Quiesced

\* Cancelling the process context ends the connection, in every phase of Start.
CancelTerminates == ctxDone ~> Quiesced

\* An orderly close by either peer ends the connection, unless a Pipe stays
\* blocked for good in a Write that has no deadline.
PeerCloseTerminates ==
    \A d \in Dirs : fin[d] ~> (Quiesced \/ \E e \in Dirs : [](pipe[e] = "write"))
=============================================================================
