----------------------------- MODULE Lifecycle -----------------------------
(***************************************************************************)
(* The life of the process: the stages of main from the start of the       *)
(* signal mux to its return, the mux (internal/signal/signal.go) with the  *)
(* callbacks main registers, and the second way a signal takes, through    *)
(* signal.NotifyContext to rootCtx.                                        *)
(*                                                                         *)
(* SIGINT and SIGTERM are registered for the same things everywhere and    *)
(* are both "term". The 30 second timeouts of Shutdown and of the drain    *)
(* make the callbacks and the drain end. What they do is in CertStore and  *)
(* TcpServer.                                                              *)
(***************************************************************************)
EXTENDS Naturals, FiniteSets

CONSTANT MaxSignals   \* bound: signals sent

ASSUME LifecycleAssumption == MaxSignals \in Nat

\* server.type, metrics.enable, and whether the listener has certificate files.
Config == [mode : {"tcp", "http"}, metrics : BOOLEAN, certs : BOOLEAN]

Signal == {"hup", "term"}
Callback == {"metrics", "reload", "report", "shutdown"}
SignalOf(f) == IF f = "reload" THEN "hup" ELSE "term"

\* The callbacks whose object exists under configuration c: the metrics server,
\* the certificate store, the counters of either mode, the HTTP server.
Callable(c) == {f \in Callback : /\ f = "metrics" => c.metrics
                                 /\ f = "reload" => c.certs
                                 /\ f = "shutdown" => c.mode = "http"}

Startup == {"config", "metrics", "tls", "context", "report", "shutdown"}

VARIABLES
    conf,      \* the configuration, which startup has read
    main,      \* the stage of main
    mux,       \* WatchForSignals: "off", "new" (before Notify), "ready", "running"
    signals,   \* its channel of capacity 1: "empty" or a signal
    do,        \* the callbacks registered
    running,   \* the callbacks started and not yet finished (the WaitGroup)
    ctx,       \* rootCtx: "none", "watching", "signalled", "done"
    shut,      \* srv.Shutdown has closed the listener
    asked,     \* history: a "term" was sent after NotifyContext
    sent       \* signals sent so far

vars == <<conf, main, mux, signals, do, running, ctx, shut, asked, sent>>

\* Types; in particular a signal never calls into an object that was not made
\* (the nil certificate store of a listener without certificates, main.go:151).
TypeOK ==
    /\ conf \in Config
    /\ main \in Startup \cup {"serve", "drain", "exit"}
    /\ mux \in {"off", "new", "ready", "running"}
    /\ signals \in Signal \cup {"empty"}
    /\ do \subseteq Callable(conf)
    /\ running \subseteq do
    /\ ctx \in {"none", "watching", "signalled", "done"}
    /\ shut \in BOOLEAN
    /\ asked \in BOOLEAN
    /\ sent \in 0..MaxSignals

Init ==
    /\ conf \in Config
    /\ main = "config" /\ mux = "off" /\ signals = "empty"
    /\ do = {} /\ running = {}
    /\ ctx = "none" /\ shut = FALSE
    /\ asked = FALSE /\ sent = 0

Alive == main # "exit"

----------------------------------------------------------------------------
(* The stages of main *)

\* go shm.WatchForSignals()
StartMux ==
    /\ main = "config"
    /\ main' = "metrics" /\ mux' = "new"
    /\ UNCHANGED <<conf, signals, do, running, ctx, shut, asked, sent>>

\* main goes from stage "at" to "next" and registers callback f if "on".
Stage(at, next, f, on) ==
    /\ main = at
    /\ main' = next
    /\ do' = IF on THEN do \cup {f} ELSE do
    /\ UNCHANGED <<conf, mux, signals, running, ctx, shut, asked, sent>>

StartMetrics == Stage("metrics", "tls", "metrics", conf.metrics)

\* Mutant: the test of certStore against nil is missing.
StartTLS_NilStore == Stage("tls", "context", "reload", TRUE)

StartTLS == Stage("tls", "context", "reload", conf.certs)

StartContext ==
    /\ main = "context"
    /\ main' = "report" /\ ctx' = "watching"
    /\ UNCHANGED <<conf, mux, signals, do, running, shut, asked, sent>>

StartReport == Stage("report", "shutdown", "report", TRUE)

\* Mutant: the callback that shuts the HTTP server down is not registered.
StartServe_NoCallback == Stage("shutdown", "serve", "shutdown", FALSE)

StartServe == Stage("shutdown", "serve", "shutdown", conf.mode = "http")

\* Any of the os.Exit(1) of startup.
StartupFails ==
    /\ main \in Startup
    /\ main' = "exit"
    /\ UNCHANGED <<conf, mux, signals, do, running, ctx, shut, asked, sent>>

\* TCP: the cancelled context closes the listener and ends the accept loop.
ServeEnds ==
    /\ main = "serve" /\ conf.mode = "tcp" /\ ctx = "done"
    /\ main' = "drain"
    /\ UNCHANGED <<conf, mux, signals, do, running, ctx, shut, asked, sent>>

\* TCP: the connections are drained, or the 30 seconds are over.
DrainEnds ==
    /\ main = "drain"
    /\ main' = "exit"
    /\ UNCHANGED <<conf, mux, signals, do, running, ctx, shut, asked, sent>>

\* HTTP: Serve returns ErrServerClosed as soon as Shutdown closes the listener,
\* and main returns.
ServeReturns ==
    /\ main = "serve" /\ conf.mode = "http" /\ shut
    /\ main' = "exit"
    /\ UNCHANGED <<conf, mux, signals, do, running, ctx, shut, asked, sent>>

\* HTTP: any other error of Serve is fatal.
ServeFails ==
    /\ main = "serve" /\ conf.mode = "http"
    /\ main' = "exit"
    /\ UNCHANGED <<conf, mux, signals, do, running, ctx, shut, asked, sent>>

----------------------------------------------------------------------------
(* Signals *)

\* Mutant: the context hears of a signal only when the mux's channel has room.
Hears_Shared(s) == s = "term" /\ ctx = "watching" /\ signals = "empty"

\* NotifyContext's channel takes its first signal, and keeps the later ones
\* from having their default effect.
Hears(s) == s = "term" /\ ctx = "watching"

Notified == mux \in {"ready", "running"}

\* The signal goes to every channel registered for it, is dropped by a full
\* one, and ends the process if there is none.
Send(s) ==
    /\ Alive /\ sent < MaxSignals
    /\ sent' = sent + 1
    /\ asked' = (asked \/ (s = "term" /\ ctx # "none"))
    /\ IF Notified \/ (s = "term" /\ ctx # "none")
       THEN /\ signals' = IF Notified /\ signals = "empty" THEN s ELSE signals
            /\ ctx' = IF Hears(s) THEN "signalled" ELSE ctx
            /\ UNCHANGED main
       ELSE /\ main' = "exit"
            /\ UNCHANGED <<signals, ctx>>
    /\ UNCHANGED <<conf, mux, do, running, shut>>

\* The goroutine of NotifyContext
CancelCtx ==
    /\ Alive /\ ctx = "signalled"
    /\ ctx' = "done"
    /\ UNCHANGED <<conf, main, mux, signals, do, running, shut, asked, sent>>

----------------------------------------------------------------------------
(* WatchForSignals *)

MuxNotify ==
    /\ Alive /\ mux = "new"
    /\ mux' = "ready"
    /\ UNCHANGED <<conf, main, signals, do, running, ctx, shut, asked, sent>>

\* Mutant: the next signal is taken without waiting for the callbacks.
MuxTake_NoWait ==
    /\ Alive /\ mux \in {"ready", "running"} /\ signals # "empty"
    /\ running' = running \cup {f \in do : SignalOf(f) = signals}
    /\ signals' = "empty" /\ mux' = "running"
    /\ UNCHANGED <<conf, main, do, ctx, shut, asked, sent>>

\* Every callback of the signal is started in a goroutine of its own.
MuxTake ==
    /\ Alive /\ mux = "ready" /\ signals # "empty"
    /\ running' = {f \in do : SignalOf(f) = signals}
    /\ signals' = "empty" /\ mux' = "running"
    /\ UNCHANGED <<conf, main, do, ctx, shut, asked, sent>>

\* srv.Shutdown closes the listener before it waits for the connections.
ShutdownBegins ==
    /\ Alive /\ "shutdown" \in running /\ ~shut
    /\ shut' = TRUE
    /\ UNCHANGED <<conf, main, mux, signals, do, running, ctx, asked, sent>>

CallbackDone(f) ==
    /\ Alive /\ f \in running
    /\ f = "shutdown" => shut
    /\ running' = running \ {f}
    /\ UNCHANGED <<conf, main, mux, signals, do, ctx, shut, asked, sent>>

\* wg.Wait()
MuxDone ==
    /\ Alive /\ mux = "running" /\ running = {}
    /\ mux' = "ready"
    /\ UNCHANGED <<conf, main, signals, do, running, ctx, shut, asked, sent>>

----------------------------------------------------------------------------
MainStep ==
    \/ StartMux \/ StartMetrics \/ StartTLS \/ StartContext \/ StartReport
    \/ StartServe \/ ServeEnds \/ DrainEnds \/ ServeReturns

MuxStep == MuxNotify \/ MuxTake \/ MuxDone

Exited == ~Alive /\ UNCHANGED vars

Next ==
    \/ StartMux \/ StartMetrics \/ StartTLS \/ StartContext \/ StartReport
    \/ StartServe \/ StartupFails
    \/ ServeEnds \/ DrainEnds \/ ServeReturns \/ ServeFails
    \/ \E s \in Signal : Send(s)
    \/ CancelCtx
    \/ MuxNotify \/ MuxTake \/ MuxDone \/ ShutdownBegins
    \/ \E f \in Callback : CallbackDone(f)
    \/ Exited

(***************************************************************************)
(* Goroutines that can run do run; every callback ends (the reload reads   *)
(* files, the others have a 30 second timeout or only log).                *)
(***************************************************************************)
Fairness ==
    /\ WF_vars(MainStep) /\ WF_vars(MuxStep) /\ WF_vars(CancelCtx)
    /\ WF_vars(ShutdownBegins)
    /\ \A f \in Callback : WF_vars(CallbackDone(f))

Spec == Init /\ [][Next]_vars /\ Fairness

----------------------------------------------------------------------------
(* Properties *)

\* The callbacks of two signals never run at the same time: a certificate
\* reload is over before shutdown begins, whatever arrives meanwhile.
OneSignalAtATime ==
    /\ \A f, g \in running : SignalOf(f) = SignalOf(g)
    /\ running # {} => mux = "running"

\* A SIGTERM sent to a TCP proxy after NotifyContext ends it, even before it
\* serves, whatever signals surround it and however busy the mux is
\* (NotifyContext has a channel of its own).
TermExits == (conf.mode = "tcp" /\ asked) ~> ~Alive

\* In HTTP mode only the mux ends the process: a SIGTERM that its channel has
\* accepted ends a serving process, behind a reload too.
MuxTermExits == (conf.mode = "http" /\ signals = "term" /\ main = "serve") ~> ~Alive
=============================================================================
