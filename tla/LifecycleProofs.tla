-------------------------- MODULE LifecycleProofs --------------------------
(***************************************************************************)
(* Proofs about Lifecycle for any number of signals: the mux runs only     *)
(* what main has registered, and the callbacks of one signal at a time.    *)
(***************************************************************************)
EXTENDS Lifecycle, TLAPS

\* The mux goroutine is started once, before anything runs.
MuxInv == main = "config" => mux = "off"

Inv == TypeOK /\ MuxInv /\ OneSignalAtATime

----------------------------------------------------------------------------
\* The process starts with nothing registered.
LEMMA InitInv == Init => Inv
<1> SUFFICES ASSUME Init PROVE Inv
    OBVIOUS
<1>1. sent \in 0..MaxSignals
    BY LifecycleAssumption DEF Init
<1>2. shut \in BOOLEAN /\ asked \in BOOLEAN
    BY Zenon DEF Init
<1>3. TypeOK
    BY <1>1, <1>2 DEF Init, TypeOK, Startup
<1>4. MuxInv
    BY DEF Init, MuxInv
<1>5. OneSignalAtATime
    BY DEF Init, OneSignalAtATime
<1> QED
    BY <1>3, <1>4, <1>5 DEF Inv

\* A stage of startup adds at most one callback, whose object it has made.
LEMMA StageStep ==
    ASSUME Inv, NEW at \in Startup \ {"config"}, NEW next \in (Startup \cup {"serve"}) \ {"config"},
           NEW f \in Callback, NEW on \in BOOLEAN, on => f \in Callable(conf),
           Stage(at, next, f, on)
    PROVE  Inv'
<1>1. do \subseteq Callable(conf) /\ running \subseteq do
    BY DEF Inv, TypeOK
<1>2. conf' = conf /\ running' = running /\ do' = IF on THEN do \cup {f} ELSE do
    BY DEF Stage
<1>3. do' \subseteq Callable(conf') /\ running' \subseteq do'
    BY <1>1, <1>2
<1>4. TypeOK'
    BY <1>3 DEF Stage, Inv, TypeOK
<1>5. MuxInv'
    BY DEF Stage, MuxInv
<1>6. OneSignalAtATime'
    BY DEF Stage, Inv, OneSignalAtATime
<1> QED
    BY <1>4, <1>5, <1>6 DEF Inv

\* Every step keeps the types: only registered callbacks run, and what is
\* registered has its object.
LEMMA Step == Inv /\ [Next]_vars => Inv'
<1> SUFFICES ASSUME Inv, [Next]_vars PROVE Inv'
    OBVIOUS
<1>0. TypeOK /\ MuxInv /\ OneSignalAtATime
    BY DEF Inv
<1>1. CASE StartMux
  <2>1. TypeOK' /\ MuxInv'
    BY <1>0, <1>1 DEF StartMux, TypeOK, MuxInv, Startup
  <2>2. OneSignalAtATime'
    BY <1>0, <1>1 DEF StartMux, MuxInv, OneSignalAtATime
  <2> QED
    BY <2>1, <2>2 DEF Inv
<1>2. CASE StartMetrics \/ StartTLS \/ StartReport \/ StartServe
  <2>1. conf.metrics \in BOOLEAN /\ conf.certs \in BOOLEAN /\ (conf.mode = "http") \in BOOLEAN
    BY <1>0 DEF TypeOK, Config
  <2>2. /\ conf.metrics => "metrics" \in Callable(conf)
        /\ conf.certs => "reload" \in Callable(conf)
        /\ "report" \in Callable(conf)
        /\ conf.mode = "http" => "shutdown" \in Callable(conf)
    BY DEF Callable, Callback
  <2> QED
    BY <1>2, <2>1, <2>2, StageStep DEF StartMetrics, StartTLS, StartReport, StartServe, Startup, Callback
<1>3. CASE StartContext
  <2>1. TypeOK' /\ MuxInv'
    BY <1>0, <1>3 DEF StartContext, TypeOK, MuxInv, Startup
  <2>2. OneSignalAtATime'
    BY <1>0, <1>3 DEF StartContext, OneSignalAtATime
  <2> QED
    BY <2>1, <2>2 DEF Inv
<1>4. CASE StartupFails \/ ServeEnds \/ DrainEnds \/ ServeReturns \/ ServeFails
  <2>1. main' \in {"drain", "exit"}
        /\ UNCHANGED <<conf, mux, signals, do, running, ctx, shut, asked, sent>>
    BY <1>4 DEF StartupFails, ServeEnds, DrainEnds, ServeReturns, ServeFails
  <2>2. TypeOK' /\ MuxInv'
    BY <1>0, <2>1 DEF TypeOK, MuxInv
  <2>3. OneSignalAtATime'
    BY <1>0, <2>1 DEF OneSignalAtATime
  <2> QED
    BY <2>2, <2>3 DEF Inv
<1>5. ASSUME NEW s \in Signal, Send(s) PROVE Inv'
  <2>1. /\ main' \in {main, "exit"} /\ signals' \in {signals, s}
        /\ ctx' \in {ctx, "signalled"} /\ UNCHANGED <<conf, mux, do, running, shut>>
    BY <1>5 DEF Send
  <2>2. sent' \in 0..MaxSignals
    BY <1>0, <1>5, LifecycleAssumption DEF Send, TypeOK
  <2>3. asked' \in BOOLEAN
    BY <1>5, Zenon DEF Send
  <2>4. TypeOK'
    BY <1>0, <2>1, <2>2, <2>3 DEF TypeOK
  <2>5. MuxInv' /\ OneSignalAtATime'
    BY <1>0, <2>1 DEF MuxInv, OneSignalAtATime
  <2> QED
    BY <2>4, <2>5 DEF Inv
<1>6. CASE CancelCtx \/ ShutdownBegins
  <2>1. /\ ctx' \in {ctx, "done"} /\ shut' \in BOOLEAN
        /\ UNCHANGED <<conf, main, mux, signals, do, running, asked, sent>>
    BY <1>0, <1>6 DEF CancelCtx, ShutdownBegins, TypeOK
  <2>2. TypeOK'
    BY <1>0, <2>1 DEF TypeOK
  <2>3. MuxInv' /\ OneSignalAtATime'
    BY <1>0, <2>1 DEF MuxInv, OneSignalAtATime
  <2> QED
    BY <2>2, <2>3 DEF Inv
<1>7. CASE MuxNotify \/ MuxDone
  <2>1. /\ mux' = "ready" /\ mux # "off" /\ running = {}
        /\ UNCHANGED <<conf, main, signals, do, running, ctx, shut, asked, sent>>
    BY <1>0, <1>7 DEF MuxNotify, MuxDone, OneSignalAtATime
  <2>2. TypeOK'
    BY <1>0, <2>1 DEF TypeOK
  <2>3. MuxInv' /\ OneSignalAtATime'
    BY <1>0, <2>1 DEF MuxInv, OneSignalAtATime
  <2> QED
    BY <2>2, <2>3 DEF Inv
<1>8. CASE MuxTake
  <2>1. /\ running' = {f \in do : SignalOf(f) = signals} /\ mux = "ready"
        /\ signals' = "empty" /\ mux' = "running"
        /\ UNCHANGED <<conf, main, do, ctx, shut, asked, sent>>
    BY <1>8 DEF MuxTake
  <2>2. running' \subseteq do
    BY <2>1
  <2>3. TypeOK'
    BY <1>0, <2>1, <2>2 DEF TypeOK
  <2>4. MuxInv'
    BY <1>0, <2>1 DEF MuxInv
  <2>5. OneSignalAtATime'
    BY <2>1 DEF OneSignalAtATime
  <2> QED
    BY <2>3, <2>4, <2>5 DEF Inv
<1>9. ASSUME NEW f \in Callback, CallbackDone(f) PROVE Inv'
  <2>1. /\ running' = running \ {f}
        /\ UNCHANGED <<conf, main, mux, signals, do, ctx, shut, asked, sent>>
    BY <1>9 DEF CallbackDone
  <2>2. TypeOK'
    BY <1>0, <2>1 DEF TypeOK
  <2>3. MuxInv' /\ OneSignalAtATime'
    BY <1>0, <2>1 DEF MuxInv, OneSignalAtATime
  <2> QED
    BY <2>2, <2>3 DEF Inv
<1>10. CASE UNCHANGED vars
  <2>1. UNCHANGED <<conf, main, mux, signals, do, running, ctx, shut, asked, sent>>
    BY <1>10 DEF vars
  <2>2. TypeOK'
    BY <1>0, <2>1 DEF TypeOK
  <2>3. MuxInv' /\ OneSignalAtATime'
    BY <1>0, <2>1 DEF MuxInv, OneSignalAtATime
  <2> QED
    BY <2>2, <2>3 DEF Inv
<1> QED
    BY <1>1, <1>2, <1>3, <1>4, <1>5, <1>6, <1>7, <1>8, <1>9, <1>10 DEF Next, Exited

----------------------------------------------------------------------------
\* Inv is an invariant of the process.
THEOREM Invariance == Spec => []Inv
BY InitInv, Step, PTL DEF Spec

\* Type correctness; in particular no callback runs that main has not
\* registered, however early a signal comes, and none whose object the
\* configuration does not make.
THEOREM TypeCorrect == Spec => []TypeOK
<1>1. Inv => TypeOK
    BY DEF Inv
<1> QED
    BY <1>1, Invariance, PTL

\* The callbacks of two signals never overlap, however many signals are sent.
THEOREM CallbacksExclusive == Spec => []OneSignalAtATime
<1>1. Inv => OneSignalAtATime
    BY DEF Inv
<1> QED
    BY <1>1, Invariance, PTL
=============================================================================
