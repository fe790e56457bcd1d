--------------------------- MODULE TcpConnProofs ---------------------------
(***************************************************************************)
(* Proofs about TcpConn, for any number of units, with and without TLS,    *)
(* PROXY header, timeouts and panics. The safety properties rest on one    *)
(* inductive invariant, Inv, the conjunction of what Start has done at     *)
(* each of its steps (ControlInv), where the ErrorSignal token is          *)
(* (TokenInv), how the buffer, the counters and the wire relate (DataInv)  *)
(* and which errors a Pipe can hold (ErrorInv).                            *)
(***************************************************************************)
EXTENDS TcpConn, TLAPS

\* Start before its goroutines exist: setting up, or leaving early.
Early == {"handshake", "dial", "header", "spawn", "signal"}

ControlInv ==
    /\ start \in Early => watch = "off" /\ \A d \in Dirs : pipe[d] = "off"
    /\ start \in {"handshake", "dial"} => conn["remote"] = "none"
    /\ start \in {"cancel", "closeServer", "recover", "returned"}
          => conn["remote"] # "open"
    /\ start = "header" => ProxyProto
    /\ start \in {"recover", "returned"} => conn["server"] # "open"

TokenInv ==
    /\ watch = "resend" => sig = 0
    /\ ~once => sig = 0 /\ watch # "resend"
    /\ start \in Early => ~once
    /\ SignalNotLost

\* Units of direction d that are on the wire behind the header.
OnWire(d) == (got[d] - chunk[d]) + written[d]

DirInv(d) ==
    /\ got[d] <= sent[d] /\ chunk[d] <= got[d] /\ written[d] <= chunk[d]
    /\ cnt[d] = got[d] - chunk[d]
    /\ pipe[d] \in {"off", "check", "read", "rerr"}
          => chunk[d] = 0 /\ written[d] = 0
    /\ pipe[d] = "count" => written[d] = chunk[d]
    /\ pipe[d] = "off" => got[d] = 0
    /\ start \in {"handshake", "dial", "header"} => Len(out[d]) = 0
    /\ start = "spawn" \/ pipe[d] # "off" => Len(out[d]) = Pre[d] + OnWire(d)
    /\ Len(out[d]) \in {0, Pre[d] + OnWire(d)}

DataInv == \A d \in Dirs : DirInv(d)

ErrorInv ==
    /\ \A s \in Sides : fault[s] => mishap
    /\ \A d \in Dirs :
          /\ ek[d] = "other" => mishap
          /\ ek[d] # "none" => pipe[d] \in {"rerr", "werr", "signal", "done"}
          /\ pipe[d] \in {"rerr", "werr"} => ek[d] # "none"
          /\ ek[d] = "eof" => fin[d] /\ chunk[d] = 0
          /\ ek[d] = "eof" /\ ~IsTLS(Src(d)) => got[d] = sent[d]
    /\ OnlyRealErrorsCounted

Inv == TypeOK /\ ControlInv /\ TokenInv /\ DataInv /\ ErrorInv

----------------------------------------------------------------------------
\* The k units after base, as a sequence.
LEMMA UnitsSeq ==
    ASSUME NEW base \in Nat, NEW k \in Nat
    PROVE  Units(base, k) \in Seq(Nat) /\ Len(Units(base, k)) = k
BY DEF Units

\* Whoever calls CloseOnce.Do leaves at most one token behind.
LEMMA CloseOnceType ==
    ASSUME TypeOK, CloseOnceDo
    PROVE  once' \in BOOLEAN /\ sig' \in 0..1
<1>1. (once' = once /\ sig' = sig) \/ (once' = TRUE /\ sig' = 1)
    BY DEF CloseOnceDo
<1>2. once \in BOOLEAN /\ sig \in 0..1
    BY DEF TypeOK
<1>3. once' \in BOOLEAN
    BY <1>1, <1>2, Zenon
<1>4. sig' \in 0..1
    BY <1>1, <1>2
<1> QED
    BY <1>3, <1>4

\* The initial states satisfy the invariant.
LEMMA InitInv == Init => Inv
<1> SUFFICES ASSUME Init PROVE Inv
    OBVIOUS
<1>1. TypeOK
  <2>1. /\ start \in StartPc /\ watch \in WatchPc /\ sig \in 0..1 /\ errs \in Nat
        /\ pipe \in [Dirs -> PipePc] /\ ek \in [Dirs -> ErrKinds]
        /\ conn \in [Sides -> {"none", "open", "closed"}]
    BY DEF Init, StartPc, WatchPc, PipePc, ErrKinds
  <2>2. /\ sent \in [Dirs -> Nat] /\ got \in [Dirs -> Nat] /\ chunk \in [Dirs -> Nat]
        /\ written \in [Dirs -> Nat] /\ cnt \in [Dirs -> Nat]
        /\ out \in [Dirs -> Seq(Nat)]
    BY DEF Init
  <2> QED
    BY <2>1, <2>2, Zenon DEF Init, TypeOK
<1>2. ControlInv
    BY DEF Init, ControlInv, Early, Sides
<1>3. TokenInv
    BY DEF Init, TokenInv, SignalNotLost, Early
<1>4. DataInv
    BY DEF Init, DataInv, DirInv, OnWire, Pre, Dirs
<1>5. ErrorInv
    BY DEF Init, ErrorInv, OnlyRealErrorsCounted
<1> QED
    BY <1>1, <1>2, <1>3, <1>4, <1>5 DEF Inv

\* Every step keeps the types; writing needs to know the buffer was read.
LEMMA TypeStep == TypeOK /\ DataInv /\ [Next]_vars => TypeOK'
<1> SUFFICES ASSUME TypeOK, DataInv, [Next]_vars PROVE TypeOK'
    OBVIOUS
<1> USE DEF TypeOK, envVars, dataVars, startVars
<1>1. CASE HandshakeOK
    BY <1>1 DEF HandshakeOK, StartPc
<1>2. CASE HandshakeFail
    BY <1>2 DEF HandshakeFail, StartPc
<1>3. CASE DialOK
    BY <1>3 DEF DialOK, StartPc, Sides
<1>4. CASE DialFail
    BY <1>4 DEF DialFail, StartPc
<1>5. CASE HeaderOK
    BY <1>5 DEF HeaderOK, StartPc, Dirs
<1>6. CASE HeaderFail
    BY <1>6 DEF HeaderFail, StartPc
<1>7. CASE Spawn
    BY <1>7 DEF Spawn, StartPc, PipePc, WatchPc
<1>8. CASE SelectSignal
    BY <1>8 DEF SelectSignal, StartPc
<1>9. CASE SelectCtx
    BY <1>9 DEF SelectCtx, StartPc
<1>10. CASE StartSignal
    BY <1>10, CloseOnceType DEF StartSignal, StartPc, FirstDefer
<1>11. CASE StartPanic
    BY <1>11 DEF StartPanic, StartPc, FirstDefer
<1>12. CASE DeferCloseRemote
    BY <1>12 DEF DeferCloseRemote, StartPc
<1>13. CASE DeferCancel
    BY <1>13 DEF DeferCancel, StartPc
<1>14. CASE DeferCloseServer
    BY <1>14 DEF DeferCloseServer, StartPc
<1>15. CASE DeferRecover
    BY <1>15, CloseOnceType DEF DeferRecover, StartPc
<1>16. CASE WatchSignal
    BY <1>16 DEF WatchSignal, WatchPc
<1>17. CASE WatchResend
    BY <1>17 DEF WatchResend, WatchPc
<1>18. CASE WatchWake
    BY <1>18 DEF WatchWake, WatchPc
<1>19. CASE WatchDecide
    BY <1>19 DEF WatchDecide, WatchPc
<1>20. CASE WatchCloseServer
    BY <1>20 DEF WatchCloseServer, WatchPc
<1>21. CASE WatchCloseRemote
    BY <1>21 DEF WatchCloseRemote, WatchPc
<1>22. ASSUME NEW d \in Dirs, PipeCheck(d) PROVE TypeOK'
    BY <1>22 DEF PipeCheck, PipePc
<1>23. ASSUME NEW d \in Dirs, PipeRead(d) PROVE TypeOK'
    BY <1>23 DEF PipeRead, PipePc, Available
<1>24. ASSUME NEW d \in Dirs, PipeReadFail(d) PROVE TypeOK'
    BY <1>24 DEF PipeReadFail, PipePc, ReadErrors
<1>25. ASSUME NEW d \in Dirs, PipeWriteFail(d) PROVE TypeOK'
    BY <1>25 DEF PipeWriteFail, PipePc, WriteErrors
<1>26. ASSUME NEW d \in Dirs, PipeError(d) PROVE TypeOK'
    BY <1>26 DEF PipeError, PipePc, PipeErrs
<1>27. ASSUME NEW d \in Dirs, PipeCount(d) PROVE TypeOK'
    BY <1>27 DEF PipeCount, PipePc
<1>28. ASSUME NEW d \in Dirs, PipeSignal(d) PROVE TypeOK'
    BY <1>28, CloseOnceType DEF PipeSignal, PipePc
<1>29. ASSUME NEW d \in Dirs, PipeNoProgress(d) PROVE TypeOK'
    BY <1>29 DEF PipeNoProgress, PipePc, ErrKinds
<1>30. ASSUME NEW d \in Dirs, PipePanic(d) PROVE TypeOK'
    BY <1>30 DEF PipePanic, PipePc
<1>31. ASSUME NEW d \in Dirs, PeerSend(d) PROVE TypeOK'
    BY <1>31 DEF PeerSend
<1>32. ASSUME NEW d \in Dirs, PeerClose(d) PROVE TypeOK'
    BY <1>32 DEF PeerClose
<1>33. ASSUME NEW d \in Dirs, PipeWrite(d) PROVE TypeOK'
  <2>1. PICK k \in 1..(chunk[d] - written[d]) :
           /\ out' = [out EXCEPT ![d] =
                         @ \o Units(got[d] - chunk[d] + written[d], k)]
           /\ written' = [written EXCEPT ![d] = @ + k]
           /\ pipe' = [pipe EXCEPT ![d] =
                         IF written[d] + k = chunk[d] THEN "count" ELSE "write"]
    BY <1>33 DEF PipeWrite
  <2>2. Units(got[d] - chunk[d] + written[d], k) \in Seq(Nat)
    BY UnitsSeq DEF DataInv, DirInv
  <2>3. out' \in [Dirs -> Seq(Nat)]
    BY <2>1, <2>2
  <2>4. written' \in [Dirs -> Nat] /\ pipe' \in [Dirs -> PipePc]
    BY <2>1 DEF PipePc
  <2> QED
    BY <1>33, <2>3, <2>4 DEF PipeWrite
<1>34. CASE Cancel
    BY <1>34 DEF Cancel
<1>35. ASSUME NEW s \in Sides, PeerReset(s) PROVE TypeOK'
    BY <1>35 DEF PeerReset
<1>36. CASE UNCHANGED vars
    BY <1>36 DEF vars
<1> QED
    BY <1>1, <1>2, <1>3, <1>4, <1>5, <1>6, <1>7, <1>8, <1>9, <1>10, <1>11,
       <1>12, <1>13, <1>14, <1>15, <1>16, <1>17, <1>18, <1>19, <1>20, <1>21,
       <1>22, <1>23, <1>24, <1>25, <1>26, <1>27, <1>28, <1>29, <1>30, <1>31,
       <1>32, <1>33, <1>34, <1>35, <1>36     DEF Next, StartStep, WatchStep,
       PipeStep, Finished

\* Start's own steps advance one deferred call at a time, and the watcher can only
\* close what Start has opened.
LEMMA ControlStep == TypeOK /\ ControlInv /\ [Next]_vars => ControlInv'
<1> SUFFICES ASSUME TypeOK, ControlInv, [Next]_vars PROVE ControlInv'
    OBVIOUS
<1> USE DEF TypeOK, ControlInv, Early, Dirs, Sides, envVars, dataVars, startVars
<1>1. CASE HandshakeOK
    BY <1>1 DEF HandshakeOK
<1>2. CASE HandshakeFail
    BY <1>2 DEF HandshakeFail
<1>3. CASE DialOK
    BY <1>3 DEF DialOK
<1>4. CASE DialFail
    BY <1>4 DEF DialFail
<1>5. CASE HeaderOK
    BY <1>5 DEF HeaderOK
<1>6. CASE HeaderFail
    BY <1>6 DEF HeaderFail
<1>7. CASE Spawn
    BY <1>7 DEF Spawn
<1>8. CASE SelectSignal
    BY <1>8 DEF SelectSignal
<1>9. CASE SelectCtx
    BY <1>9 DEF SelectCtx
<1>10. CASE StartSignal
    BY <1>10 DEF StartSignal, FirstDefer
<1>11. CASE StartPanic
    BY <1>11 DEF StartPanic, FirstDefer
<1>12. CASE DeferCloseRemote
    BY <1>12 DEF DeferCloseRemote
<1>13. CASE DeferCancel
    BY <1>13 DEF DeferCancel
<1>14. CASE DeferCloseServer
    BY <1>14 DEF DeferCloseServer
<1>15. CASE DeferRecover
    BY <1>15 DEF DeferRecover
<1>16. CASE WatchSignal \/ WatchResend \/ WatchWake \/ WatchDecide \/
            WatchCloseServer \/ WatchCloseRemote
    BY <1>16 DEF WatchSignal, WatchResend, WatchWake, WatchDecide,
       WatchCloseServer, WatchCloseRemote
<1>17. ASSUME NEW d \in Dirs, PipeCheck(d) \/ PipeRead(d) \/ PipeReadFail(d) \/
              PipeWrite(d) \/ PipeNoProgress(d) \/ PipeWriteFail(d) \/
              PipeError(d) \/ PipeCount(d) \/ PipeSignal(d) \/ PipePanic(d)
      PROVE  ControlInv'
    BY <1>17 DEF PipeCheck, PipeRead, PipeReadFail, PipeWrite, PipeNoProgress,
       PipeWriteFail, PipeError, PipeCount, PipeSignal, PipePanic
<1>18. ASSUME NEW d \in Dirs, PeerSend(d) \/ PeerClose(d) PROVE ControlInv'
    BY <1>18 DEF PeerSend, PeerClose
<1>19. CASE Cancel
    BY <1>19 DEF Cancel
<1>20. ASSUME NEW s \in Sides, PeerReset(s) PROVE ControlInv'
    BY <1>20 DEF PeerReset
<1>21. CASE UNCHANGED vars
    BY <1>21 DEF vars
<1> QED
    BY <1>1, <1>2, <1>3, <1>4, <1>5, <1>6, <1>7, <1>8, <1>9, <1>10, <1>11,
       <1>12, <1>13, <1>14, <1>15, <1>16, <1>17, <1>18, <1>19, <1>20, <1>21
       DEF Next, StartStep, WatchStep, PipeStep, Finished

\* The ErrorSignal token is made once, and moves between the channel and the
\* watcher until Start takes it.
LEMMA TokenStep == TypeOK /\ ControlInv /\ TokenInv /\ [Next]_vars => TokenInv'
<1> SUFFICES ASSUME TypeOK, ControlInv, TokenInv, [Next]_vars PROVE TokenInv'
    OBVIOUS
<1> USE DEF TypeOK, ControlInv, TokenInv, SignalNotLost, Early, envVars,
            dataVars, startVars
<1>1. CASE HandshakeOK
    BY <1>1 DEF HandshakeOK
<1>2. CASE HandshakeFail
    BY <1>2 DEF HandshakeFail
<1>3. CASE DialOK
    BY <1>3 DEF DialOK
<1>4. CASE DialFail
    BY <1>4 DEF DialFail
<1>5. CASE HeaderOK
    BY <1>5 DEF HeaderOK
<1>6. CASE HeaderFail
    BY <1>6 DEF HeaderFail
<1>7. CASE Spawn
    BY <1>7 DEF Spawn
<1>8. CASE SelectSignal
    BY <1>8 DEF SelectSignal
<1>9. CASE SelectCtx
    BY <1>9 DEF SelectCtx
<1>10. CASE StartSignal
    BY <1>10 DEF StartSignal, FirstDefer, CloseOnceDo
<1>11. CASE StartPanic
    BY <1>11 DEF StartPanic, FirstDefer
<1>12. CASE DeferCloseRemote
    BY <1>12 DEF DeferCloseRemote
<1>13. CASE DeferCancel
    BY <1>13 DEF DeferCancel
<1>14. CASE DeferCloseServer
    BY <1>14 DEF DeferCloseServer
<1>15. CASE DeferRecover
    BY <1>15 DEF DeferRecover, CloseOnceDo
<1>16. CASE WatchSignal
    BY <1>16 DEF WatchSignal
<1>17. CASE WatchResend
    BY <1>17 DEF WatchResend
<1>18. CASE WatchWake
    BY <1>18 DEF WatchWake
<1>19. CASE WatchDecide
    BY <1>19 DEF WatchDecide
<1>20. CASE WatchCloseServer
    BY <1>20 DEF WatchCloseServer
<1>21. CASE WatchCloseRemote
    BY <1>21 DEF WatchCloseRemote
<1>22. ASSUME NEW d \in Dirs, PipeCheck(d) \/ PipeRead(d) \/ PipeReadFail(d) \/
              PipeWrite(d) \/ PipeNoProgress(d) \/ PipeWriteFail(d) \/
              PipeError(d) \/ PipeCount(d) \/ PipePanic(d)
      PROVE  TokenInv'
    BY <1>22 DEF PipeCheck, PipeRead, PipeReadFail, PipeWrite, PipeNoProgress,
       PipeWriteFail, PipeError, PipeCount, PipePanic
<1>23. ASSUME NEW d \in Dirs, PipeSignal(d) PROVE TokenInv'
    BY <1>23 DEF PipeSignal, CloseOnceDo
<1>24. ASSUME NEW d \in Dirs, PeerSend(d) \/ PeerClose(d) PROVE TokenInv'
    BY <1>24 DEF PeerSend, PeerClose
<1>25. CASE Cancel
    BY <1>25 DEF Cancel
<1>26. ASSUME NEW s \in Sides, PeerReset(s) PROVE TokenInv'
    BY <1>26 DEF PeerReset
<1>27. CASE UNCHANGED vars
    BY <1>27 DEF vars
<1> QED
    BY <1>1, <1>2, <1>3, <1>4, <1>5, <1>6, <1>7, <1>8, <1>9, <1>10, <1>11,
       <1>12, <1>13, <1>14, <1>15, <1>16, <1>17, <1>18, <1>19, <1>20, <1>21,
       <1>22, <1>23, <1>24, <1>25, <1>26, <1>27 DEF Next, StartStep,
       WatchStep, PipeStep, Finished

\* Units in front of the payload: none or one.
LEMMA PreType == \A d \in Dirs : Pre[d] \in 0..1
BY DEF Pre, Dirs

\* Appending adds the lengths.
LEMMA LenConcat ==
    ASSUME NEW s \in Seq(Nat), NEW u \in Seq(Nat)
    PROVE  Len(s \o u) = Len(s) + Len(u)
OBVIOUS

\* Writing moves units from the buffer to the wire.
LEMMA WriteDir ==
    ASSUME TypeOK, ControlInv, DataInv, NEW d \in Dirs, PipeWrite(d)
    PROVE  DirInv(d)'
<1>1. /\ got[d] \in Nat /\ chunk[d] \in Nat /\ written[d] \in Nat /\ sent[d] \in Nat
      /\ out[d] \in Seq(Nat) /\ out \in [Dirs -> Seq(Nat)]
    BY DEF TypeOK
<1>2. DirInv(d) /\ pipe[d] = "write" /\ start \notin Early
    BY DEF DataInv, PipeWrite, ControlInv
<1>3. Pre[d] \in Nat
    BY PreType
<1>4. PICK k \in 1..(chunk[d] - written[d]) :
         /\ out' = [out EXCEPT ![d] = @ \o Units(got[d] - chunk[d] + written[d], k)]
         /\ written' = [written EXCEPT ![d] = @ + k]
         /\ pipe' = [pipe EXCEPT ![d] =
                       IF written[d] + k = chunk[d] THEN "count" ELSE "write"]
    BY DEF PipeWrite
<1>5. /\ written'[d] = written[d] + k /\ got' = got /\ chunk' = chunk
      /\ sent' = sent /\ cnt' = cnt /\ start' = start
      /\ pipe'[d] \in {"count", "write"}
      /\ pipe'[d] = "count" => written'[d] = chunk[d]
    BY <1>4 DEF PipeWrite, TypeOK, envVars, startVars
<1>6. k \in Nat /\ written[d] + k <= chunk[d] /\ chunk[d] <= got[d]
    BY <1>1, <1>2, <1>4 DEF DirInv
<1>7. got[d] - chunk[d] + written[d] \in Nat
    BY <1>1, <1>6
<1>8. PICK u \in Seq(Nat) : out' = [out EXCEPT ![d] = @ \o u] /\ Len(u) = k
    BY <1>4, <1>6, <1>7, UnitsSeq
<1>9. out'[d] = out[d] \o u
    BY <1>1, <1>8
<1>10. Len(out'[d]) = Len(out[d]) + k
    BY <1>1, <1>8, <1>9, LenConcat
<1>11. Len(out[d]) = Pre[d] + ((got[d] - chunk[d]) + written[d])
    BY <1>2 DEF DirInv, OnWire
<1>12. Len(out'[d]) = Pre[d] + ((got[d] - chunk[d]) + (written[d] + k))
    BY <1>1, <1>3, <1>6, <1>10, <1>11
<1> QED
    BY <1>1, <1>2, <1>3, <1>5, <1>6, <1>12 DEF DirInv, OnWire, Early

\* What was read is in the buffer or on the wire, and what is counted is on the
\* wire, at every step of Pipe.
LEMMA DataStep == TypeOK /\ ControlInv /\ DataInv /\ [Next]_vars => DataInv'
<1> SUFFICES ASSUME TypeOK, ControlInv, DataInv, [Next]_vars PROVE DataInv'
    OBVIOUS
<1> USE DEF TypeOK, ControlInv, DataInv, DirInv, OnWire, Early, envVars,
            dataVars, startVars
<1>1. CASE HandshakeOK
    BY <1>1, PreType DEF HandshakeOK
<1>2. CASE HandshakeFail
    BY <1>2, PreType DEF HandshakeFail
<1>3. CASE DialOK
    BY <1>3, PreType DEF DialOK, Pre
<1>4. CASE DialFail
    BY <1>4, PreType DEF DialFail
<1>5. CASE HeaderOK
    BY <1>5, PreType DEF HeaderOK, Pre
<1>6. CASE HeaderFail
    BY <1>6, PreType DEF HeaderFail
<1>7. CASE Spawn
    BY <1>7, PreType DEF Spawn
<1>8. CASE SelectSignal
    BY <1>8, PreType DEF SelectSignal
<1>9. CASE SelectCtx
    BY <1>9, PreType DEF SelectCtx
<1>10. CASE StartSignal
    BY <1>10, PreType DEF StartSignal, FirstDefer
<1>11. CASE StartPanic
    BY <1>11, PreType DEF StartPanic, FirstDefer
<1>12. CASE DeferCloseRemote
    BY <1>12, PreType DEF DeferCloseRemote
<1>13. CASE DeferCancel
    BY <1>13, PreType DEF DeferCancel
<1>14. CASE DeferCloseServer
    BY <1>14, PreType DEF DeferCloseServer
<1>15. CASE DeferRecover
    BY <1>15, PreType DEF DeferRecover
<1>16. CASE WatchSignal \/ WatchResend \/ WatchWake \/ WatchDecide \/
            WatchCloseServer \/ WatchCloseRemote
    BY <1>16 DEF WatchSignal, WatchResend, WatchWake, WatchDecide,
       WatchCloseServer, WatchCloseRemote
<1>17. ASSUME NEW d \in Dirs, PipeCheck(d) PROVE DataInv'
    BY <1>17 DEF PipeCheck
<1>18. ASSUME NEW d \in Dirs, PipeRead(d) PROVE DataInv'
  <2>1. PICK n \in 1..(sent[d] - got[d]) :
           /\ got' = [got EXCEPT ![d] = @ + n]
           /\ chunk' = [chunk EXCEPT ![d] = n]
    BY <1>18 DEF PipeRead, Available
  <2>2. /\ got'[d] = got[d] + n /\ chunk'[d] = n /\ written'[d] = 0
        /\ sent' = sent /\ cnt' = cnt /\ out' = out /\ start' = start
        /\ pipe[d] = "read" /\ pipe'[d] = "write"
    BY <1>18, <2>1 DEF PipeRead
  <2>3. n \in Nat /\ got[d] + n <= sent[d]
    BY <2>1
  <2>4. DirInv(d)'
    BY <2>2, <2>3, PreType
  <2>5. ASSUME NEW e \in Dirs, e # d PROVE DirInv(e)'
    BY <1>18, <2>5 DEF PipeRead
  <2> QED
    BY <2>4, <2>5
<1>19. ASSUME NEW d \in Dirs, PipeReadFail(d) PROVE DataInv'
    BY <1>19 DEF PipeReadFail
<1>20. ASSUME NEW d \in Dirs, PipeWrite(d) PROVE DataInv'
  <2>1. DirInv(d)'
    BY <1>20, WriteDir
  <2>2. ASSUME NEW e \in Dirs, e # d PROVE DirInv(e)'
    BY <1>20, <2>2 DEF PipeWrite
  <2> QED
    BY <2>1, <2>2
<1>21. ASSUME NEW d \in Dirs, PipeNoProgress(d) PROVE DataInv'
    BY <1>21 DEF PipeNoProgress
<1>22. ASSUME NEW d \in Dirs, PipeWriteFail(d) PROVE DataInv'
    BY <1>22 DEF PipeWriteFail
<1>23. ASSUME NEW d \in Dirs, PipeError(d) PROVE DataInv'
    BY <1>23 DEF PipeError
<1>24. ASSUME NEW d \in Dirs, PipeCount(d) PROVE DataInv'
  <2>1. DirInv(d)'
    BY <1>24, PreType DEF PipeCount
  <2>2. ASSUME NEW e \in Dirs, e # d PROVE DirInv(e)'
    BY <1>24, <2>2 DEF PipeCount
  <2> QED
    BY <2>1, <2>2
<1>25. ASSUME NEW d \in Dirs, PipeSignal(d) PROVE DataInv'
    BY <1>25 DEF PipeSignal
<1>26. ASSUME NEW d \in Dirs, PipePanic(d) PROVE DataInv'
    BY <1>26 DEF PipePanic
<1>27. ASSUME NEW d \in Dirs, PeerSend(d) PROVE DataInv'
    BY <1>27 DEF PeerSend
<1>28. ASSUME NEW d \in Dirs, PeerClose(d) PROVE DataInv'
    BY <1>28 DEF PeerClose
<1>29. CASE Cancel
    BY <1>29 DEF Cancel
<1>30. ASSUME NEW s \in Sides, PeerReset(s) PROVE DataInv'
    BY <1>30 DEF PeerReset
<1>31. CASE UNCHANGED vars
    BY <1>31 DEF vars
<1> QED
    BY <1>1, <1>2, <1>3, <1>4, <1>5, <1>6, <1>7, <1>8, <1>9, <1>10, <1>11,
       <1>12, <1>13, <1>14, <1>15, <1>16, <1>17, <1>18, <1>19, <1>20, <1>21,
       <1>22, <1>23, <1>24, <1>25, <1>26, <1>27, <1>28, <1>29, <1>30, <1>31
       DEF Next, StartStep, WatchStep, PipeStep, Finished

\* An error kind is justified by the side it came from.
LEMMA SidesOf == \A d \in Dirs : Src(d) \in Sides /\ Dst(d) \in Sides
BY DEF Src, Dst, Sides

\* A kind of error is justified by what happened to the connection, and only kinds
\* that are real failures are counted.
LEMMA ErrorStep ==
    TypeOK /\ ControlInv /\ DataInv /\ ErrorInv /\ [Next]_vars => ErrorInv'
<1> SUFFICES ASSUME TypeOK, ControlInv, DataInv, ErrorInv, [Next]_vars PROVE ErrorInv'
    OBVIOUS
<1> USE DEF TypeOK, DataInv, DirInv, ErrorInv, OnlyRealErrorsCounted, envVars,
            dataVars, startVars
<1>1. CASE HandshakeOK
    BY <1>1 DEF HandshakeOK
<1>2. CASE HandshakeFail
    BY <1>2 DEF HandshakeFail
<1>3. CASE DialOK
    BY <1>3 DEF DialOK
<1>4. CASE DialFail
    BY <1>4 DEF DialFail
<1>5. CASE HeaderOK
    BY <1>5 DEF HeaderOK
<1>6. CASE HeaderFail
    BY <1>6 DEF HeaderFail
<1>7. CASE Spawn
    BY <1>7 DEF Spawn, ControlInv, Early
<1>8. CASE SelectSignal
    BY <1>8 DEF SelectSignal
<1>9. CASE SelectCtx
    BY <1>9 DEF SelectCtx
<1>10. CASE StartSignal
    BY <1>10 DEF StartSignal
<1>11. CASE StartPanic
    BY <1>11 DEF StartPanic
<1>12. CASE DeferCloseRemote
    BY <1>12 DEF DeferCloseRemote
<1>13. CASE DeferCancel
    BY <1>13 DEF DeferCancel
<1>14. CASE DeferCloseServer
    BY <1>14 DEF DeferCloseServer
<1>15. CASE DeferRecover
    BY <1>15 DEF DeferRecover
<1>16. CASE WatchSignal \/ WatchResend \/ WatchWake \/ WatchDecide \/
            WatchCloseServer \/ WatchCloseRemote
    BY <1>16 DEF WatchSignal, WatchResend, WatchWake, WatchDecide,
       WatchCloseServer, WatchCloseRemote
<1>17. ASSUME NEW d \in Dirs, PipeCheck(d) PROVE ErrorInv'
    BY <1>17 DEF PipeCheck
<1>18. ASSUME NEW d \in Dirs, PipeRead(d) PROVE ErrorInv'
    BY <1>18 DEF PipeRead
<1>19. ASSUME NEW d \in Dirs, PipeReadFail(d) PROVE ErrorInv'
    BY <1>19, SidesOf DEF PipeReadFail, ReadErrors, ErrKinds, Available
<1>20. ASSUME NEW d \in Dirs, PipeWrite(d) PROVE ErrorInv'
    BY <1>20 DEF PipeWrite
<1>21. ASSUME NEW d \in Dirs, PipeNoProgress(d) PROVE ErrorInv'
    BY <1>21 DEF PipeNoProgress
<1>22. ASSUME NEW d \in Dirs, PipeWriteFail(d) PROVE ErrorInv'
    BY <1>22, SidesOf DEF PipeWriteFail, WriteErrors, ErrKinds
<1>23. ASSUME NEW d \in Dirs, PipeError(d) PROVE ErrorInv'
    BY <1>23 DEF PipeError, PipeErrs, Counted, ErrKinds
<1>24. ASSUME NEW d \in Dirs, PipeCount(d) PROVE ErrorInv'
    BY <1>24 DEF PipeCount
<1>25. ASSUME NEW d \in Dirs, PipeSignal(d) PROVE ErrorInv'
    BY <1>25 DEF PipeSignal
<1>26. ASSUME NEW d \in Dirs, PipePanic(d) PROVE ErrorInv'
    BY <1>26 DEF PipePanic
<1>27. ASSUME NEW d \in Dirs, PeerSend(d) PROVE ErrorInv'
    BY <1>27 DEF PeerSend
<1>28. ASSUME NEW d \in Dirs, PeerClose(d) PROVE ErrorInv'
    BY <1>28 DEF PeerClose
<1>29. CASE Cancel
    BY <1>29 DEF Cancel
<1>30. ASSUME NEW s \in Sides, PeerReset(s) PROVE ErrorInv'
    BY <1>30 DEF PeerReset
<1>31. CASE UNCHANGED vars
    BY <1>31 DEF vars
<1> QED
    BY <1>1, <1>2, <1>3, <1>4, <1>5, <1>6, <1>7, <1>8, <1>9, <1>10, <1>11,
       <1>12, <1>13, <1>14, <1>15, <1>16, <1>17, <1>18, <1>19, <1>20, <1>21,
       <1>22, <1>23, <1>24, <1>25, <1>26, <1>27, <1>28, <1>29, <1>30, <1>31
       DEF Next, StartStep, WatchStep, PipeStep, Finished

----------------------------------------------------------------------------
\* Inv is an invariant of one proxied connection.
THEOREM Invariance == Spec => []Inv
<1>1. Inv /\ [Next]_vars => Inv'
    BY TypeStep, ControlStep, TokenStep, DataStep, ErrorStep DEF Inv
<1> QED
    BY InitInv, <1>1, PTL DEF Spec

\* The variables of a connection keep their types; in particular ErrorSignal
\* never holds more than its one token.
THEOREM TypeCorrect == Spec => []TypeOK
<1>1. Inv => TypeOK
    BY DEF Inv
<1> QED
    BY <1>1, Invariance, PTL

\* A close request is never lost between Pipe, the watcher and Start.
THEOREM SignalKept == Spec => []SignalNotLost
<1>1. Inv => SignalNotLost
    BY DEF Inv, TokenInv
<1> QED
    BY <1>1, Invariance, PTL

\* Without a real failure the error metric stays at zero.
THEOREM ErrorsReal == Spec => []OnlyRealErrorsCounted
<1>1. Inv => OnlyRealErrorsCounted
    BY DEF Inv, ErrorInv
<1> QED
    BY <1>1, Invariance, PTL

\* The traffic counters lag the wire by at most one buffer, and never lead it.
THEOREM CountersCorrect == Spec => []CountersHonest
<1>1. Inv => CountersHonest
  <2> SUFFICES ASSUME Inv, NEW d \in Dirs
               PROVE  cnt[d] <= Delivered(d) /\ Delivered(d) - cnt[d] <= chunk[d]
    BY DEF CountersHonest
  <2>1. /\ got[d] \in Nat /\ chunk[d] \in Nat /\ written[d] \in Nat
        /\ cnt[d] \in Nat /\ Len(out[d]) \in Nat /\ DirInv(d)
    BY DEF Inv, TypeOK, DataInv
  <2>2. Pre[d] \in 0..1
    BY PreType
  <2>3. CASE pipe[d] = "off"
    <3>1. got[d] = 0 /\ chunk[d] = 0 /\ written[d] = 0 /\ cnt[d] = 0
      BY <2>1, <2>3 DEF DirInv
    <3>2. Len(out[d]) \in {0, Pre[d]}
      BY <2>1, <2>2, <3>1 DEF DirInv, OnWire
    <3> QED
      BY <2>2, <3>1, <3>2 DEF Delivered
  <2>4. CASE pipe[d] # "off"
    <3>1. Len(out[d]) = Pre[d] + ((got[d] - chunk[d]) + written[d])
      BY <2>1, <2>4 DEF DirInv, OnWire
    <3>2. /\ cnt[d] = got[d] - chunk[d] /\ chunk[d] <= got[d]
          /\ written[d] <= chunk[d]
      BY <2>1 DEF DirInv
    <3> QED
      BY <2>1, <2>2, <3>1, <3>2 DEF Delivered
  <2> QED
    BY <2>3, <2>4
<1> QED
    BY <1>1, Invariance, PTL

\* Without TLS on the way in, an end of stream means that all the source sent
\* has been copied.
THEOREM PlainEof == ~ServerTLS /\ ~RemoteTLS => (Spec => []EofMeansAllCopied)
<1> SUFFICES ASSUME ~ServerTLS, ~RemoteTLS PROVE Spec => []EofMeansAllCopied
    OBVIOUS
<1>1. Inv => EofMeansAllCopied
  <2> SUFFICES ASSUME Inv, NEW d \in Dirs, ek[d] = "eof"
               PROVE  Delivered(d) = sent[d]
    BY DEF EofMeansAllCopied
  <2>1. /\ sent[d] \in Nat /\ got[d] \in Nat /\ written[d] \in Nat
        /\ Len(out[d]) \in Nat /\ DirInv(d)
    BY DEF Inv, TypeOK, DataInv
  <2>2. ~IsTLS(Src(d))
    BY DEF IsTLS
  <2>3. chunk[d] = 0 /\ got[d] = sent[d] /\ pipe[d] # "off"
    BY <2>2 DEF Inv, ErrorInv
  <2>4. Pre[d] \in 0..1
    BY PreType
  <2> QED
    BY <2>1, <2>3, <2>4 DEF DirInv, OnWire, Delivered
<1> QED
    BY <1>1, Invariance, PTL

----------------------------------------------------------------------------
\* The connection starts as a relay that has delivered nothing.
LEMMA RelayInit == Init => Relayed!Init
BY DEF Init, Relayed!Init

\* A step that touches neither the wire nor the last step of Start stutters.
LEMMA RelayStutter ==
    ASSUME sent' = sent, out' = out, (start' = "returned") <=> (start = "returned")
    PROVE  [Relayed!Next]_(Relayed!relayVars)
BY DEF Relayed!relayVars

\* Every step of the connection is a step of the relay, or a stutter.
LEMMA RelayStep == Inv /\ [Next]_vars => [Relayed!Next]_(Relayed!relayVars)
<1> SUFFICES ASSUME Inv, [Next]_vars PROVE [Relayed!Next]_(Relayed!relayVars)
    OBVIOUS
<1> USE DEF envVars, dataVars, startVars
<1>1. CASE HeaderOK
  <2>1. /\ Pre["send"] = 1 /\ out["send"] = <<>> /\ sent["send"] \in Nat
        /\ "send" \in Dirs /\ start' # "returned" /\ start # "returned" /\ sent' = sent
        /\ out' = [out EXCEPT !["send"] = <<0>>]
    BY <1>1 DEF HeaderOK, Inv, ControlInv, DataInv, DirInv, TypeOK, Pre, Dirs
  <2>2. Relayed!NextUnits("send", 1) = <<0>>
    BY <2>1 DEF Relayed!NextUnits
  <2>3. out["send"] \o <<0>> = <<0>>
    BY <2>1
  <2>4. 1 \in 1..(sent["send"] + Pre["send"] - Len(out["send"]))
    BY <2>1
  <2>5. out' = [out EXCEPT !["send"] = @ \o Relayed!NextUnits("send", 1)]
    BY <2>1, <2>2, <2>3
  <2>6. Relayed!Deliver("send")
    BY <2>1, <2>4, <2>5 DEF Relayed!Deliver
  <2> QED
    BY <2>1, <2>6 DEF Relayed!Next
<1>2. ASSUME NEW d \in Dirs, PipeWrite(d) PROVE Relayed!Next
  <2>1. PICK k \in 1..(chunk[d] - written[d]) :
           out' = [out EXCEPT ![d] = @ \o Units(got[d] - chunk[d] + written[d], k)]
    BY <1>2 DEF PipeWrite
  <2>2. /\ got[d] \in Nat /\ chunk[d] \in Nat /\ written[d] \in Nat
        /\ sent[d] \in Nat /\ DirInv(d)
    BY DEF Inv, TypeOK, DataInv
  <2>3. pipe[d] = "write" /\ sent' = sent /\ start' = start
    BY <1>2 DEF PipeWrite
  <2>4. start # "returned"
    BY <1>2 DEF PipeWrite, Inv, ControlInv, Dst
  <2>5. Pre[d] \in Nat
    BY PreType
  <2>6. Len(out[d]) = Pre[d] + ((got[d] - chunk[d]) + written[d])
    BY <2>2, <2>3 DEF DirInv, OnWire
  <2>7. k \in 1..(sent[d] + Pre[d] - Len(out[d]))
    BY <2>2, <2>5, <2>6 DEF DirInv
  <2>8. Units(got[d] - chunk[d] + written[d], k) = Relayed!NextUnits(d, k)
    BY <2>2, <2>5, <2>6 DEF Units, Relayed!NextUnits
  <2>9. Relayed!Deliver(d)
    BY <2>1, <2>3, <2>4, <2>7, <2>8 DEF Relayed!Deliver
  <2> QED
    BY <2>9 DEF Relayed!Next
<1>3. ASSUME NEW d \in Dirs, PeerSend(d) PROVE Relayed!Next
    BY <1>3 DEF PeerSend, Relayed!Next, Relayed!Send
<1>4. CASE DeferRecover
    BY <1>4 DEF DeferRecover, Relayed!Next, Relayed!End
<1>5. CASE HandshakeOK \/ HandshakeFail \/ DialOK \/ DialFail \/ HeaderFail \/
            Spawn
    BY <1>5, RelayStutter DEF HandshakeOK, HandshakeFail, DialOK, DialFail,
       HeaderFail, Spawn
<1>6. CASE SelectSignal \/ SelectCtx \/ StartSignal \/ StartPanic
    BY <1>6, RelayStutter DEF SelectSignal, SelectCtx, StartSignal, StartPanic,
       FirstDefer
<1>7. CASE DeferCloseRemote \/ DeferCancel \/ DeferCloseServer
    BY <1>7, RelayStutter DEF DeferCloseRemote, DeferCancel, DeferCloseServer
<1>8. CASE WatchStep
    BY <1>8, RelayStutter DEF WatchStep, WatchSignal, WatchResend, WatchWake,
       WatchDecide, WatchCloseServer, WatchCloseRemote
<1>9. ASSUME NEW d \in Dirs, PipeStep(d) \/ PipeNoProgress(d) \/ PipePanic(d)
      PROVE  [Relayed!Next]_(Relayed!relayVars)
    BY <1>9, RelayStutter DEF PipeStep, PipeCheck, PipeRead, PipeReadFail,
       PipeWriteFail, PipeError, PipeCount, PipeSignal, PipeNoProgress, PipePanic
<1>10. CASE Cancel
    BY <1>10, RelayStutter DEF Cancel
<1>11. ASSUME NEW d \in Dirs, PeerClose(d) PROVE [Relayed!Next]_(Relayed!relayVars)
    BY <1>11, RelayStutter DEF PeerClose
<1>12. ASSUME NEW s \in Sides, PeerReset(s) PROVE [Relayed!Next]_(Relayed!relayVars)
    BY <1>12, RelayStutter DEF PeerReset
<1>13. CASE UNCHANGED vars
    BY <1>13, RelayStutter DEF vars
<1> QED
    BY <1>1, <1>2, <1>3, <1>4, <1>5, <1>6, <1>7, <1>8, <1>9, <1>10, <1>11, <1>12,
       <1>13 DEF Next, StartStep, Finished

\* What the peers of a proxied connection observe is a FIFO relay that delivers
\* nothing after Start has returned.
THEOREM Refinement == Spec => RelaySpec
BY RelayInit, RelayStep, Invariance, PTL DEF Spec, RelaySpec, Relayed!Spec
=============================================================================
