----------------------------- MODULE TcpServer -----------------------------
(***************************************************************************)
(* The TCP side of main: the goroutine that closes the listener, the       *)
(* accept loop with its connection limit, one goroutine per proxied        *)
(* connection, and the bounded drain at shutdown (main.go, case "tcp").    *)
(*                                                                         *)
(* TCPProxy.Start is one step here, "it returns", which TcpConn refines:   *)
(* there a cancelled context always makes it return.                       *)
(***************************************************************************)
EXTENDS Naturals, FiniteSets

CONSTANTS
    Conns,     \* the connections clients may open
    MaxConns   \* server.maxconns; 0 leaves sem nil

ASSUME TcpServerAssumption == IsFiniteSet(Conns) /\ MaxConns \in Nat

None == "none"
ASSUME NoneAssumption == None \notin Conns

VARIABLES
    ctxDone,   \* rootCtx is cancelled (SIGINT or SIGTERM)
    listener,  \* "open" or "closed"
    main,      \* program counter of the accept loop and the drain
    cur,       \* the connection main is working on
    connID,    \* connections launched so far
    sem,       \* tokens in sem
    wg,        \* the WaitGroup's counter
    conn,      \* conn[c]: where connection c and its goroutine are
    waiter,    \* the goroutine that waits for wg and closes done
    outcome    \* what main logged about the drain

vars == <<ctxDone, listener, main, cur, connID, sem, wg, conn, waiter, outcome>>

ConnPc == {"idle", "queued", "dropped", "accepted", "refused", "taken",
           "running", "ended", "released", "done"}

TypeOK ==
    /\ ctxDone \in BOOLEAN /\ listener \in {"open", "closed"}
    /\ main \in {"accept", "admit", "launch", "drain", "exit"}
    /\ cur \in Conns \cup {None}
    /\ connID \in Nat /\ sem \in Nat /\ wg \in Nat
    /\ conn \in [Conns -> ConnPc]
    /\ waiter \in {"off", "wait", "closed"}
    /\ outcome \in {"none", "drained", "forced"}

Init ==
    /\ ctxDone = FALSE /\ listener = "open"
    /\ main = "accept" /\ cur = None
    /\ connID = 0 /\ sem = 0 /\ wg = 0
    /\ conn = [c \in Conns |-> "idle"]
    /\ waiter = "off" /\ outcome = "none"

\* When main returns, the process and all its goroutines are gone.
Alive == main # "exit"

----------------------------------------------------------------------------
(* Clients, signals, and the goroutine that closes the listener *)

Connect(c) ==
    /\ Alive /\ listener = "open"
    /\ conn[c] = "idle"
    /\ conn' = [conn EXCEPT ![c] = "queued"]
    /\ UNCHANGED <<ctxDone, listener, main, cur, connID, sem, wg, waiter, outcome>>

Cancel ==
    /\ Alive /\ ~ctxDone
    /\ ctxDone' = TRUE
    /\ UNCHANGED <<listener, main, cur, connID, sem, wg, conn, waiter, outcome>>

\* The kernel drops what waits in the backlog of a closed listener.
CloseListener ==
    /\ Alive /\ ctxDone /\ listener = "open"
    /\ listener' = "closed"
    /\ conn' = [c \in Conns |-> IF conn[c] = "queued" THEN "dropped" ELSE conn[c]]
    /\ UNCHANGED <<ctxDone, main, cur, connID, sem, wg, waiter, outcome>>

----------------------------------------------------------------------------
(* The accept loop *)

Accept(c) ==
    /\ main = "accept"
    /\ conn[c] = "queued"
    /\ conn' = [conn EXCEPT ![c] = "accepted"]
    /\ cur' = c
    /\ main' = "admit"
    /\ UNCHANGED <<ctxDone, listener, connID, sem, wg, waiter, outcome>>

\* Mutant: every error is retried, a closed listener too.
AfterAcceptError_Retry == "accept"

\* After an error of Accept the loop ends if the context is cancelled, and
\* tries again otherwise.
AfterAcceptError == IF ctxDone THEN "drain" ELSE "accept"

AcceptError ==
    /\ main = "accept"
    /\ main' = AfterAcceptError
    /\ waiter' = (IF AfterAcceptError = "drain" THEN "wait" ELSE waiter)
    /\ UNCHANGED <<ctxDone, listener, cur, connID, sem, wg, conn, outcome>>

\* Mutant: the limit is tested off by one.
HasSlot_OffByOne == MaxConns > 0 => sem <= MaxConns

\* The select on sem: a nil sem admits everyone.
HasSlot == MaxConns > 0 => sem < MaxConns

Admit ==
    /\ main = "admit"
    /\ HasSlot
    /\ sem' = (IF MaxConns > 0 THEN sem + 1 ELSE sem)
    /\ conn' = [conn EXCEPT ![cur] = "taken"]
    /\ main' = "launch"
    /\ UNCHANGED <<ctxDone, listener, cur, connID, wg, waiter, outcome>>

\* Mutant: the reject path runs the same cleanup as the goroutine and so gives
\* back a token it never took.
Reject_GivesBack ==
    /\ main = "admit"
    /\ ~HasSlot
    /\ sem' = sem - 1
    /\ conn' = [conn EXCEPT ![cur] = "refused"]
    /\ main' = "accept" /\ cur' = None
    /\ UNCHANGED <<ctxDone, listener, connID, wg, waiter, outcome>>

\* conn.Close() and continue: no token, no goroutine.
Reject ==
    /\ main = "admit"
    /\ ~HasSlot
    /\ conn' = [conn EXCEPT ![cur] = "refused"]
    /\ main' = "accept" /\ cur' = None
    /\ UNCHANGED <<ctxDone, listener, connID, sem, wg, waiter, outcome>>

\* Mutant: wg.Add(1) is left to the new goroutine, which may not have run yet.
Launch_NoAdd ==
    /\ main = "launch"
    /\ connID' = connID + 1
    /\ conn' = [conn EXCEPT ![cur] = "running"]
    /\ main' = "accept" /\ cur' = None
    /\ UNCHANGED <<ctxDone, listener, sem, wg, waiter, outcome>>

\* connID++, wg.Add(1) and the go statement.
Launch ==
    /\ main = "launch"
    /\ connID' = connID + 1
    /\ wg' = wg + 1
    /\ conn' = [conn EXCEPT ![cur] = "running"]
    /\ main' = "accept" /\ cur' = None
    /\ UNCHANGED <<ctxDone, listener, sem, waiter, outcome>>

----------------------------------------------------------------------------
(* The goroutine of a connection *)

\* p.Start() returns: the peers are done, or the context is cancelled.
StartReturns(c) ==
    /\ Alive
    /\ conn[c] = "running"
    /\ conn' = [conn EXCEPT ![c] = "ended"]
    /\ UNCHANGED <<ctxDone, listener, main, cur, connID, sem, wg, waiter, outcome>>

\* Mutant: the token is not given back.
ReleaseSlot_Leak(c) ==
    /\ Alive
    /\ conn[c] = "ended"
    /\ conn' = [conn EXCEPT ![c] = "released"]
    /\ UNCHANGED <<ctxDone, listener, main, cur, connID, sem, wg, waiter, outcome>>

\* The deferred <-sem, which would block on an empty channel ...
ReleaseSlot(c) ==
    /\ Alive
    /\ conn[c] = "ended"
    /\ MaxConns > 0 => sem > 0
    /\ sem' = (IF MaxConns > 0 THEN sem - 1 ELSE sem)
    /\ conn' = [conn EXCEPT ![c] = "released"]
    /\ UNCHANGED <<ctxDone, listener, main, cur, connID, wg, waiter, outcome>>

\* ... and then the deferred wg.Done().
WgDone(c) ==
    /\ Alive
    /\ conn[c] = "released"
    /\ wg' = wg - 1
    /\ conn' = [conn EXCEPT ![c] = "done"]
    /\ UNCHANGED <<ctxDone, listener, main, cur, connID, sem, waiter, outcome>>

----------------------------------------------------------------------------
(* The drain *)

\* wg.Wait(); close(done)
WaiterCloses ==
    /\ Alive
    /\ waiter = "wait" /\ wg = 0
    /\ waiter' = "closed"
    /\ UNCHANGED <<ctxDone, listener, main, cur, connID, sem, wg, conn, outcome>>

Drained ==
    /\ main = "drain" /\ waiter = "closed"
    /\ main' = "exit" /\ outcome' = "drained"
    /\ UNCHANGED <<ctxDone, listener, cur, connID, sem, wg, conn, waiter>>

\* The 30 seconds are over; possibly at the moment done is closed.
DrainTimeout ==
    /\ main = "drain"
    /\ main' = "exit" /\ outcome' = "forced"
    /\ UNCHANGED <<ctxDone, listener, cur, connID, sem, wg, conn, waiter>>

----------------------------------------------------------------------------
MainStep ==
    \/ \E c \in Conns : Accept(c)
    \/ listener = "closed" /\ AcceptError
    \/ Admit \/ Reject \/ Launch
    \/ Drained \/ DrainTimeout

ConnStep(c) == ReleaseSlot(c) \/ WgDone(c)

\* main has returned.
Exited == ~Alive /\ UNCHANGED vars

Next ==
    \/ Cancel \/ CloseListener
    \/ \E c \in Conns : Connect(c) \/ Accept(c)
    \/ AcceptError \/ Admit \/ Reject \/ Launch
    \/ \E c \in Conns : StartReturns(c) \/ ReleaseSlot(c) \/ WgDone(c)
    \/ WaiterCloses \/ Drained \/ DrainTimeout
    \/ Exited

(***************************************************************************)
(* Goroutines that can run do run, and the drain timer fires. A transient  *)
(* Accept error need not happen, so only the error of a closed listener is *)
(* fair. A connection is sure to end only once the context is cancelled    *)
(* (CancelTerminates of TcpConn).                                          *)
(***************************************************************************)
Fairness ==
    /\ WF_vars(MainStep) /\ WF_vars(CloseListener) /\ WF_vars(WaiterCloses)
    /\ \A c \in Conns : WF_vars(ConnStep(c)) /\ WF_vars(ctxDone /\ StartReturns(c))

Spec == Init /\ [][Next]_vars /\ Fairness

----------------------------------------------------------------------------
(* Properties *)

Holders == {c \in Conns : conn[c] \in {"taken", "running", "ended"}}

\* The semaphore counts exactly the connections that hold a slot, so no
\* sequence of rejections, ends and races loses a slot or hands out one too many.
TokensMatch == MaxConns > 0 => sem = Cardinality(Holders) /\ sem <= MaxConns

SlotOf(c) ==
    CASE c \in Holders -> "held"
      [] conn[c] \in {"released", "done"} -> "returned"
      [] conn[c] = "refused" -> "refused"
      [] OTHER -> "none"

\* The accept loop and its goroutines implement the connection limit.
Limit == INSTANCE ConnLimit WITH Max <- MaxConns, slot <- [c \in Conns |-> SlotOf(c)]
LimitSpec == Limit!Spec

\* "All connections drained" is logged only when no connection goroutine is
\* left, although a connection may have been accepted while shutting down.
DrainHonest ==
    outcome = "drained" =>
       \A c \in Conns : conn[c] \notin {"taken", "running", "ended", "released"}

\* A cancelled context ends the process, whatever the connections do.
ShutdownExits == ctxDone ~> ~Alive

\* A connection that ended gives its slot back, unless the process exits first.
SlotsReturn == \A c \in Conns : conn[c] = "ended" ~> (conn[c] = "done" \/ ~Alive)
=============================================================================
