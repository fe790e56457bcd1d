---------------------------- MODULE HttpServer ----------------------------
(***************************************************************************)
(* The HTTP side of main: the connection limit, kept by the ConnState hook *)
(* (main.go, case "http"), under net/http's discipline for calling it:     *)
(* StateNew in Serve's accept loop, one connection at a time and before    *)
(* the connection's goroutine exists, StateClosed at the end of that       *)
(* goroutine, concurrently with everything else. A hijack is left out:     *)
(* Transport wraps every response body in a countingReadCloser, which is   *)
(* no io.Writer, so ReverseProxy refuses to switch protocols.              *)
(***************************************************************************)
EXTENDS Naturals, FiniteSets

CONSTANTS
    Conns,     \* the connections clients may open
    MaxConns   \* server.maxconns > 0: with 0 the hook is not installed

ASSUME HttpServerAssumption == IsFiniteSet(Conns) /\ MaxConns \in Nat \ {0}

Free == "free"
ASSUME FreeAssumption == Free \notin Conns

VARIABLES
    pc,        \* pc[c]: where connection c is, see Pc
    sem,       \* tokens in sem
    acquired,  \* the connections in the map of slot owners
    mu,        \* who holds mu, or Free
    shut       \* the connections the hook has closed

vars == <<pc, sem, acquired, mu, shut>>

\* "idle": not yet accepted; "new": Serve calls the hook with StateNew;
\* "token": the hook has sent to sem and wants mu; "serving": its goroutine
\* runs; "closed": that goroutine calls the hook with StateClosed and wants
\* mu; "owner": it holds mu and found itself in acquired; "gone".
Pc == {"idle", "new", "token", "serving", "closed", "owner", "gone"}

TypeOK ==
    /\ pc \in [Conns -> Pc]
    /\ sem \in 0..MaxConns
    /\ acquired \subseteq Conns /\ shut \subseteq Conns
    /\ mu \in Conns \cup {Free}

Init ==
    /\ pc = [c \in Conns |-> "idle"]
    /\ sem = 0
    /\ acquired = {} /\ shut = {}
    /\ mu = Free

\* Serve is between Accept and the go statement for some connection.
Accepting == \E c \in Conns : pc[c] \in {"new", "token"}

Accept(c) ==
    /\ pc[c] = "idle" /\ ~Accepting
    /\ pc' = [pc EXCEPT ![c] = "new"]
    /\ UNCHANGED <<sem, acquired, mu, shut>>

\* Mutant: the limit is tested off by one.
NewTakes_OffByOne(c) ==
    /\ pc[c] = "new"
    /\ sem <= MaxConns
    /\ sem' = sem + 1
    /\ pc' = [pc EXCEPT ![c] = "token"]
    /\ UNCHANGED <<acquired, mu, shut>>

\* StateNew, with room in sem ...
NewTakes(c) ==
    /\ pc[c] = "new"
    /\ sem < MaxConns
    /\ sem' = sem + 1
    /\ pc' = [pc EXCEPT ![c] = "token"]
    /\ UNCHANGED <<acquired, mu, shut>>

\* Mutant: the connection is served but not entered in the map.
NewMarks_Forgets(c) ==
    /\ pc[c] = "token"
    /\ mu = Free
    /\ pc' = [pc EXCEPT ![c] = "serving"]
    /\ UNCHANGED <<sem, acquired, mu, shut>>

\* ... then the owner is entered in the map under mu, and Serve goes on.
NewMarks(c) ==
    /\ pc[c] = "token"
    /\ mu = Free
    /\ acquired' = acquired \cup {c}
    /\ pc' = [pc EXCEPT ![c] = "serving"]
    /\ UNCHANGED <<sem, mu, shut>>

\* StateNew, with sem full: the hook closes the connection; Serve still starts
\* its goroutine, which will fail and report StateClosed.
NewRejects(c) ==
    /\ pc[c] = "new"
    /\ sem = MaxConns
    /\ shut' = shut \cup {c}
    /\ pc' = [pc EXCEPT ![c] = "serving"]
    /\ UNCHANGED <<sem, acquired, mu>>

\* The connection's goroutine ends: peer gone, timeout, shutdown or closed.
ServeEnds(c) ==
    /\ pc[c] = "serving"
    /\ pc' = [pc EXCEPT ![c] = "closed"]
    /\ UNCHANGED <<sem, acquired, mu, shut>>

\* Mutant: no look into the map, every closed connection releases a token.
Owns_Anyone(c) == TRUE

\* if _, ok := acquired[conn]; ok
Owns(c) == c \in acquired

\* StateClosed of a connection that owns a slot: mu stays locked ...
ClosedOwner(c) ==
    /\ pc[c] = "closed"
    /\ mu = Free
    /\ Owns(c)
    /\ mu' = c
    /\ acquired' = acquired \ {c}
    /\ pc' = [pc EXCEPT ![c] = "owner"]
    /\ UNCHANGED <<sem, shut>>

\* ... while it receives from sem, which would block on an empty channel.
ClosedReleases(c) ==
    /\ pc[c] = "owner"
    /\ sem > 0
    /\ sem' = sem - 1
    /\ mu' = Free
    /\ pc' = [pc EXCEPT ![c] = "gone"]
    /\ UNCHANGED <<acquired, shut>>

\* StateClosed of a rejected connection.
ClosedOther(c) ==
    /\ pc[c] = "closed"
    /\ mu = Free
    /\ ~Owns(c)
    /\ pc' = [pc EXCEPT ![c] = "gone"]
    /\ UNCHANGED <<sem, acquired, mu, shut>>

\* The steps of the hook, which the scheduler is sure to run.
Hook(c) ==
    \/ NewTakes(c) \/ NewMarks(c) \/ NewRejects(c)
    \/ ClosedOwner(c) \/ ClosedReleases(c) \/ ClosedOther(c)

\* Every connection has come and gone.
AllGone == (\A c \in Conns : pc[c] = "gone") /\ UNCHANGED vars

Next == (\E c \in Conns : Accept(c) \/ Hook(c) \/ ServeEnds(c)) \/ AllGone

\* The goroutine of a connection the hook has closed is sure to end; the others
\* may be served for ever. mu is contended, and Go's mutexes do not starve.
Fairness ==
    \A c \in Conns : SF_vars(Hook(c)) /\ WF_vars(c \in shut /\ ServeEnds(c))

Spec == Init /\ [][Next]_vars /\ Fairness

----------------------------------------------------------------------------
(* Properties *)

\* The connections that hold a slot: one the hook did not close holds it from
\* its token to the release.
Holders == {c \in Conns : pc[c] \in {"token", "serving", "closed", "owner"}} \ shut

\* The semaphore counts the holders, whatever order the rejected and the served
\* connections report StateClosed in.
TokensMatch == sem = Cardinality(Holders)

SlotOf(c) ==
    CASE c \in shut -> "refused"
      [] c \in Holders -> "held"
      [] pc[c] = "gone" /\ c \notin shut -> "returned"
      [] OTHER -> "none"

\* The hook implements the connection limit.
Limit == INSTANCE ConnLimit WITH Max <- MaxConns, slot <- [c \in Conns |-> SlotOf(c)]
LimitSpec == Limit!Spec

\* No hook call blocks for ever on mu or sem: a connection that is new or
\* closed gets through, even when the one holding mu waits for a token.
HookReturns == \A c \in Conns :
    /\ pc[c] = "new" ~> pc[c] \in {"serving", "closed", "gone"}
    /\ pc[c] = "closed" ~> pc[c] = "gone"
=============================================================================
