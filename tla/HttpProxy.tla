----------------------------- MODULE HttpProxy -----------------------------
(***************************************************************************)
(* The HTTP reverse proxy: Transport with its counting bodies              *)
(* (internal/proxy/http.go), the health check in front of it               *)
(* (internal/health) and the context that main gives every request, for    *)
(* requests handled concurrently.                                          *)
(*                                                                         *)
(* net/http's Transport and ReverseProxy are external: the former reads    *)
(* and closes the request body in a goroutine of its own that may outlive  *)
(* RoundTrip, and a RoundTrip that fails meanwhile closes it too; the      *)
(* latter copies the response body to the client and closes it once,       *)
(* however the copy ends. A body is a number of units; the units of a      *)
(* response are numbered.                                                  *)
(***************************************************************************)
EXTENDS Naturals, Sequences, FiniteSets

CONSTANTS
    Reqs,        \* the requests clients may send
    BodyUnits,   \* bound: units of a request body
    RespUnits,   \* bound: units of a response body
    MaxLogged    \* maxLoggedBytes, in units

ASSUME HttpProxyAssumption ==
    /\ IsFiniteSet(Reqs)
    /\ BodyUnits \in Nat /\ RespUnits \in Nat /\ MaxLogged \in Nat

VARIABLES
    ShowContent,         \* log.contents
    WriteTimed,          \* timeouts.write > 0, the server's WriteTimeout
    req,                 \* req[r]: the request r, see Request
    bytesTo, bytesFrom,  \* Transport's counters (and the metrics')
    cancelled            \* rootCtx, the base context of every request

vars == <<ShowContent, WriteTimed, req, bytesTo, bytesFrom, cancelled>>

(***************************************************************************)
(* at: where the handler is: "trip" in RoundTrip of net/http, "prefix" in  *)
(* ReadAll, "copy" in ReverseProxy's copy, "broken" there with a backend   *)
(* that failed during ReadAll.  body, taken, counted, closes: the request  *)
(* body ("dropped" by RoundTrip before its reader is done), the units read *)
(* from it, bytesRead of its countingReadCloser, the calls of its Close.   *)
(* size, got, buf, nread, unit, out: the response's units, those read from *)
(* the backend, the prefix not yet handed on, bytesRead, the unit of the   *)
(* Write to the client that is under way (0: none), the units the client   *)
(* received.  res: how the request ended.                                  *)
(***************************************************************************)
Request == [at : {"new", "trip", "prefix", "copy", "broken", "done"},
            body : {"none", "open", "dropped", "closed"},
            taken : 0..BodyUnits, counted : 0..BodyUnits,
            closes : 0..2, size : 0..RespUnits, got : 0..RespUnits, buf : Seq(1..RespUnits),
            nread : 0..RespUnits, unit : 0..RespUnits, out : Seq(1..RespUnits),
            res : {"none", "whole", "cut", "failed"}]

\* Of a response no more than maxLoggedBytes are held in memory, and a request
\* body is closed at most twice.
TypeOK ==
    /\ req \in [Reqs -> Request]
    /\ \A r \in Reqs : Len(req[r].buf) <= MaxLogged
    /\ bytesTo \in Nat /\ bytesFrom \in Nat
    /\ ShowContent \in BOOLEAN /\ WriteTimed \in BOOLEAN /\ cancelled \in BOOLEAN

Init ==
    /\ ShowContent \in BOOLEAN /\ WriteTimed \in BOOLEAN
    /\ req = [r \in Reqs |-> [at |-> "new", body |-> "none", taken |-> 0, counted |-> 0,
              closes |-> 0, size |-> 0, got |-> 0, buf |-> <<>>, nread |-> 0, unit |-> 0,
              out |-> <<>>, res |-> "none"]]
    /\ bytesTo = 0 /\ bytesFrom = 0
    /\ cancelled = FALSE

----------------------------------------------------------------------------
(* A request arrives *)

\* CheckMiddleware answers by itself.
HealthCheck(r) ==
    /\ req[r].at = "new"
    /\ req' = [req EXCEPT ![r].at = "done"]
    /\ UNCHANGED <<ShowContent, WriteTimed, bytesTo, bytesFrom, cancelled>>

\* RoundTrip wraps the body, if there is one.
RoundTrip(r, body) ==
    /\ req[r].at = "new"
    /\ req' = [req EXCEPT ![r].at = "trip", ![r].body = body]
    /\ UNCHANGED <<ShowContent, WriteTimed, bytesTo, bytesFrom, cancelled>>

----------------------------------------------------------------------------
(* The request body, in a goroutine of net/http's Transport *)

\* countingReadCloser.Read: the wrapped Read ...
BodyTake(r) ==
    /\ req[r].body = "open" /\ req[r].taken = req[r].counted /\ req[r].taken < BodyUnits
    /\ req' = [req EXCEPT ![r].taken = @ + 1]
    /\ UNCHANGED <<ShowContent, WriteTimed, bytesTo, bytesFrom, cancelled>>

\* ... and then bytesRead, which Close reads in another goroutine without a lock.
BodyAdd(r) ==
    /\ req[r].counted < req[r].taken
    /\ req' = [req EXCEPT ![r].counted = req[r].taken]
    /\ UNCHANGED <<ShowContent, WriteTimed, bytesTo, bytesFrom, cancelled>>

\* onClose of the request body
OnCloseTo(r) == bytesTo + req[r].counted

\* The Close at the end of the body, of the exchange, or of a write that
\* failed; Close calls onClose every time.
BodyClose(r) ==
    /\ req[r].body \in {"open", "dropped"}
    /\ req' = [req EXCEPT ![r].body = "closed", ![r].closes = @ + 1]
    /\ bytesTo' = OnCloseTo(r)
    /\ UNCHANGED <<ShowContent, WriteTimed, bytesFrom, cancelled>>

----------------------------------------------------------------------------
(* RoundTrip's result and the response *)

\* The backend fails; the client gets a 502.
TripFails(r) ==
    /\ req[r].at = "trip" /\ req[r].body # "open"
    /\ req' = [req EXCEPT ![r].at = "done", ![r].res = "failed"]
    /\ UNCHANGED <<ShowContent, WriteTimed, bytesTo, bytesFrom, cancelled>>

\* The same with a body that is still being sent, which RoundTrip closes.
TripDrops(r) ==
    /\ req[r].at = "trip" /\ req[r].body = "open"
    /\ req' = [req EXCEPT ![r].at = "done", ![r].res = "failed",
                          ![r].body = "dropped", ![r].closes = @ + 1]
    /\ bytesTo' = OnCloseTo(r)
    /\ UNCHANGED <<ShowContent, WriteTimed, bytesFrom, cancelled>>

\* The backend answers with n units to come.
TripAnswers(r, n) ==
    /\ req[r].at = "trip"
    /\ req' = [req EXCEPT ![r].size = n, ![r].at = IF ShowContent THEN "prefix" ELSE "copy"]
    /\ UNCHANGED <<ShowContent, WriteTimed, bytesTo, bytesFrom, cancelled>>

\* Mutant: the prefix is read without its limit.
Room_Unlimited(r) == TRUE

\* io.LimitReader(resp.Body, maxLoggedBytes)
Room(r) == Len(req[r].buf) < MaxLogged

PrefixRead(r) ==
    /\ req[r].at = "prefix" /\ Room(r) /\ req[r].got < req[r].size
    /\ req' = [req EXCEPT ![r].buf = Append(@, req[r].got + 1), ![r].got = @ + 1]
    /\ UNCHANGED <<ShowContent, WriteTimed, bytesTo, bytesFrom, cancelled>>

\* Mutant: the body is put together again without the prefix.
PrefixDone_Dropped(r) ==
    /\ req[r].at = "prefix" /\ (~Room(r) \/ req[r].got = req[r].size)
    /\ req' = [req EXCEPT ![r].at = "copy", ![r].buf = <<>>]
    /\ UNCHANGED <<ShowContent, WriteTimed, bytesTo, bytesFrom, cancelled>>

\* io.ReadAll ends at the limit or at the end of the body ...
PrefixDone(r) ==
    /\ req[r].at = "prefix" /\ (~Room(r) \/ req[r].got = req[r].size)
    /\ req' = [req EXCEPT ![r].at = "copy"]
    /\ UNCHANGED <<ShowContent, WriteTimed, bytesTo, bytesFrom, cancelled>>

\* ... or with an error, which is met again behind the prefix.
PrefixFails(r) ==
    /\ req[r].at = "prefix"
    /\ req' = [req EXCEPT ![r].at = "broken"]
    /\ UNCHANGED <<ShowContent, WriteTimed, bytesTo, bytesFrom, cancelled>>

\* The copy reads from io.MultiReader(prefix, rest), through the wrapper, and
\* writes to the client what it read before it reads on.
Reading(r) == req[r].at \in {"copy", "broken"} /\ req[r].unit = 0
Writing(r) == req[r].at \in {"copy", "broken"} /\ req[r].unit # 0

CopyPrefix(r) ==
    /\ Reading(r) /\ req[r].buf # <<>>
    /\ req' = [req EXCEPT ![r].unit = Head(req[r].buf), ![r].buf = Tail(@), ![r].nread = @ + 1]
    /\ UNCHANGED <<ShowContent, WriteTimed, bytesTo, bytesFrom, cancelled>>

CopyRest(r) ==
    /\ Reading(r) /\ req[r].at = "copy" /\ req[r].buf = <<>> /\ req[r].got < req[r].size
    /\ req' = [req EXCEPT ![r].unit = req[r].got + 1, ![r].got = @ + 1, ![r].nread = @ + 1]
    /\ UNCHANGED <<ShowContent, WriteTimed, bytesTo, bytesFrom, cancelled>>

\* Write returns: the client, or the socket's buffer, has taken the unit.
ClientTakes(r) ==
    /\ Writing(r)
    /\ req' = [req EXCEPT ![r].out = Append(@, req[r].unit), ![r].unit = 0]
    /\ UNCHANGED <<ShowContent, WriteTimed, bytesTo, bytesFrom, cancelled>>

\* Mutant: the prefix, already counted when it was read, is counted again.
OnCloseFrom_Prefix(n) == bytesFrom + n + (IF ShowContent THEN MaxLogged ELSE 0)

\* onClose of the response body
OnCloseFrom(n) == bytesFrom + n

\* The copy is over; ReverseProxy closes the response body.
CopyEnds(r, how) ==
    /\ req' = [req EXCEPT ![r].at = "done", ![r].res = how]
    /\ bytesFrom' = OnCloseFrom(req[r].nread)
    /\ UNCHANGED <<ShowContent, WriteTimed, bytesTo, cancelled>>

CopyWhole(r) ==
    /\ Reading(r) /\ req[r].at = "copy" /\ req[r].buf = <<>> /\ req[r].got = req[r].size
    /\ CopyEnds(r, "whole")

\* The backend's body fails, now or in ReadAll before.
CopyFails(r) ==
    /\ Reading(r) /\ req[r].buf = <<>>
    /\ CopyEnds(r, "cut")

\* The client is gone: what was read for it is lost, and counted.
WriteFails(r) ==
    /\ Writing(r)
    /\ CopyEnds(r, "cut")

\* The write deadline ends a Write that the client does not take.
WriteTimesOut(r) ==
    /\ WriteTimed
    /\ WriteFails(r)

----------------------------------------------------------------------------
\* SIGINT or SIGTERM: NotifyContext ends rootCtx.
Cancel ==
    /\ ~cancelled /\ cancelled' = TRUE
    /\ UNCHANGED <<ShowContent, WriteTimed, req, bytesTo, bytesFrom>>

\* Mutant: the server is given no BaseContext.
RequestDone_Background == FALSE

\* req.Context().Err() # nil: BaseContext is rootCtx.
RequestDone == cancelled

\* A request whose context has ended fails where it waits for the backend, in
\* RoundTrip or in a Read of the body. A Write to the client goes on.
ContextEnds(r) ==
    /\ RequestDone
    /\ TripFails(r) \/ TripDrops(r) \/ PrefixFails(r) \/ CopyFails(r)

Handle(r) ==
    \/ HealthCheck(r)
    \/ \E body \in {"none", "open"} : RoundTrip(r, body)
    \/ BodyTake(r) \/ BodyAdd(r) \/ BodyClose(r)
    \/ TripFails(r) \/ TripDrops(r)
    \/ \E n \in 0..RespUnits : TripAnswers(r, n)
    \/ PrefixRead(r) \/ PrefixDone(r) \/ PrefixFails(r)
    \/ CopyPrefix(r) \/ CopyRest(r) \/ ClientTakes(r)
    \/ CopyWhole(r) \/ CopyFails(r) \/ WriteFails(r) \/ WriteTimesOut(r)
    \/ ContextEnds(r)

Next == (\E r \in Reqs : Handle(r)) \/ Cancel

(***************************************************************************)
(* The proxy's own steps: the failure of a wait for the backend once the   *)
(* context has ended, a Read of the prefix, which is in memory, and an     *)
(* expired write deadline. Nothing is assumed of the backend or of the     *)
(* client: either may stall for ever.                                      *)
(***************************************************************************)
Fairness ==
    \A r \in Reqs : /\ WF_vars(ContextEnds(r))
                    /\ WF_vars(CopyPrefix(r))
                    /\ WF_vars(WriteTimesOut(r))

Spec == Init /\ [][Next]_vars /\ Fairness

----------------------------------------------------------------------------
(* Properties *)

\* The client receives the backend's response unchanged and from its start,
\* with and without content logging; all of it when the copy ends well.
ResponseIntact ==
    \A r \in Reqs :
       /\ req[r].out = [i \in 1..Len(req[r].out) |-> i]
       /\ req[r].res = "whole" => Len(req[r].out) = req[r].size

\* The sum of f over the requests, where f is at most n: the units below f, counted.
Total(f, n) == Cardinality({p \in Reqs \X (1..n) : p[2] <= f[p[1]]})

\* Per request: the units handed to the client, once the request is over; those
\* read from its body; and these once the body is closed.
Handed == [r \in Reqs |-> IF req[r].res \in {"whole", "cut"} THEN Len(req[r].out) ELSE 0]
Taken == [r \in Reqs |-> req[r].taken]
Sent == [r \in Reqs |-> IF req[r].closes > 0 THEN req[r].taken ELSE 0]

Cut == {r \in Reqs : req[r].res = "cut"}
Closed == {r \in Reqs : req[r].closes > 0 /\ req[r].taken > 0}

\* The received counter is the units handed to the clients whose requests are
\* over, but for one in flight to each client that went away. As long as no
\* body is closed twice, the sent counter is the units of the bodies closed,
\* but for the Read that a Close in another goroutine may overtake.
BytesCounted ==
    /\ Total(Handed, RespUnits) <= bytesFrom
    /\ bytesFrom <= Total(Handed, RespUnits) + Cardinality(Cut)
    /\ (\A r \in Reqs : req[r].closes <= 1) =>
          /\ bytesTo <= Total(Sent, BodyUnits)
          /\ Total(Sent, BodyUnits) <= bytesTo + Cardinality(Closed)

\* README.md:236: tlspxy_bytes_sent_total is the bytes sent to the backend. These
\* come out of the request bodies, so that the counter is never above what was
\* read from those.
SentAsDocumented == bytesTo <= Total(Taken, BodyUnits)

\* After SIGTERM every request that has begun comes to its end, whatever the
\* backend does and however much of its response was already buffered, unless
\* its client stalls for ever in a Write that has no deadline.
CancelDrains ==
    \A r \in Reqs :
       (cancelled /\ req[r].at # "new")
          ~> (req[r].at = "done" \/ (~WriteTimed /\ []Writing(r)))
=============================================================================
