-------------------------- MODULE HttpProxyProofs --------------------------
(***************************************************************************)
(* HttpProxy is correct for any requests, any sizes of bodies and any      *)
(* limit on the logged prefix.                                             *)
(*                                                                         *)
(* The invariant has a part for each request, ReqInv, which ties what was  *)
(* read from the backend to what is buffered and to what the client has;   *)
(* an action touches one request, so that each action has one lemma.  The  *)
(* counters are sums over all requests: SumsMove reduces the effect of a   *)
(* step on a sum to its effect on the request that changed. The invariant  *)
(* says of the sent counter what it really is, a body closed twice counted *)
(* twice; what BytesCounted says of bodies closed once follows from it.    *)
(***************************************************************************)
EXTENDS HttpProxy, FiniteSetTheorems, SequenceTheorems, TLAPS

\* TypeOK but for the limit, which belongs to a request
Typed ==
    /\ req \in [Reqs -> Request]
    /\ bytesTo \in Nat /\ bytesFrom \in Nat
    /\ ShowContent \in BOOLEAN /\ WriteTimed \in BOOLEAN /\ cancelled \in BOOLEAN

\* The units of s follow unit n of the response.
Follow(s, n) == s = [i \in 1..Len(s) |-> n + i]

\* What has been read of the response is what the wrapper handed on, then the
\* prefix, in order and without a gap.
ResponseInv(q) ==
    /\ Follow(q.out, 0) /\ Follow(q.buf, q.nread)
    /\ q.got = q.nread + Len(q.buf) /\ q.got <= q.size
    /\ Len(q.buf) <= MaxLogged

\* A client is behind what was read by the unit that is being written to it,
\* which is the next it expects; nothing is read before the backend answers.
StageInv(q) ==
    /\ q.res \in {"whole", "cut"} => q.at = "done"
    /\ q.at \in {"new", "trip"} => q.got = 0
    /\ q.at \in {"new", "trip", "prefix"} => q.unit = 0
    /\ Len(q.out) <= q.nread /\ q.nread <= Len(q.out) + 1
    /\ q.at # "done" /\ q.unit = 0 => Len(q.out) = q.nread
    /\ q.unit # 0 => q.unit = q.nread /\ q.nread = Len(q.out) + 1
    /\ q.res = "whole" => q.nread = q.size /\ Len(q.out) = q.size

\* bytesRead is behind the Reads by at most the one under way, there are no
\* Reads after a Close, and only a body that RoundTrip dropped is closed again.
BodyInv(q) ==
    /\ q.counted <= q.taken /\ q.taken <= q.counted + 1
    /\ q.at = "new" => q.body = "none"
    /\ q.body \in {"none", "open"} => q.closes = 0
    /\ q.body = "dropped" => q.closes = 1
    /\ q.body = "none" => q.taken = 0 /\ q.counted = 0

ReqInv(q) == ResponseInv(q) /\ StageInv(q) /\ BodyInv(q)

\* What a request's body has added to the sent counter, but for the calls of
\* Close that may have missed a unit.
Exact == [r \in Reqs |-> req[r].closes * req[r].taken]
Missed == [r \in Reqs |-> IF req[r].taken = 0 THEN 0 ELSE req[r].closes]

SumsInv ==
    /\ Total(Handed, RespUnits) <= bytesFrom
    /\ bytesFrom <= Total(Handed, RespUnits) + Cardinality(Cut)
    /\ bytesTo <= Total(Exact, 2 * BodyUnits)
    /\ Total(Exact, 2 * BodyUnits) <= bytesTo + Total(Missed, 2)

Inv == Typed /\ (\A r \in Reqs : ReqInv(req[r])) /\ SumsInv

----------------------------------------------------------------------------
(* Sums over the requests *)

\* A sum is a number, because it counts a finite set.
LEMMA TotalNat == ASSUME NEW f, NEW n \in Nat PROVE Total(f, n) \in Nat
<1>1. IsFiniteSet(Reqs \X (1..n))
  BY HttpProxyAssumption, FS_Product, FS_Interval, 1 \in Int, n \in Int
<1>2. IsFiniteSet({p \in Reqs \X (1..n) : p[2] <= f[p[1]]})
  BY <1>1, FS_Subset
<1> QED
  BY <1>2, FS_CardinalityType DEF Total

\* The sum is that of the other requests and the value of r.
LEMMA TotalSplit ==
    ASSUME NEW n \in Nat, NEW f \in [Reqs -> Nat], NEW r \in Reqs, f[r] <= n
    PROVE  Total(f, n) =
             Cardinality({p \in Reqs \X (1..n) : p[1] # r /\ p[2] <= f[p[1]]}) + f[r]
<1> DEFINE A == {p \in Reqs \X (1..n) : p[1] # r /\ p[2] <= f[p[1]]}
           B == {r} \X (1..f[r])
<1>1. IsFiniteSet(Reqs \X (1..n))
  BY HttpProxyAssumption, FS_Product, FS_Interval, 1 \in Int, n \in Int
<1>2. IsFiniteSet(A)
  BY <1>1, FS_Subset
<1>3. f[r] \in Nat
  OBVIOUS
<1>4. IsFiniteSet(1..f[r]) /\ Cardinality(1..f[r]) = f[r]
  BY <1>3, FS_Interval, 1 \in Int, f[r] \in Int
<1>5. IsFiniteSet({r}) /\ Cardinality({r}) = 1
  BY FS_Singleton
<1>6. IsFiniteSet(B) /\ Cardinality(B) = 1 * f[r]
  BY <1>4, <1>5, FS_Product
<1>7. A \cap B = {}
  BY Zenon
<1>8. {p \in Reqs \X (1..n) : p[2] <= f[p[1]]} = A \cup B
  <2>1. ASSUME NEW i PROVE i \in 1..f[r] <=> i \in 1..n /\ i <= f[r]
    BY <1>3
  <2> HIDE <1>3
  <2>2. ASSUME NEW p \in Reqs \X (1..n), p[2] <= f[p[1]] PROVE p \in A \cup B
    <3>1. p = <<p[1], p[2]>> /\ p[1] \in Reqs /\ p[2] \in 1..n
      OBVIOUS
    <3>2. CASE p[1] = r
      <4>1. p[2] \in 1..f[r]
        BY <2>1, <2>2, <3>1, <3>2
      <4> QED
        BY <3>1, <3>2, <4>1
    <3>3. CASE p[1] # r
      BY <2>2, <3>3
    <3> QED
      BY <3>2, <3>3
  <2>3. ASSUME NEW p \in B PROVE p \in Reqs \X (1..n) /\ p[2] <= f[p[1]]
    <3>1. p = <<p[1], p[2]>> /\ p[1] = r /\ p[2] \in 1..f[r]
      OBVIOUS
    <3>2. p[2] \in 1..n /\ p[2] <= f[r]
      BY <2>1, <3>1
    <3> QED
      BY <3>1, <3>2
  <2> QED
    BY <2>2, <2>3
<1>9. Cardinality({}) = 0
  BY FS_EmptySet
<1>10. Cardinality(A \cup B) = Cardinality(A) + Cardinality(B) - Cardinality(A \cap B)
  BY <1>2, <1>6, FS_Union
<1>11. Cardinality(A) \in Nat
  BY <1>2, FS_CardinalityType
<1> HIDE DEF A, B
<1>12. Total(f, n) = Cardinality(A \cup B)
  BY <1>8 DEF Total
<1>13. Cardinality(A \cap B) = 0 /\ Cardinality(B) = f[r]
  BY <1>3, <1>6, <1>7, <1>9
<1>14. Total(f, n) = Cardinality(A) + f[r]
  BY <1>3, <1>10, <1>11, <1>12, <1>13
<1> QED
  BY <1>14 DEF A

\* Two functions that differ only at r have sums that differ as they do at r.
LEMMA TotalShift ==
    ASSUME NEW n \in Nat, NEW f \in [Reqs -> Nat], NEW g \in [Reqs -> Nat],
           NEW r \in Reqs, f[r] <= n, g[r] <= n, \A s \in Reqs : s # r => g[s] = f[s]
    PROVE  Total(f, n) + g[r] = Total(g, n) + f[r]
<1> DEFINE A(h) == {p \in Reqs \X (1..n) : p[1] # r /\ p[2] <= h[p[1]]}
<1>1. A(f) = A(g)
  OBVIOUS
<1>2. Total(f, n) = Cardinality(A(f)) + f[r] /\ Total(g, n) = Cardinality(A(f)) + g[r]
  BY <1>1, TotalSplit
<1>3. IsFiniteSet(Reqs \X (1..n))
  BY HttpProxyAssumption, FS_Product, FS_Interval, 1 \in Int, n \in Int
<1>4. IsFiniteSet(A(f))
  BY <1>3, FS_Subset
<1>5. Cardinality(A(f)) \in Nat
  BY <1>4, FS_CardinalityType
<1> HIDE DEF A
<1>6. f[r] \in Nat /\ g[r] \in Nat
  OBVIOUS
<1> QED
  BY <1>2, <1>5, <1>6

----------------------------------------------------------------------------
(* Sequences of consecutive units *)

\* The next unit behind a run of units continues it.
LEMMA FollowAppend ==
    ASSUME NEW S, NEW s \in Seq(S), NEW n \in Nat, Follow(s, n)
    PROVE  /\ Follow(Append(s, n + Len(s) + 1), n)
           /\ Len(Append(s, n + Len(s) + 1)) = Len(s) + 1
<1>1. Len(s) \in Nat /\ DOMAIN s = 1..Len(s)
  BY LenProperties
<1>2. \A i \in 1..Len(s) : s[i] = n + i
  BY DEF Follow
<1>3. Append(s, n + Len(s) + 1) = [i \in 1..Len(s) + 1 |-> IF i <= Len(s) THEN s[i] ELSE n + Len(s) + 1]
  BY <1>1
<1>4. Append(s, n + Len(s) + 1) = [i \in 1..Len(s) + 1 |-> n + i]
  BY <1>1, <1>2, <1>3
<1>5. Len(Append(s, n + Len(s) + 1)) = Len(s) + 1
  BY <1>1
<1> QED
  BY <1>4, <1>5 DEF Follow

\* A run without its first unit begins one later.
LEMMA FollowTail ==
    ASSUME NEW S, NEW s \in Seq(S), NEW n \in Nat, Follow(s, n), s # <<>>
    PROVE  /\ Head(s) = n + 1
           /\ Follow(Tail(s), n + 1) /\ Len(Tail(s)) = Len(s) - 1
           /\ Len(s) > 0
<1>1. Len(s) \in Nat /\ Len(s) # 0 /\ DOMAIN s = 1..Len(s)
  BY LenProperties, EmptySeq
<1>2. \A i \in 1..Len(s) : s[i] = n + i
  BY DEF Follow
<1>3. Head(s) = n + 1
  BY <1>1, <1>2
<1>4. /\ Tail(s) \in Seq(S) /\ Len(Tail(s)) = Len(s) - 1
      /\ \A i \in 1..Len(Tail(s)) : Tail(s)[i] = s[i + 1]
  BY HeadTailProperties
<1>5. Tail(s) = [i \in 1..Len(Tail(s)) |-> Tail(s)[i]]
  BY <1>4, LenProperties
<1>6. \A i \in 1..Len(Tail(s)) : Tail(s)[i] = n + 1 + i
  BY <1>1, <1>2, <1>4
<1>7. Tail(s) = [i \in 1..Len(Tail(s)) |-> n + 1 + i]
  BY <1>5, <1>6
<1> QED
  BY <1>1, <1>3, <1>4, <1>7 DEF Follow

----------------------------------------------------------------------------
(* Each action changes one request, and keeps what is known of it *)

\* Only request r changes, and what is known of it is kept.
Kept(r) ==
    /\ req' = [req EXCEPT ![r] = req'[r]]
    /\ req'[r] \in Request /\ ReqInv(req'[r])

\* The response is as it was.
LEMMA ResponseFrame ==
    ASSUME NEW p, NEW q, ResponseInv(p), q.buf = p.buf, q.nread = p.nread,
           q.out = p.out, q.got = p.got, q.size = p.size
    PROVE  ResponseInv(q)
BY DEF ResponseInv

\* CheckMiddleware answers and nothing is read.
LEMMA HealthCheckKeeps ==
    ASSUME Typed, NEW r \in Reqs, ReqInv(req[r]), HealthCheck(r)
    PROVE  Kept(r) /\ req'[r] = [req[r] EXCEPT !.at = "done"]
<1>1. /\ req' = [req EXCEPT ![r] = req'[r]] /\ req[r] \in Request
      /\ req'[r] = [req[r] EXCEPT !.at = "done"]
      /\ req[r].at = "new"
  BY DEF Typed, HealthCheck
<1>2. req'[r] \in Request
  BY <1>1 DEF Request
<1>3. ResponseInv(req'[r])
  BY <1>1, ResponseFrame DEF ReqInv, Request
<1>4. StageInv(req'[r])
  BY <1>1 DEF ReqInv, StageInv, Request
<1>5. BodyInv(req'[r])
  BY <1>1 DEF ReqInv, BodyInv, Request
<1> QED
  BY <1>1, <1>2, <1>3, <1>4, <1>5 DEF Kept, ReqInv

\* RoundTrip wraps a body nothing was read of.
LEMMA RoundTripKeeps ==
    ASSUME Typed, NEW r \in Reqs, ReqInv(req[r]), NEW body \in {"none", "open"},
           RoundTrip(r, body)
    PROVE  Kept(r) /\ req'[r] = [req[r] EXCEPT !.at = "trip", !.body = body]
<1>1. /\ req' = [req EXCEPT ![r] = req'[r]] /\ req[r] \in Request
      /\ req'[r] = [req[r] EXCEPT !.at = "trip", !.body = body]
      /\ req[r].at = "new"
  BY DEF Typed, RoundTrip
<1>2. req'[r] \in Request
  BY <1>1 DEF Request
<1>3. ResponseInv(req'[r])
  BY <1>1, ResponseFrame DEF ReqInv, Request
<1>4. StageInv(req'[r])
  BY <1>1 DEF ReqInv, StageInv, Request
<1>5. BodyInv(req'[r])
  BY <1>1 DEF ReqInv, BodyInv, Request
<1> QED
  BY <1>1, <1>2, <1>3, <1>4, <1>5 DEF Kept, ReqInv

\* A Read of the request body gets ahead of bytesRead by one unit ...
LEMMA BodyTakeKeeps ==
    ASSUME Typed, NEW r \in Reqs, ReqInv(req[r]), BodyTake(r)
    PROVE  Kept(r) /\ req'[r] = [req[r] EXCEPT !.taken = @ + 1]
<1>1. /\ req' = [req EXCEPT ![r] = req'[r]] /\ req[r] \in Request
      /\ req'[r] = [req[r] EXCEPT !.taken = @ + 1]
      /\ req[r].body = "open" /\ req[r].taken = req[r].counted
  BY DEF Typed, BodyTake
<1>2. req[r].taken + 1 \in 0..BodyUnits
  BY <1>1, HttpProxyAssumption DEF Request, BodyTake, ReqInv, BodyInv
<1>3. req'[r] \in Request
  BY <1>1, <1>2 DEF Request
<1>4. ResponseInv(req'[r])
  BY <1>1, ResponseFrame DEF ReqInv, Request
<1>5. StageInv(req'[r])
  BY <1>1 DEF ReqInv, StageInv, Request
<1>6. BodyInv(req'[r])
  BY <1>1 DEF ReqInv, BodyInv, Request
<1> QED
  BY <1>1, <1>3, <1>4, <1>5, <1>6 DEF Kept, ReqInv

\* ... and bytesRead catches up, perhaps after a Close.
LEMMA BodyAddKeeps ==
    ASSUME Typed, NEW r \in Reqs, ReqInv(req[r]), BodyAdd(r)
    PROVE  Kept(r) /\ req'[r] = [req[r] EXCEPT !.counted = req[r].taken]
<1>1. /\ req' = [req EXCEPT ![r] = req'[r]] /\ req[r] \in Request
      /\ req'[r] = [req[r] EXCEPT !.counted = req[r].taken]
      /\ req[r].counted < req[r].taken
  BY DEF Typed, BodyAdd
<1>2. req'[r] \in Request
  BY <1>1 DEF Request
<1>3. ResponseInv(req'[r])
  BY <1>1, ResponseFrame DEF ReqInv, Request
<1>4. StageInv(req'[r])
  BY <1>1 DEF ReqInv, StageInv, Request
<1>5. BodyInv(req'[r])
  BY <1>1 DEF ReqInv, BodyInv, Request
<1> QED
  BY <1>1, <1>2, <1>3, <1>4, <1>5 DEF Kept, ReqInv

\* A Close, the first or the second, ends the Reads.
LEMMA BodyCloseKeeps ==
    ASSUME Typed, NEW r \in Reqs, ReqInv(req[r]), BodyClose(r)
    PROVE  Kept(r) /\ req'[r] = [req[r] EXCEPT !.body = "closed", !.closes = @ + 1]
<1>1. /\ req' = [req EXCEPT ![r] = req'[r]] /\ req[r] \in Request
      /\ req'[r] = [req[r] EXCEPT !.body = "closed", !.closes = @ + 1]
      /\ req[r].body \in {"open", "dropped"}
  BY DEF Typed, BodyClose
<1>2. req[r].closes + 1 \in 0..2
  BY <1>1 DEF Request, ReqInv, BodyInv
<1>3. req'[r] \in Request
  BY <1>1, <1>2 DEF Request
<1>4. ResponseInv(req'[r])
  BY <1>1, ResponseFrame DEF ReqInv, Request
<1>5. StageInv(req'[r])
  BY <1>1 DEF ReqInv, StageInv, Request
<1>6. BodyInv(req'[r])
  BY <1>1 DEF ReqInv, BodyInv, Request
<1> QED
  BY <1>1, <1>3, <1>4, <1>5, <1>6 DEF Kept, ReqInv

\* A request that fails during the upload closes its body for the first time.
LEMMA TripDropsKeeps ==
    ASSUME Typed, NEW r \in Reqs, ReqInv(req[r]), TripDrops(r)
    PROVE  Kept(r) /\ req'[r] = [req[r] EXCEPT !.at = "done", !.res = "failed",
                                              !.body = "dropped", !.closes = @ + 1]
<1>1. /\ req' = [req EXCEPT ![r] = req'[r]] /\ req[r] \in Request
      /\ req'[r] = [req[r] EXCEPT !.at = "done", !.res = "failed",
                                  !.body = "dropped", !.closes = @ + 1]
      /\ req[r].at = "trip" /\ req[r].body = "open"
  BY DEF Typed, TripDrops
<1>2. req[r].closes = 0
  BY <1>1 DEF ReqInv, BodyInv
<1>3. req'[r] \in Request
  <2>1. /\ req'[r] = [req[r] EXCEPT !.at = "done", !.res = "failed", !.body = "dropped",
                                   !.closes = 1]
        /\ 1 \in 0..2
    BY <1>1, <1>2
  <2> QED
    BY <1>1, <2>1 DEF Request
<1>4. ResponseInv(req'[r])
  BY <1>1, ResponseFrame DEF ReqInv, Request
<1>5. StageInv(req'[r])
  BY <1>1 DEF ReqInv, StageInv, Request
<1>6. BodyInv(req'[r])
  BY <1>1, <1>2 DEF ReqInv, BodyInv, Request
<1> QED
  BY <1>1, <1>3, <1>4, <1>5, <1>6 DEF Kept, ReqInv

\* A request that fails has handed nothing on.
LEMMA TripFailsKeeps ==
    ASSUME Typed, NEW r \in Reqs, ReqInv(req[r]), TripFails(r)
    PROVE  Kept(r) /\ req'[r] = [req[r] EXCEPT !.at = "done", !.res = "failed"]
<1>1. /\ req' = [req EXCEPT ![r] = req'[r]] /\ req[r] \in Request
      /\ req'[r] = [req[r] EXCEPT !.at = "done", !.res = "failed"]
      /\ req[r].at = "trip"
  BY DEF Typed, TripFails
<1>2. req'[r] \in Request
  BY <1>1 DEF Request
<1>3. ResponseInv(req'[r])
  BY <1>1, ResponseFrame DEF ReqInv, Request
<1>4. StageInv(req'[r])
  BY <1>1 DEF ReqInv, StageInv, Request
<1>5. BodyInv(req'[r])
  BY <1>1 DEF ReqInv, BodyInv, Request
<1> QED
  BY <1>1, <1>2, <1>3, <1>4, <1>5 DEF Kept, ReqInv

\* The copy begins with the prefix ...
LEMMA PrefixDoneKeeps ==
    ASSUME Typed, NEW r \in Reqs, ReqInv(req[r]), PrefixDone(r)
    PROVE  Kept(r) /\ req'[r] = [req[r] EXCEPT !.at = "copy"]
<1>1. /\ req' = [req EXCEPT ![r] = req'[r]] /\ req[r] \in Request
      /\ req'[r] = [req[r] EXCEPT !.at = "copy"]
      /\ req[r].at = "prefix"
  BY DEF Typed, PrefixDone
<1>2. req'[r] \in Request
  BY <1>1 DEF Request
<1>3. ResponseInv(req'[r])
  BY <1>1, ResponseFrame DEF ReqInv, Request
<1>4. StageInv(req'[r])
  BY <1>1 DEF ReqInv, StageInv, Request
<1>5. BodyInv(req'[r])
  BY <1>1 DEF ReqInv, BodyInv, Request
<1> QED
  BY <1>1, <1>2, <1>3, <1>4, <1>5 DEF Kept, ReqInv

\* ... and so it does after a failure.
LEMMA PrefixFailsKeeps ==
    ASSUME Typed, NEW r \in Reqs, ReqInv(req[r]), PrefixFails(r)
    PROVE  Kept(r) /\ req'[r] = [req[r] EXCEPT !.at = "broken"]
<1>1. /\ req' = [req EXCEPT ![r] = req'[r]] /\ req[r] \in Request
      /\ req'[r] = [req[r] EXCEPT !.at = "broken"]
      /\ req[r].at = "prefix"
  BY DEF Typed, PrefixFails
<1>2. req'[r] \in Request
  BY <1>1 DEF Request
<1>3. ResponseInv(req'[r])
  BY <1>1, ResponseFrame DEF ReqInv, Request
<1>4. StageInv(req'[r])
  BY <1>1 DEF ReqInv, StageInv, Request
<1>5. BodyInv(req'[r])
  BY <1>1 DEF ReqInv, BodyInv, Request
<1> QED
  BY <1>1, <1>2, <1>3, <1>4, <1>5 DEF Kept, ReqInv

\* A response begins with nothing read of it.
LEMMA TripAnswersKeeps ==
    ASSUME Typed, NEW r \in Reqs, ReqInv(req[r]), NEW n \in 0..RespUnits, TripAnswers(r, n)
    PROVE  Kept(r) /\ \E to \in {"prefix", "copy"} :
                         req'[r] = [req[r] EXCEPT !.size = n, !.at = to]
<1> DEFINE to == IF ShowContent THEN "prefix" ELSE "copy"
<1>1. to \in {"prefix", "copy"}
  OBVIOUS
<1>2. /\ req' = [req EXCEPT ![r] = req'[r]] /\ req[r] \in Request
      /\ req'[r] = [req[r] EXCEPT !.size = n, !.at = to]
      /\ req[r].at = "trip"
  BY DEF Typed, TripAnswers
<1> HIDE DEF to
<1>3. req'[r] \in Request
  BY <1>1, <1>2 DEF Request
<1>4. /\ Follow(req[r].out, 0) /\ Follow(req[r].buf, req[r].nread)
      /\ req[r].got = req[r].nread + Len(req[r].buf) /\ req[r].got = 0
      /\ Len(req[r].buf) <= MaxLogged
  BY <1>2 DEF ReqInv, ResponseInv, StageInv
<1>5. req[r].got <= n
  BY <1>4
<1>6. /\ req'[r].out = req[r].out /\ req'[r].buf = req[r].buf /\ req'[r].size = n
      /\ req'[r].nread = req[r].nread /\ req'[r].got = req[r].got
  BY <1>2 DEF Request
<1>7. ResponseInv(req'[r])
  BY <1>4, <1>5, <1>6 DEF ResponseInv
<1>8. StageInv(req'[r])
  BY <1>1, <1>2 DEF ReqInv, StageInv, Request
<1>9. BodyInv(req'[r])
  BY <1>1, <1>2 DEF ReqInv, BodyInv, Request
<1> QED
  BY <1>1, <1>2, <1>3, <1>7, <1>8, <1>9 DEF Kept, ReqInv

\* A unit read for the log goes behind the prefix, within the limit.
LEMMA PrefixReadKeeps ==
    ASSUME Typed, NEW r \in Reqs, ReqInv(req[r]), PrefixRead(r)
    PROVE  Kept(r) /\ req'[r] = [req[r] EXCEPT !.buf = Append(@, req[r].got + 1), !.got = @ + 1]
<1>1. /\ req' = [req EXCEPT ![r] = req'[r]] /\ req[r] \in Request
      /\ req'[r] = [req[r] EXCEPT !.buf = Append(@, req[r].got + 1), !.got = @ + 1]
      /\ req[r].at = "prefix"
  BY DEF Typed, PrefixRead
<1>2. Len(req[r].buf) < MaxLogged /\ req[r].got < req[r].size
  BY DEF PrefixRead, Room
<1>3. /\ req[r].got \in Nat /\ req[r].size \in 0..RespUnits /\ req[r].nread \in Nat
      /\ req[r].buf \in Seq(1..RespUnits)
  BY <1>1 DEF Request
<1>4. Len(req[r].buf) \in Nat
  BY <1>3, LenProperties
<1>5. req[r].got + 1 \in 1..RespUnits
  BY <1>2, <1>3, HttpProxyAssumption
<1>6. Append(req[r].buf, req[r].got + 1) \in Seq(1..RespUnits)
  BY <1>3, <1>5, AppendProperties
<1>7. req[r].got + 1 \in 0..RespUnits
  BY <1>5
<1>8. req'[r] \in Request
  <2> DEFINE b == Append(req[r].buf, req[r].got + 1)
             g == req[r].got + 1
  <2>1. /\ req'[r] = [req[r] EXCEPT !.buf = b, !.got = g]
        /\ b \in Seq(1..RespUnits) /\ g \in 0..RespUnits
    BY <1>1, <1>6, <1>7
  <2> HIDE DEF b, g
  <2> QED
    BY <1>1, <2>1 DEF Request
<1>9. /\ Follow(req[r].out, 0) /\ Follow(req[r].buf, req[r].nread)
      /\ req[r].got = req[r].nread + Len(req[r].buf)
  BY DEF ReqInv, ResponseInv
<1>10. /\ Follow(Append(req[r].buf, req[r].got + 1), req[r].nread)
      /\ Len(Append(req[r].buf, req[r].got + 1)) = Len(req[r].buf) + 1
  BY <1>3, <1>9, FollowAppend
<1>11. /\ req'[r].out = req[r].out /\ req'[r].buf = Append(req[r].buf, req[r].got + 1)
      /\ req'[r].nread = req[r].nread /\ req'[r].got = req[r].got + 1
      /\ req'[r].size = req[r].size
  BY <1>1 DEF Request
<1>12. /\ req[r].got + 1 = req[r].nread + (Len(req[r].buf) + 1)
      /\ req[r].got + 1 <= req[r].size /\ Len(req[r].buf) + 1 <= MaxLogged
  <2> DEFINE n == Len(req[r].buf)
  <2>1. /\ n \in Nat /\ n < MaxLogged /\ req[r].got = req[r].nread + n
        /\ req[r].nread \in Nat /\ req[r].size \in Nat /\ req[r].got < req[r].size
    BY <1>2, <1>4, <1>3, <1>9
  <2> HIDE DEF n
  <2>2. /\ req[r].got + 1 = req[r].nread + (n + 1)
        /\ req[r].got + 1 <= req[r].size /\ n + 1 <= MaxLogged
    BY <2>1, HttpProxyAssumption
  <2> QED
    BY <2>2 DEF n
<1>13. ResponseInv(req'[r])
  BY <1>9, <1>10, <1>11, <1>12 DEF ResponseInv
<1>14. StageInv(req'[r])
  BY <1>1 DEF ReqInv, StageInv, Request
<1>15. BodyInv(req'[r])
  BY <1>1 DEF ReqInv, BodyInv, Request
<1> QED
  BY <1>1, <1>8, <1>13, <1>14, <1>15 DEF Kept, ReqInv

\* The Write of the unit that was read begins.
LEMMA WriteBegins ==
    ASSUME NEW p \in Request, StageInv(p), p.at \in {"copy", "broken"}, p.unit = 0,
           NEW q, q.at = p.at, q.res = p.res, q.out = p.out,
           q.nread = p.nread + 1, q.unit = p.nread + 1
    PROVE  StageInv(q)
<1>1. p.nread \in Nat /\ Len(p.out) = p.nread /\ p.res \notin {"whole", "cut"}
  BY DEF StageInv, Request
<1> QED
  BY <1>1 DEF StageInv

\* A unit of the prefix is handed on, in its turn.
LEMMA CopyPrefixKeeps ==
    ASSUME Typed, NEW r \in Reqs, ReqInv(req[r]), CopyPrefix(r)
    PROVE  Kept(r) /\ req'[r] = [req[r] EXCEPT !.unit = Head(req[r].buf), !.buf = Tail(@),
                                              !.nread = @ + 1]
<1>1. /\ req' = [req EXCEPT ![r] = req'[r]] /\ req[r] \in Request
      /\ req'[r] = [req[r] EXCEPT !.unit = Head(req[r].buf), !.buf = Tail(@), !.nread = @ + 1]
      /\ req[r].at \in {"copy", "broken"} /\ req[r].unit = 0 /\ req[r].buf # <<>>
  BY DEF Typed, CopyPrefix, Reading
<1>2. /\ req[r].got \in 0..RespUnits /\ req[r].size \in 0..RespUnits
      /\ req[r].nread \in 0..RespUnits /\ req[r].buf \in Seq(1..RespUnits)
  BY <1>1 DEF Request
<1>3. Len(req[r].buf) \in Nat
  BY <1>2, LenProperties
<1>4. /\ Follow(req[r].out, 0) /\ Follow(req[r].buf, req[r].nread)
      /\ req[r].got = req[r].nread + Len(req[r].buf) /\ req[r].got <= req[r].size
      /\ Len(req[r].buf) <= MaxLogged
  BY DEF ReqInv, ResponseInv
<1>5. /\ Head(req[r].buf) = req[r].nread + 1 /\ Len(req[r].buf) > 0
      /\ Follow(Tail(req[r].buf), req[r].nread + 1)
      /\ Len(Tail(req[r].buf)) = Len(req[r].buf) - 1
  BY <1>1, <1>2, <1>4, FollowTail
<1>6. req[r].nread + 1 \in 1..RespUnits
  BY <1>2, <1>3, <1>4, <1>5, HttpProxyAssumption
<1>7. Tail(req[r].buf) \in Seq(1..RespUnits)
  BY <1>1, <1>2, HeadTailProperties
<1>8. req'[r] \in Request
  <2> DEFINE b == Tail(req[r].buf)
             n == req[r].nread + 1
             u == Head(req[r].buf)
  <2>1. /\ req'[r] = [req[r] EXCEPT !.unit = u, !.buf = b, !.nread = n]
        /\ b \in Seq(1..RespUnits) /\ n \in 0..RespUnits /\ u \in 0..RespUnits
    BY <1>1, <1>5, <1>6, <1>7
  <2> HIDE DEF b, n, u
  <2>2. [req[r] EXCEPT !.unit = u] \in Request
    BY <1>1, <2>1 DEF Request
  <2>3. req'[r] = [[req[r] EXCEPT !.unit = u] EXCEPT !.buf = b, !.nread = n]
    BY <1>1, <2>1 DEF Request
  <2> QED
    BY <2>1, <2>2, <2>3 DEF Request
<1>9. /\ req'[r].out = req[r].out /\ req'[r].buf = Tail(req[r].buf)
      /\ req'[r].nread = req[r].nread + 1 /\ req'[r].got = req[r].got
      /\ req'[r].size = req[r].size /\ req'[r].unit = req[r].nread + 1
      /\ req'[r].at = req[r].at /\ req'[r].res = req[r].res
  BY <1>1, <1>5 DEF Request
<1>10. /\ req[r].got = (req[r].nread + 1) + (Len(req[r].buf) - 1)
       /\ Len(req[r].buf) - 1 <= MaxLogged
  <2> DEFINE n == Len(req[r].buf)
  <2>1. n \in Nat /\ n <= MaxLogged /\ req[r].got = req[r].nread + n
    BY <1>3, <1>4
  <2> HIDE DEF n
  <2>2. req[r].got = (req[r].nread + 1) + (n - 1) /\ n - 1 <= MaxLogged
    BY <1>2, <2>1, HttpProxyAssumption
  <2> QED
    BY <2>2 DEF n
<1>11. ResponseInv(req'[r])
  BY <1>4, <1>5, <1>9, <1>10 DEF ResponseInv
<1>12. StageInv(req'[r])
  BY <1>1, <1>6, <1>9, WriteBegins DEF ReqInv
<1>13. BodyInv(req'[r])
  BY <1>1 DEF ReqInv, BodyInv, Request
<1> QED
  BY <1>1, <1>8, <1>11, <1>12, <1>13 DEF Kept, ReqInv

\* Behind the prefix, a unit comes from the backend.
LEMMA CopyRestKeeps ==
    ASSUME Typed, NEW r \in Reqs, ReqInv(req[r]), CopyRest(r)
    PROVE  Kept(r) /\ req'[r] = [req[r] EXCEPT !.unit = req[r].got + 1, !.got = @ + 1,
                                              !.nread = @ + 1]
<1>1. /\ req' = [req EXCEPT ![r] = req'[r]] /\ req[r] \in Request
      /\ req'[r] = [req[r] EXCEPT !.unit = req[r].got + 1, !.got = @ + 1, !.nread = @ + 1]
      /\ req[r].at = "copy" /\ req[r].unit = 0 /\ req[r].buf = <<>>
      /\ req[r].got < req[r].size
  BY DEF Typed, CopyRest, Reading
<1>2. /\ req[r].got \in 0..RespUnits /\ req[r].size \in 0..RespUnits
      /\ req[r].nread \in 0..RespUnits
  BY <1>1 DEF Request
<1>3. Len(req[r].buf) = 0
  BY <1>1
<1>4. /\ Follow(req[r].out, 0) /\ req[r].got = req[r].nread + Len(req[r].buf)
      /\ Len(req[r].buf) <= MaxLogged
  BY DEF ReqInv, ResponseInv
<1>5. req[r].got = req[r].nread /\ req[r].got + 1 <= req[r].size
  BY <1>1, <1>2, <1>3, <1>4
<1>6. req[r].nread + 1 \in 1..RespUnits
  BY <1>2, <1>5, HttpProxyAssumption
<1>7. req'[r] \in Request
  <2> DEFINE n == req[r].nread + 1
  <2>1. req'[r] = [req[r] EXCEPT !.unit = n, !.got = n, !.nread = n] /\ n \in 0..RespUnits
    BY <1>1, <1>5, <1>6
  <2> HIDE DEF n
  <2>2. [req[r] EXCEPT !.unit = n] \in Request
    BY <1>1, <2>1 DEF Request
  <2>3. req'[r] = [[req[r] EXCEPT !.unit = n] EXCEPT !.got = n, !.nread = n]
    BY <1>1, <2>1 DEF Request
  <2> QED
    BY <2>1, <2>2, <2>3 DEF Request
<1>8. /\ req'[r].out = req[r].out /\ req'[r].buf = <<>>
      /\ req'[r].nread = req[r].nread + 1 /\ req'[r].got = req[r].nread + 1
      /\ req'[r].size = req[r].size /\ req'[r].unit = req[r].nread + 1
      /\ req'[r].at = req[r].at /\ req'[r].res = req[r].res
  BY <1>1, <1>5 DEF Request
<1>9. Follow(<<>>, req[r].nread + 1)
  BY DEF Follow
<1>10. req[r].nread + 1 = (req[r].nread + 1) + 0
  BY <1>2
<1>11. ResponseInv(req'[r])
  BY <1>1, <1>3, <1>4, <1>5, <1>8, <1>9, <1>10 DEF ResponseInv
<1>12. StageInv(req'[r])
  BY <1>1, <1>6, <1>8, WriteBegins DEF ReqInv
<1>13. BodyInv(req'[r])
  BY <1>1 DEF ReqInv, BodyInv, Request
<1> QED
  BY <1>1, <1>7, <1>11, <1>12, <1>13 DEF Kept, ReqInv

\* The client receives the unit after its last.
LEMMA ClientTakesKeeps ==
    ASSUME Typed, NEW r \in Reqs, ReqInv(req[r]), ClientTakes(r)
    PROVE  Kept(r) /\ req'[r] = [req[r] EXCEPT !.out = Append(@, req[r].unit), !.unit = 0]
<1>1. /\ req' = [req EXCEPT ![r] = req'[r]] /\ req[r] \in Request
      /\ req'[r] = [req[r] EXCEPT !.out = Append(@, req[r].unit), !.unit = 0]
      /\ req[r].at \in {"copy", "broken"} /\ req[r].unit # 0
  BY DEF Typed, ClientTakes, Writing
<1>2. /\ req[r].out \in Seq(1..RespUnits) /\ req[r].unit \in 1..RespUnits
      /\ req[r].nread \in Nat
  BY <1>1 DEF Request
<1>3. Len(req[r].out) \in Nat
  BY <1>2, LenProperties
<1>4. /\ req[r].unit = req[r].nread /\ req[r].nread = Len(req[r].out) + 1
      /\ req[r].res \notin {"whole", "cut"}
  BY <1>1 DEF ReqInv, StageInv
<1>5. Append(req[r].out, req[r].unit) \in Seq(1..RespUnits)
  BY <1>2, AppendProperties
<1>6. req'[r] \in Request
  <2> DEFINE o == Append(req[r].out, req[r].unit)
  <2>1. /\ req'[r] = [req[r] EXCEPT !.out = o, !.unit = 0] /\ o \in Seq(1..RespUnits)
        /\ 0 \in 0..RespUnits
    BY <1>1, <1>5, HttpProxyAssumption
  <2> HIDE DEF o
  <2> QED
    BY <1>1, <2>1 DEF Request
<1>7. /\ Follow(req[r].out, 0) /\ Follow(req[r].buf, req[r].nread)
      /\ req[r].got = req[r].nread + Len(req[r].buf) /\ req[r].got <= req[r].size
      /\ Len(req[r].buf) <= MaxLogged
  BY DEF ReqInv, ResponseInv
<1>8. req[r].unit = 0 + Len(req[r].out) + 1
  BY <1>3, <1>4
<1>9. /\ Follow(Append(req[r].out, req[r].unit), 0)
      /\ Len(Append(req[r].out, req[r].unit)) = req[r].nread
  BY <1>2, <1>4, <1>7, <1>8, FollowAppend
<1>10. /\ req'[r].out = Append(req[r].out, req[r].unit) /\ req'[r].buf = req[r].buf
       /\ req'[r].nread = req[r].nread /\ req'[r].got = req[r].got
       /\ req'[r].size = req[r].size /\ req'[r].unit = 0
       /\ req'[r].at = req[r].at /\ req'[r].res = req[r].res
  BY <1>1 DEF Request
<1>11. ResponseInv(req'[r])
  BY <1>7, <1>9, <1>10 DEF ResponseInv
<1>12. StageInv(req'[r])
  BY <1>1, <1>2, <1>4, <1>9, <1>10 DEF StageInv
<1>13. BodyInv(req'[r])
  BY <1>1 DEF ReqInv, BodyInv, Request
<1> QED
  BY <1>1, <1>6, <1>11, <1>12, <1>13 DEF Kept, ReqInv

\* The end of the copy.
LEMMA CopyEndsKeeps ==
    ASSUME Typed, NEW r \in Reqs, ReqInv(req[r]), NEW how \in {"whole", "cut"},
           req[r].at \in {"copy", "broken"},
           how = "whole" => req[r].nread = req[r].size /\ Len(req[r].out) = req[r].size,
           CopyEnds(r, how)
    PROVE  /\ Kept(r) /\ req'[r].res = how /\ req'[r].out = req[r].out
           /\ req'[r].taken = req[r].taken /\ req'[r].closes = req[r].closes
<1>1. /\ req' = [req EXCEPT ![r] = req'[r]] /\ req[r] \in Request
      /\ req'[r] = [req[r] EXCEPT !.at = "done", !.res = how]
  BY DEF Typed, CopyEnds
<1>2. req'[r] \in Request
  BY <1>1 DEF Request
<1>3. ResponseInv(req'[r])
  BY <1>1, ResponseFrame DEF ReqInv, Request
<1>4. /\ req'[r].at = "done" /\ req'[r].res = how /\ req'[r].out = req[r].out
      /\ req'[r].nread = req[r].nread /\ req'[r].size = req[r].size
      /\ req'[r].unit = req[r].unit
      /\ req'[r].taken = req[r].taken /\ req'[r].closes = req[r].closes
      /\ req'[r].body = req[r].body /\ req'[r].counted = req[r].counted
  BY <1>1 DEF Request
<1>5. StageInv(req'[r])
  BY <1>4 DEF ReqInv, StageInv
<1>6. BodyInv(req'[r])
  BY <1>4 DEF ReqInv, BodyInv
<1> QED
  BY <1>1, <1>2, <1>3, <1>4, <1>5, <1>6 DEF Kept, ReqInv

----------------------------------------------------------------------------
(* The counters *)

\* What a request adds to the four sums, and that it stays below their bounds.
LEMMA Addends ==
    ASSUME NEW q \in Request, ReqInv(q)
    PROVE  /\ Len(q.out) \in Nat /\ Len(q.out) <= RespUnits
           /\ q.closes * q.taken \in Nat /\ q.closes * q.taken <= 2 * BodyUnits
           /\ q.taken \in Nat /\ q.closes \in Nat /\ q.closes <= 2
<1>1. /\ q.out \in Seq(1..RespUnits) /\ q.nread \in Nat /\ q.nread <= RespUnits
      /\ q.taken \in Nat /\ q.taken <= BodyUnits /\ q.closes \in 0..2
  BY HttpProxyAssumption DEF Request
<1>2. Len(q.out) \in Nat
  BY <1>1, LenProperties
<1>3. Len(q.out) <= q.nread
  BY DEF ReqInv, StageInv
<1>4. Len(q.out) <= RespUnits
  BY <1>1, <1>2, <1>3, HttpProxyAssumption
<1>5. q.closes = 0 \/ q.closes = 1 \/ q.closes = 2
  BY <1>1
<1>6. q.closes * q.taken \in Nat /\ q.closes * q.taken <= 2 * BodyUnits
  BY <1>1, <1>5, HttpProxyAssumption
<1> QED
  BY <1>1, <1>2, <1>4, <1>6

\* The sums move with the request that changes.
LEMMA SumsMove ==
    ASSUME Typed, NEW r \in Reqs, \A s \in Reqs : ReqInv(req[s]), Kept(r)
    PROVE  /\ Total(Handed, RespUnits) + Handed'[r] = Total(Handed', RespUnits) + Handed[r]
           /\ Total(Exact, 2 * BodyUnits) + Exact'[r] = Total(Exact', 2 * BodyUnits) + Exact[r]
           /\ Total(Missed, 2) + Missed'[r] = Total(Missed', 2) + Missed[r]
<1>1. /\ \A s \in Reqs : req[s] \in Request
      /\ \A s \in Reqs : s # r => req'[s] = req[s]
      /\ \A s \in Reqs : req'[s] \in Request /\ ReqInv(req'[s])
  BY DEF Typed, Kept
<1>2. /\ Handed \in [Reqs -> Nat] /\ Handed' \in [Reqs -> Nat]
      /\ Handed[r] <= RespUnits /\ Handed'[r] <= RespUnits
      /\ \A s \in Reqs : s # r => Handed'[s] = Handed[s]
  BY <1>1, Addends, HttpProxyAssumption DEF Handed
<1>3. /\ Exact \in [Reqs -> Nat] /\ Exact' \in [Reqs -> Nat]
      /\ Exact[r] <= 2 * BodyUnits /\ Exact'[r] <= 2 * BodyUnits
      /\ \A s \in Reqs : s # r => Exact'[s] = Exact[s]
  BY <1>1, Addends DEF Exact
<1>4. /\ Missed \in [Reqs -> Nat] /\ Missed' \in [Reqs -> Nat]
      /\ Missed[r] <= 2 /\ Missed'[r] <= 2
      /\ \A s \in Reqs : s # r => Missed'[s] = Missed[s]
  BY <1>1, Addends DEF Missed
<1>5. RespUnits \in Nat /\ 2 * BodyUnits \in Nat /\ 2 \in Nat
  BY HttpProxyAssumption
<1>6. Total(Handed, RespUnits) + Handed'[r] = Total(Handed', RespUnits) + Handed[r]
  BY <1>2, <1>5, TotalShift
<1>7. Total(Exact, 2 * BodyUnits) + Exact'[r] = Total(Exact', 2 * BodyUnits) + Exact[r]
  BY <1>3, <1>5, TotalShift
<1>8. Total(Missed, 2) + Missed'[r] = Total(Missed', 2) + Missed[r]
  BY <1>4, <1>5, TotalShift
<1> QED
  BY <1>6, <1>7, <1>8

\* The sums before and after a step are numbers.
LEMMA SumsNat ==
    /\ Total(Handed, RespUnits) \in Nat /\ Total(Handed', RespUnits) \in Nat
    /\ Total(Exact, 2 * BodyUnits) \in Nat /\ Total(Exact', 2 * BodyUnits) \in Nat
    /\ Total(Missed, 2) \in Nat /\ Total(Missed', 2) \in Nat
    /\ IsFiniteSet(Cut) /\ Cardinality(Cut) \in Nat
<1>1. RespUnits \in Nat /\ 2 * BodyUnits \in Nat /\ 2 \in Nat
  BY HttpProxyAssumption
<1>2. IsFiniteSet(Cut)
  BY HttpProxyAssumption, FS_Subset DEF Cut
<1>3. Cardinality(Cut) \in Nat
  BY <1>2, FS_CardinalityType
<1> QED
  BY <1>1, <1>2, <1>3, TotalNat

\* A step that adds nothing to any sum keeps the counters right.
LEMMA CountSame ==
    ASSUME Typed, NEW r \in Reqs, \A s \in Reqs : ReqInv(req[s]), Kept(r), SumsInv,
           Handed'[r] = Handed[r], Exact'[r] = Exact[r], Missed'[r] = Missed[r],
           req'[r].res = "cut" <=> req[r].res = "cut",
           UNCHANGED <<bytesTo, bytesFrom>>
    PROVE  SumsInv'
<1>1. Cut' = Cut
  <2>1. \A s \in Reqs : req'[s].res = "cut" <=> req[s].res = "cut"
    BY DEF Typed, Kept
  <2> QED
    BY <2>1 DEF Cut
<1>2. Handed[r] \in Nat /\ Exact[r] \in Nat /\ Missed[r] \in Nat
  BY Addends DEF Handed, Exact, Missed, Typed
<1>3. /\ Total(Handed', RespUnits) = Total(Handed, RespUnits)
      /\ Total(Exact', 2 * BodyUnits) = Total(Exact, 2 * BodyUnits)
      /\ Total(Missed', 2) = Total(Missed, 2)
  BY <1>2, SumsMove, SumsNat
<1> QED
  BY <1>1, <1>3 DEF SumsInv

\* A Close of the request body adds what was counted, which is what was taken
\* or one less.
LEMMA CountClose ==
    ASSUME Typed, NEW r \in Reqs, \A s \in Reqs : ReqInv(req[s]), SumsInv,
           Kept(r), req[r].closes < 2, req'[r].closes = req[r].closes + 1,
           req'[r].taken = req[r].taken, req'[r].out = req[r].out,
           \/ req'[r].res = req[r].res
           \/ req'[r].res = "failed" /\ req[r].res \notin {"whole", "cut"},
           bytesTo' = bytesTo + req[r].counted, bytesFrom' = bytesFrom
    PROVE  SumsInv'
<1>1. Kept(r)
  OBVIOUS
<1>2. req[r] \in Request /\ req[r].closes < 2
  BY DEF Typed
<1>3. /\ req'[r].res = "cut" <=> req[r].res = "cut"
      /\ req'[r].res = "whole" <=> req[r].res = "whole"
      /\ req'[r].out = req[r].out
      /\ req'[r].taken = req[r].taken /\ req'[r].closes = req[r].closes + 1
  OBVIOUS
<1>4. Cut' = Cut
  <2>1. \A s \in Reqs : req'[s].res = "cut" <=> req[s].res = "cut"
    BY <1>1, <1>3 DEF Typed, Kept
  <2> QED
    BY <2>1 DEF Cut
<1>5. Handed'[r] = Handed[r] /\ Handed[r] \in Nat
  BY <1>2, <1>3, Addends DEF Handed
<1>6. /\ req[r].taken \in Nat /\ req[r].closes \in 0..1
      /\ req[r].counted \in Nat /\ req[r].counted <= req[r].taken
      /\ req[r].taken <= req[r].counted + 1
  BY <1>2, HttpProxyAssumption DEF Request, ReqInv, BodyInv
<1>7. /\ Exact'[r] = (req[r].closes + 1) * req[r].taken
      /\ Exact[r] = req[r].closes * req[r].taken
  BY <1>3 DEF Exact
<1>8. (req[r].closes = 0 \/ req[r].closes = 1)
  BY <1>6
<1>9. Exact'[r] = Exact[r] + req[r].taken /\ Exact[r] \in Nat
  BY <1>6, <1>7, <1>8
<1>10. /\ Missed'[r] = Missed[r] + (IF req[r].taken = 0 THEN 0 ELSE 1)
       /\ Missed[r] \in Nat
  BY <1>3, <1>6 DEF Missed
<1>11. bytesTo' = bytesTo + req[r].counted /\ bytesFrom' = bytesFrom /\ bytesTo \in Nat
  BY DEF Typed
<1>12. /\ Total(Handed', RespUnits) = Total(Handed, RespUnits)
       /\ Total(Exact', 2 * BodyUnits) = Total(Exact, 2 * BodyUnits) + req[r].taken
       /\ Total(Missed', 2) = Total(Missed, 2) + (IF req[r].taken = 0 THEN 0 ELSE 1)
  BY <1>1, <1>5, <1>6, <1>9, <1>10, SumsMove, SumsNat
<1>13. /\ bytesTo' <= Total(Exact', 2 * BodyUnits)
       /\ Total(Exact', 2 * BodyUnits) <= bytesTo' + Total(Missed', 2)
  BY <1>6, <1>11, <1>12, SumsNat DEF SumsInv
<1> QED
  BY <1>4, <1>11, <1>12, <1>13 DEF SumsInv

\* A request that hands n units to its client adds n to the received counter,
\* or one more if it is cut.
LEMMA CountHanded ==
    ASSUME Typed, NEW r \in Reqs, \A s \in Reqs : ReqInv(req[s]), Kept(r), SumsInv,
           NEW n \in Nat, NEW m \in Nat, Handed[r] = 0, Handed'[r] = n,
           Exact'[r] = Exact[r], Missed'[r] = Missed[r],
           bytesFrom' = bytesFrom + m, bytesTo' = bytesTo,
           \/ Cut' = Cut /\ m = n
           \/ Cut' = Cut \cup {r} /\ r \notin Cut /\ (m = n \/ m = n + 1)
    PROVE  SumsInv'
<1>1. Exact[r] \in Nat /\ Missed[r] \in Nat
  BY Addends DEF Exact, Missed, Typed
<1>2. /\ Total(Handed', RespUnits) = Total(Handed, RespUnits) + n
      /\ Total(Exact', 2 * BodyUnits) = Total(Exact, 2 * BodyUnits)
      /\ Total(Missed', 2) = Total(Missed, 2)
  BY <1>1, SumsMove, SumsNat
<1>3. bytesFrom \in Nat
  BY DEF Typed
<1>4. CASE Cut' = Cut /\ m = n
  <2>1. /\ Total(Handed', RespUnits) <= bytesFrom'
        /\ bytesFrom' <= Total(Handed', RespUnits) + Cardinality(Cut)
    BY <1>2, <1>3, <1>4, SumsNat DEF SumsInv
  <2> QED
    BY <1>2, <1>4, <2>1 DEF SumsInv
<1>5. CASE Cut' = Cut \cup {r} /\ r \notin Cut /\ (m = n \/ m = n + 1)
  <2>1. Cardinality(Cut') = Cardinality(Cut) + 1
    BY <1>5, SumsNat, FS_AddElement
  <2>2. /\ Total(Handed', RespUnits) <= bytesFrom'
        /\ bytesFrom' <= Total(Handed', RespUnits) + (Cardinality(Cut) + 1)
    BY <1>2, <1>3, <1>5, SumsNat DEF SumsInv
  <2> QED
    BY <1>2, <2>1, <2>2 DEF SumsInv
<1> QED
  BY <1>4, <1>5

\* The Close of the response body adds what the wrapper read.
LEMMA CountEnds ==
    ASSUME Typed, NEW r \in Reqs, \A s \in Reqs : ReqInv(req[s]), Kept(r), SumsInv,
           NEW how \in {"whole", "cut"}, CopyEnds(r, how),
           req[r].at # "done", req'[r].res = how, req'[r].out = req[r].out,
           req'[r].taken = req[r].taken, req'[r].closes = req[r].closes,
           \/ req[r].nread = Len(req[r].out)
           \/ how = "cut" /\ req[r].nread = Len(req[r].out) + 1
    PROVE  SumsInv'
<1>1. req[r] \in Request /\ req[r].res \notin {"whole", "cut"}
  BY DEF Typed, ReqInv, StageInv
<1>2. Len(req[r].out) \in Nat /\ req[r].nread \in Nat
  BY <1>1, Addends DEF Request
<1>3. Handed[r] = 0 /\ Handed'[r] = Len(req[r].out)
  BY <1>1 DEF Handed
<1>4. Exact'[r] = Exact[r] /\ Missed'[r] = Missed[r]
  BY DEF Exact, Missed
<1>5. bytesFrom' = bytesFrom + req[r].nread /\ bytesTo' = bytesTo
  BY DEF CopyEnds, OnCloseFrom
<1>6. \A s \in Reqs : s # r => req'[s] = req[s]
  BY DEF Typed, Kept
<1>7. CASE how = "whole"
  <2>1. Cut' = Cut
    BY <1>1, <1>6, <1>7 DEF Cut
  <2> QED
    BY <1>2, <1>3, <1>4, <1>5, <1>7, <2>1, CountHanded
<1>8. CASE how = "cut"
  <2>1. Cut' = Cut \cup {r} /\ r \notin Cut
    BY <1>1, <1>6, <1>8 DEF Cut
  <2> QED
    BY <1>2, <1>3, <1>4, <1>5, <2>1, CountHanded
<1> QED
  BY <1>7, <1>8

----------------------------------------------------------------------------
(* The invariant *)

\* An action that leaves the counters, the result and the sums of r alone.
LEMMA QuietStep ==
    ASSUME Inv, NEW r \in Reqs, Kept(r), UNCHANGED <<ShowContent, WriteTimed, bytesTo, bytesFrom, cancelled>>,
           Handed'[r] = Handed[r], Exact'[r] = Exact[r], Missed'[r] = Missed[r],
           req'[r].res = "cut" <=> req[r].res = "cut"
    PROVE  Inv'
<1>1. Typed' /\ \A s \in Reqs : ReqInv(req'[s])
  BY DEF Inv, Typed, Kept
<1>2. SumsInv'
  BY CountSame DEF Inv
<1> QED
  BY <1>1, <1>2 DEF Inv

\* Quiet, when the request neither ends nor ended and its body is not closed.
LEMMA PlainStep ==
    ASSUME Inv, NEW r \in Reqs, Kept(r), UNCHANGED <<ShowContent, WriteTimed, bytesTo, bytesFrom, cancelled>>,
           \/ req'[r].res \notin {"whole", "cut"} /\ req[r].at # "done"
           \/ req'[r].res = req[r].res /\ req'[r].out = req[r].out,
           req'[r].closes = req[r].closes,
           req'[r].taken = req[r].taken \/ req[r].closes = 0
    PROVE  Inv'
<1>1. req[r] \in Request /\ ReqInv(req[r]) /\ req'[r] \in Request /\ ReqInv(req'[r])
  BY DEF Inv, Typed, Kept
<1>2. /\ req[r].closes \in Nat /\ req[r].taken \in Nat /\ req'[r].taken \in Nat
  BY <1>1, Addends
<1>3. req[r].at # "done" => req[r].res \notin {"whole", "cut"}
  BY <1>1 DEF ReqInv, StageInv
<1>4. Handed'[r] = Handed[r]
  BY <1>3 DEF Handed
<1>5. req'[r].res = "cut" <=> req[r].res = "cut"
  BY <1>3
<1>6. Exact'[r] = Exact[r]
  BY <1>2 DEF Exact
<1>7. Missed'[r] = Missed[r]
  BY <1>2 DEF Missed
<1> QED
  BY <1>4, <1>5, <1>6, <1>7, QuietStep

\* Every step of a request keeps the invariant.
LEMMA HandleKeeps ==
    ASSUME Inv, NEW r \in Reqs, Handle(r)
    PROVE  Inv'
<1>1. Typed /\ req[r] \in Request /\ ReqInv(req[r]) /\ \A s \in Reqs : ReqInv(req[s])
  BY DEF Inv, Typed
<1>2. CASE HealthCheck(r)
  <2>1. Kept(r)
    BY <1>1, <1>2, HealthCheckKeeps
  <2>2. /\ req'[r].res = req[r].res /\ req'[r].out = req[r].out
        /\ req'[r].closes = req[r].closes /\ req'[r].taken = req[r].taken
    BY <1>1, <1>2, HealthCheckKeeps DEF Request
  <2>3. UNCHANGED <<ShowContent, WriteTimed, bytesTo, bytesFrom, cancelled>>
    BY <1>2 DEF HealthCheck
  <2> QED
    BY <2>1, <2>2, <2>3, PlainStep
<1>3. ASSUME NEW body \in {"none", "open"}, RoundTrip(r, body) PROVE Inv'
  <2>1. Kept(r)
    BY <1>1, <1>3, RoundTripKeeps
  <2>2. /\ req'[r].res = req[r].res /\ req'[r].out = req[r].out
        /\ req'[r].closes = req[r].closes /\ req'[r].taken = req[r].taken
    <3>1. req'[r] = [req[r] EXCEPT !.at = "trip", !.body = body]
      BY <1>1, <1>3, RoundTripKeeps
    <3> QED
      BY <1>1, <3>1 DEF Request
  <2>3. UNCHANGED <<ShowContent, WriteTimed, bytesTo, bytesFrom, cancelled>>
    BY <1>3 DEF RoundTrip
  <2> QED
    BY <2>1, <2>2, <2>3, PlainStep
<1>4. CASE BodyTake(r)
  <2>1. Kept(r)
    BY <1>1, <1>4, BodyTakeKeeps
  <2>2. /\ req'[r].res = req[r].res /\ req'[r].out = req[r].out
        /\ req'[r].closes = req[r].closes /\ req[r].closes = 0
    BY <1>1, <1>4, BodyTakeKeeps DEF Request, ReqInv, BodyInv, BodyTake
  <2>3. UNCHANGED <<ShowContent, WriteTimed, bytesTo, bytesFrom, cancelled>>
    BY <1>4 DEF BodyTake
  <2> QED
    BY <2>1, <2>2, <2>3, PlainStep
<1>5. CASE BodyAdd(r)
  <2>1. Kept(r)
    BY <1>1, <1>5, BodyAddKeeps
  <2>2. /\ req'[r].res = req[r].res /\ req'[r].out = req[r].out
        /\ req'[r].closes = req[r].closes /\ req'[r].taken = req[r].taken
    BY <1>1, <1>5, BodyAddKeeps DEF Request
  <2>3. UNCHANGED <<ShowContent, WriteTimed, bytesTo, bytesFrom, cancelled>>
    BY <1>5 DEF BodyAdd
  <2> QED
    BY <2>1, <2>2, <2>3, PlainStep
<1>6. CASE BodyClose(r)
  <2>1. Kept(r)
    BY <1>1, <1>6, BodyCloseKeeps
  <2>2. req'[r] = [req[r] EXCEPT !.body = "closed", !.closes = @ + 1]
    BY <1>1, <1>6, BodyCloseKeeps
  <2>3. /\ UNCHANGED <<ShowContent, WriteTimed, bytesFrom, cancelled>>
        /\ bytesTo' = bytesTo + req[r].counted /\ req[r].counted \in Nat
    BY <1>1, <1>6 DEF BodyClose, OnCloseTo, Request
  <2>4. /\ req'[r].closes = req[r].closes + 1 /\ req'[r].taken = req[r].taken
        /\ req'[r].out = req[r].out
    BY <1>1, <2>2 DEF Request
  <2>5. req[r].closes < 2
    BY <1>1, <1>6 DEF BodyClose, ReqInv, BodyInv
  <2>6. req'[r].res = req[r].res
    BY <1>1, <2>2 DEF Request
  <2>7. SumsInv'
    BY <1>1, <2>1, <2>3, <2>4, <2>5, <2>6, CountClose DEF Inv
  <2>8. Typed' /\ \A s \in Reqs : ReqInv(req'[s])
    BY <1>1, <2>1, <2>3 DEF Typed, Kept
  <2> QED
    BY <2>7, <2>8 DEF Inv
<1>7. CASE TripDrops(r)
  <2>1. Kept(r)
    BY <1>1, <1>7, TripDropsKeeps
  <2>2. req'[r] = [req[r] EXCEPT !.at = "done", !.res = "failed",
                                  !.body = "dropped", !.closes = @ + 1]
    BY <1>1, <1>7, TripDropsKeeps
  <2>3. /\ UNCHANGED <<ShowContent, WriteTimed, bytesFrom, cancelled>>
        /\ bytesTo' = bytesTo + req[r].counted /\ req[r].counted \in Nat
    BY <1>1, <1>7 DEF TripDrops, OnCloseTo, Request
  <2>4. /\ req'[r].closes = req[r].closes + 1 /\ req'[r].taken = req[r].taken
        /\ req'[r].out = req[r].out
    BY <1>1, <2>2 DEF Request
  <2>5. req[r].closes < 2
    BY <1>1, <1>7 DEF TripDrops, ReqInv, BodyInv
  <2>6. req'[r].res = "failed" /\ req[r].res \notin {"whole", "cut"}
    <3>1. req[r].at = "trip"
      BY <1>7 DEF TripDrops
    <3>2. req[r].res \notin {"whole", "cut"}
      BY <1>1, <3>1 DEF ReqInv, StageInv
    <3>3. req'[r].res = "failed"
      BY <1>1, <2>2 DEF Request
    <3> QED
      BY <3>2, <3>3
  <2>7. SumsInv'
    BY <1>1, <2>1, <2>3, <2>4, <2>5, <2>6, CountClose DEF Inv
  <2>8. Typed' /\ \A s \in Reqs : ReqInv(req'[s])
    BY <1>1, <2>1, <2>3 DEF Typed, Kept
  <2> QED
    BY <2>7, <2>8 DEF Inv
<1>8. CASE TripFails(r)
  <2>1. Kept(r)
    BY <1>1, <1>8, TripFailsKeeps
  <2>2. /\ req'[r].res \notin {"whole", "cut"} /\ req[r].at # "done"
        /\ req'[r].closes = req[r].closes /\ req'[r].taken = req[r].taken
    <3>1. req'[r] = [req[r] EXCEPT !.at = "done", !.res = "failed"]
      BY <1>1, <1>8, TripFailsKeeps
    <3>2. req[r].at = "trip"
      BY <1>8 DEF TripFails
    <3> QED
      BY <1>1, <3>1, <3>2 DEF Request
  <2>3. UNCHANGED <<ShowContent, WriteTimed, bytesTo, bytesFrom, cancelled>>
    BY <1>8 DEF TripFails
  <2>4. \/ req'[r].res \notin {"whole", "cut"} /\ req[r].at # "done"
        \/ req'[r].res = req[r].res /\ req'[r].out = req[r].out
    BY <2>2
  <2>5. req'[r].taken = req[r].taken \/ req[r].closes = 0
    BY <2>2
  <2> QED
    BY <2>1, <2>2, <2>3, <2>4, <2>5, PlainStep
<1>9. ASSUME NEW n \in 0..RespUnits, TripAnswers(r, n) PROVE Inv'
  <2>1. Kept(r)
    BY <1>1, <1>9, TripAnswersKeeps
  <2>2. /\ req'[r].res = req[r].res /\ req'[r].out = req[r].out
        /\ req'[r].closes = req[r].closes /\ req'[r].taken = req[r].taken
    BY <1>1, <1>9, TripAnswersKeeps DEF Request
  <2>3. UNCHANGED <<ShowContent, WriteTimed, bytesTo, bytesFrom, cancelled>>
    BY <1>9 DEF TripAnswers
  <2> QED
    BY <2>1, <2>2, <2>3, PlainStep
<1>10. CASE PrefixRead(r)
  <2>1. Kept(r)
    BY <1>1, <1>10, PrefixReadKeeps
  <2>2. /\ req'[r].res = req[r].res /\ req'[r].out = req[r].out
        /\ req'[r].closes = req[r].closes /\ req'[r].taken = req[r].taken
    BY <1>1, <1>10, PrefixReadKeeps DEF Request
  <2>3. UNCHANGED <<ShowContent, WriteTimed, bytesTo, bytesFrom, cancelled>>
    BY <1>10 DEF PrefixRead
  <2> QED
    BY <2>1, <2>2, <2>3, PlainStep
<1>11. CASE PrefixDone(r)
  <2>1. Kept(r)
    BY <1>1, <1>11, PrefixDoneKeeps
  <2>2. /\ req'[r].res = req[r].res /\ req'[r].out = req[r].out
        /\ req'[r].closes = req[r].closes /\ req'[r].taken = req[r].taken
    BY <1>1, <1>11, PrefixDoneKeeps DEF Request
  <2>3. UNCHANGED <<ShowContent, WriteTimed, bytesTo, bytesFrom, cancelled>>
    BY <1>11 DEF PrefixDone
  <2> QED
    BY <2>1, <2>2, <2>3, PlainStep
<1>12. CASE PrefixFails(r)
  <2>1. Kept(r)
    BY <1>1, <1>12, PrefixFailsKeeps
  <2>2. /\ req'[r].res = req[r].res /\ req'[r].out = req[r].out
        /\ req'[r].closes = req[r].closes /\ req'[r].taken = req[r].taken
    BY <1>1, <1>12, PrefixFailsKeeps DEF Request
  <2>3. UNCHANGED <<ShowContent, WriteTimed, bytesTo, bytesFrom, cancelled>>
    BY <1>12 DEF PrefixFails
  <2> QED
    BY <2>1, <2>2, <2>3, PlainStep
<1>13. CASE CopyPrefix(r)
  <2>1. Kept(r)
    BY <1>1, <1>13, CopyPrefixKeeps
  <2>2. /\ req'[r].res = req[r].res
        /\ req'[r].closes = req[r].closes /\ req'[r].taken = req[r].taken
    BY <1>1, <1>13, CopyPrefixKeeps DEF Request
  <2>3. req[r].at # "done"
    BY <1>13 DEF CopyPrefix, Reading, Writing
  <2>4. req'[r].res \notin {"whole", "cut"}
    BY <1>1, <2>2, <2>3 DEF ReqInv, StageInv
  <2>5. UNCHANGED <<ShowContent, WriteTimed, bytesTo, bytesFrom, cancelled>>
    BY <1>13 DEF CopyPrefix
  <2>6. \/ req'[r].res \notin {"whole", "cut"} /\ req[r].at # "done"
        \/ req'[r].res = req[r].res /\ req'[r].out = req[r].out
    BY <2>3, <2>4
  <2>7. req'[r].taken = req[r].taken \/ req[r].closes = 0
    BY <2>2
  <2> QED
    BY <2>1, <2>2, <2>5, <2>6, <2>7, PlainStep
<1>14. CASE CopyRest(r)
  <2>1. Kept(r)
    BY <1>1, <1>14, CopyRestKeeps
  <2>2. /\ req'[r].res = req[r].res
        /\ req'[r].closes = req[r].closes /\ req'[r].taken = req[r].taken
    BY <1>1, <1>14, CopyRestKeeps DEF Request
  <2>3. req[r].at # "done"
    BY <1>14 DEF CopyRest, Reading, Writing
  <2>4. req'[r].res \notin {"whole", "cut"}
    BY <1>1, <2>2, <2>3 DEF ReqInv, StageInv
  <2>5. UNCHANGED <<ShowContent, WriteTimed, bytesTo, bytesFrom, cancelled>>
    BY <1>14 DEF CopyRest
  <2>6. \/ req'[r].res \notin {"whole", "cut"} /\ req[r].at # "done"
        \/ req'[r].res = req[r].res /\ req'[r].out = req[r].out
    BY <2>3, <2>4
  <2>7. req'[r].taken = req[r].taken \/ req[r].closes = 0
    BY <2>2
  <2> QED
    BY <2>1, <2>2, <2>5, <2>6, <2>7, PlainStep
<1>15. CASE ClientTakes(r)
  <2>1. Kept(r)
    BY <1>1, <1>15, ClientTakesKeeps
  <2>2. /\ req'[r].res = req[r].res
        /\ req'[r].closes = req[r].closes /\ req'[r].taken = req[r].taken
    BY <1>1, <1>15, ClientTakesKeeps DEF Request
  <2>3. req[r].at # "done"
    BY <1>15 DEF ClientTakes, Reading, Writing
  <2>4. req'[r].res \notin {"whole", "cut"}
    BY <1>1, <2>2, <2>3 DEF ReqInv, StageInv
  <2>5. UNCHANGED <<ShowContent, WriteTimed, bytesTo, bytesFrom, cancelled>>
    BY <1>15 DEF ClientTakes
  <2>6. \/ req'[r].res \notin {"whole", "cut"} /\ req[r].at # "done"
        \/ req'[r].res = req[r].res /\ req'[r].out = req[r].out
    BY <2>3, <2>4
  <2>7. req'[r].taken = req[r].taken \/ req[r].closes = 0
    BY <2>2
  <2> QED
    BY <2>1, <2>2, <2>5, <2>6, <2>7, PlainStep
<1>16. ASSUME NEW how \in {"whole", "cut"}, CopyEnds(r, how), req[r].at \in {"copy", "broken"},
              how = "whole" => req[r].nread = req[r].size /\ Len(req[r].out) = req[r].size
       PROVE  Inv'
  <2>1. /\ Kept(r) /\ req'[r].res = how /\ req'[r].out = req[r].out
        /\ req'[r].taken = req[r].taken /\ req'[r].closes = req[r].closes
    BY <1>1, <1>16, CopyEndsKeeps
  <2>2. req[r].nread \in Nat /\ Len(req[r].out) \in Nat
    BY <1>1, LenProperties DEF Request
  <2>3. Len(req[r].out) <= req[r].nread /\ req[r].nread <= Len(req[r].out) + 1
    BY <1>1 DEF ReqInv, StageInv
  <2>4. \/ req[r].nread = Len(req[r].out)
        \/ how = "cut" /\ req[r].nread = Len(req[r].out) + 1
    <3> DEFINE n == Len(req[r].out)
    <3>1. n \in Nat /\ n <= req[r].nread /\ req[r].nread <= n + 1
          /\ (how = "whole" => req[r].nread = n)
      BY <1>16, <2>2, <2>3
    <3> HIDE DEF n
    <3>2. req[r].nread = n \/ (how = "cut" /\ req[r].nread = n + 1)
      BY <2>2, <3>1
    <3> QED
      BY <3>2 DEF n
  <2>5. SumsInv'
    BY <1>1, <1>16, <2>1, <2>4, CountEnds DEF Inv
  <2>6. /\ UNCHANGED <<ShowContent, WriteTimed, bytesTo, cancelled>>
        /\ bytesFrom' = bytesFrom + req[r].nread
    BY <1>16 DEF CopyEnds, OnCloseFrom
  <2>7. Typed' /\ \A s \in Reqs : ReqInv(req'[s])
    BY <1>1, <2>1, <2>2, <2>6 DEF Typed, Kept
  <2> QED
    BY <2>5, <2>7 DEF Inv
<1>17. CASE CopyWhole(r)
  <2>1. /\ req[r].at = "copy" /\ req[r].unit = 0 /\ req[r].buf = <<>>
        /\ req[r].got = req[r].size
    BY <1>17 DEF CopyWhole, Reading
  <2>2. Len(req[r].buf) = 0
    BY <2>1
  <2>3. /\ req[r].got = req[r].nread + 0 /\ req[r].nread = Len(req[r].out)
    BY <1>1, <2>1, <2>2 DEF ReqInv, ResponseInv, StageInv
  <2>4. req[r].nread = req[r].size
    BY <1>1, <2>1, <2>3 DEF Request
  <2>5. CopyEnds(r, "whole")
    BY <1>17 DEF CopyWhole
  <2> QED
    BY <1>16, <2>1, <2>3, <2>4, <2>5
<1>18. CASE CopyFails(r)
  BY <1>16, <1>18 DEF CopyFails, Reading
<1>19. CASE WriteFails(r)
  BY <1>16, <1>19 DEF WriteFails, Writing
<1>20. CASE WriteTimesOut(r)
  BY <1>19, <1>20 DEF WriteTimesOut
<1>21. CASE ContextEnds(r)
  BY <1>7, <1>8, <1>12, <1>18, <1>21 DEF ContextEnds
<1> QED
  BY <1>2, <1>3, <1>4, <1>5, <1>6, <1>7, <1>8, <1>9, <1>10, <1>11, <1>12, <1>13, <1>14,
     <1>15, <1>17, <1>18, <1>19, <1>20, <1>21 DEF Handle

\* At the start nothing was read, closed or counted.
LEMMA InitInv == Init => Inv
<1> SUFFICES ASSUME Init PROVE Inv
  OBVIOUS
<1>1. Typed
  <2> DEFINE q == [at |-> "new", body |-> "none", taken |-> 0, counted |-> 0, closes |-> 0,
                   size |-> 0, got |-> 0, buf |-> <<>>, nread |-> 0, unit |-> 0,
                   out |-> <<>>, res |-> "none"]
  <2>1. 0 \in 0..BodyUnits /\ 0 \in 0..RespUnits /\ 0 \in 0..2
    BY HttpProxyAssumption
  <2>2. <<>> \in Seq(1..RespUnits)
    OBVIOUS
  <2>3. q \in Request
    BY <2>1, <2>2 DEF Request
  <2>4. req = [r \in Reqs |-> q]
    BY DEF Init
  <2> HIDE DEF q
  <2>5. req \in [Reqs -> Request]
    BY <2>3, <2>4
  <2> QED
    BY <2>5 DEF Init, Typed
<1>2. \A r \in Reqs : ReqInv(req[r])
  <2> SUFFICES ASSUME NEW r \in Reqs PROVE ReqInv(req[r])
    OBVIOUS
  <2>1. /\ req[r].at = "new" /\ req[r].body = "none" /\ req[r].taken = 0 /\ req[r].counted = 0
        /\ req[r].closes = 0 /\ req[r].size = 0 /\ req[r].got = 0 /\ req[r].buf = <<>>
        /\ req[r].nread = 0 /\ req[r].unit = 0 /\ req[r].out = <<>> /\ req[r].res = "none"
    BY DEF Init
  <2>2. Follow(<<>>, 0) /\ Len(<<>>) = 0
    BY DEF Follow
  <2> QED
    BY <2>1, <2>2, HttpProxyAssumption DEF ReqInv, ResponseInv, StageInv, BodyInv
<1>3. SumsInv
  <2>1. /\ Handed = [r \in Reqs |-> 0] /\ Exact = [r \in Reqs |-> 0]
        /\ Missed = [r \in Reqs |-> 0]
    BY DEF Init, Handed, Exact, Missed
  <2>2. ASSUME NEW n \in Nat PROVE Total([r \in Reqs |-> 0], n) = 0
    <3>1. {p \in Reqs \X (1..n) : p[2] <= [r \in Reqs |-> 0][p[1]]} = {}
      OBVIOUS
    <3> QED
      BY <3>1, FS_EmptySet DEF Total
  <2>3. 2 * BodyUnits \in Nat /\ RespUnits \in Nat /\ 2 \in Nat
    BY HttpProxyAssumption
  <2>4. /\ Total(Handed, RespUnits) = 0 /\ Total(Exact, 2 * BodyUnits) = 0
        /\ Total(Missed, 2) = 0
    BY <2>1, <2>2, <2>3
  <2>5. bytesTo = 0 /\ bytesFrom = 0
    BY DEF Init
  <2> QED
    BY <2>4, <2>5, SumsNat DEF SumsInv
<1> QED
  BY <1>1, <1>2, <1>3 DEF Inv

\* Every step keeps the invariant; a signal changes no request.
LEMMA NextInv == Inv /\ [Next]_vars => Inv'
<1> SUFFICES ASSUME Inv, [Next]_vars PROVE Inv'
  OBVIOUS
<1>1. CASE \E r \in Reqs : Handle(r)
  BY <1>1, HandleKeeps
<1>2. CASE Cancel \/ UNCHANGED vars
  <2>1. UNCHANGED <<ShowContent, WriteTimed, req, bytesTo, bytesFrom>> /\ cancelled' \in BOOLEAN
    BY <1>2 DEF Cancel, vars, Inv, Typed
  <2>2. Handed' = Handed /\ Exact' = Exact /\ Missed' = Missed /\ Cut' = Cut
    BY <2>1 DEF Handed, Exact, Missed, Cut
  <2>3. SumsInv'
    BY <2>1, <2>2 DEF Inv, SumsInv
  <2>4. Typed' /\ \A s \in Reqs : ReqInv(req'[s])
    BY <2>1 DEF Inv, Typed
  <2> QED
    BY <2>3, <2>4 DEF Inv
<1> QED
  BY <1>1, <1>2 DEF Next

\* The invariant holds, for any requests and any limit on the logged prefix.
THEOREM Invariance == Spec => []Inv
BY InitInv, NextInv, PTL DEF Spec

\* Every request is as its handler left it; no more than maxLoggedBytes of a
\* response is ever held for logging.
THEOREM TypeCorrect == Spec => []TypeOK
<1>1. Inv => TypeOK
  BY DEF Inv, Typed, TypeOK, ReqInv, ResponseInv
<1> QED
  BY <1>1, Invariance, PTL

\* Reading a prefix of the response for the log and putting it back in front of
\* the rest (io.MultiReader) neither loses, repeats nor reorders a unit, and a
\* copy that ends well has handed on all of the response.
THEOREM ResponseCorrect == Spec => []ResponseIntact
<1>1. Inv => ResponseIntact
  <2> SUFFICES ASSUME Inv, NEW r \in Reqs
               PROVE  /\ req[r].out = [i \in 1..Len(req[r].out) |-> i]
                      /\ req[r].res = "whole" => Len(req[r].out) = req[r].size
    BY DEF ResponseIntact
  <2>1. Follow(req[r].out, 0) /\ (req[r].res = "whole" => Len(req[r].out) = req[r].size)
    BY DEF Inv, ReqInv, ResponseInv, StageInv
  <2>2. req[r].out \in Seq(1..RespUnits)
    BY DEF Inv, Typed, Request
  <2>3. Len(req[r].out) \in Nat
    BY <2>2, LenProperties
  <2>4. [i \in 1..Len(req[r].out) |-> 0 + i] = [i \in 1..Len(req[r].out) |-> i]
    BY <2>3
  <2> QED
    BY <2>1, <2>4 DEF Follow
<1> QED
  BY <1>1, Invariance, PTL

\* With bodies closed at most once, the sums of the invariant are those of
\* BytesCounted: a body adds its units once, and may miss one.
LEMMA ClosedOnce ==
    ASSUME Typed, \A r \in Reqs : req[r].closes <= 1
    PROVE  /\ Total(Exact, 2 * BodyUnits) = Total(Sent, BodyUnits)
           /\ Total(Missed, 2) = Cardinality(Closed)
<1>1. ASSUME NEW r \in Reqs
      PROVE  /\ req[r].taken \in Nat /\ req[r].taken <= BodyUnits
             /\ req[r].closes = 0 \/ req[r].closes = 1
  BY HttpProxyAssumption DEF Typed, Request
<1>2. Exact = Sent
  BY <1>1 DEF Exact, Sent
<1>3. \A r \in Reqs : Sent[r] \in Nat /\ Sent[r] <= BodyUnits
  BY <1>1, HttpProxyAssumption DEF Sent
<1>4. Total(Sent, 2 * BodyUnits) = Total(Sent, BodyUnits)
  <2>1. ASSUME NEW r \in Reqs, NEW i
        PROVE  (i \in 1..2 * BodyUnits /\ i <= Sent[r]) <=> (i \in 1..BodyUnits /\ i <= Sent[r])
    BY <1>3, HttpProxyAssumption
  <2>2. ASSUME NEW p
        PROVE  (p \in Reqs \X (1..2 * BodyUnits) /\ p[2] <= Sent[p[1]])
                  <=> (p \in Reqs \X (1..BodyUnits) /\ p[2] <= Sent[p[1]])
    <3>1. ASSUME NEW n, p \in Reqs \X n
          PROVE  p = <<p[1], p[2]>> /\ p[1] \in Reqs /\ p[2] \in n
      BY <3>1
    <3>2. ASSUME NEW n, p = <<p[1], p[2]>>, p[1] \in Reqs, p[2] \in n
          PROVE  p \in Reqs \X n
      BY <3>2
    <3> QED
      BY <2>1, <3>1, <3>2
  <2>3. {p \in Reqs \X (1..2 * BodyUnits) : p[2] <= Sent[p[1]]}
          = {p \in Reqs \X (1..BodyUnits) : p[2] <= Sent[p[1]]}
    BY <2>2
  <2> QED
    BY <2>3 DEF Total
<1>5. \A r \in Reqs : Missed[r] = IF r \in Closed THEN 1 ELSE 0
  BY <1>1 DEF Missed, Closed
<1>6. Closed \subseteq Reqs
  BY DEF Closed
<1>7. {p \in Reqs \X (1..2) : p[2] <= Missed[p[1]]} = Closed \X {1}
  <2>1. ASSUME NEW p \in Reqs \X (1..2), p[2] <= Missed[p[1]] PROVE p \in Closed \X {1}
    <3>1. p = <<p[1], p[2]>> /\ p[1] \in Reqs /\ p[2] \in 1..2
      OBVIOUS
    <3>2. p[1] \in Closed /\ p[2] = 1
      BY <1>5, <2>1, <3>1
    <3> QED
      BY <3>1, <3>2
  <2>2. ASSUME NEW p \in Closed \X {1} PROVE p \in Reqs \X (1..2) /\ p[2] <= Missed[p[1]]
    <3>1. p = <<p[1], p[2]>> /\ p[1] \in Closed /\ p[2] = 1
      OBVIOUS
    <3>2. p[1] \in Reqs /\ p[2] \in 1..2 /\ p[2] <= Missed[p[1]]
      BY <1>5, <1>6, <3>1
    <3> QED
      BY <3>1, <3>2
  <2> QED
    BY <2>1, <2>2
<1>8. IsFiniteSet(Closed) /\ Cardinality(Closed) \in Nat
  BY <1>6, HttpProxyAssumption, FS_Subset, FS_CardinalityType
<1>9. IsFiniteSet({1}) /\ Cardinality({1}) = 1
  BY FS_Singleton
<1>10. Cardinality(Closed \X {1}) = Cardinality(Closed) * 1
  BY <1>8, <1>9, FS_Product
<1>11. Total(Missed, 2) = Cardinality(Closed)
  <2>1. Total(Missed, 2) = Cardinality(Closed \X {1})
    BY <1>7, Zenon DEF Total
  <2> QED
    BY <1>8, <1>10, <2>1
<1> QED
  BY <1>2, <1>4, <1>11

\* The byte counters, for any number of concurrent requests and bodies of any
\* size: the received one is off by at most the unit a client that left did not
\* take, and the sent one, until a body is closed twice, by at most the Read
\* that each Close may have overtaken.
THEOREM BytesCorrect == Spec => []BytesCounted
<1>1. Inv => BytesCounted
  <2> SUFFICES ASSUME Inv PROVE BytesCounted
    OBVIOUS
  <2>1. SumsInv /\ Typed
    BY DEF Inv
  <2>2. ASSUME \A r \in Reqs : req[r].closes <= 1
        PROVE  /\ bytesTo <= Total(Sent, BodyUnits)
               /\ Total(Sent, BodyUnits) <= bytesTo + Cardinality(Closed)
    BY <2>1, <2>2, ClosedOnce DEF SumsInv
  <2> QED
    BY <2>1, <2>2 DEF SumsInv, BytesCounted
<1> QED
  BY <1>1, Invariance, PTL
=============================================================================
