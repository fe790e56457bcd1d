--------------------------- MODULE LoadTestProofs ---------------------------
(***************************************************************************)
(* Proofs about LoadTest for any finite set of workers, any number of      *)
(* requests and any sequence of scenarios. The inductive invariant ties    *)
(* every number of the shared statistics to the places where the workers   *)
(* are between two of their records: a worker that has recorded a latency  *)
(* and not yet its success accounts for the difference of the two.         *)
(***************************************************************************)
EXTENDS LoadTest, FiniteSetTheorems, SequenceTheorems, TLAPS

\* How many workers are at the places S.
Count(f, S) == Cardinality({w \in Workers : f[w] \in S})

\* Where a worker has recorded a round trip, or a connect latency, of a request
\* whose success it has not recorded yet. The generators differ in the order.
RtTaken == IF Mode = "tcp" THEN {"bytes", "success"} ELSE {"connect", "bytes", "success"}
ConnectTaken == IF Mode = "tcp" THEN {"write", "read", "rt", "bytes", "success"}
                ELSE {"bytes", "success"}

RecordInv ==
    /\ stats["rt"] = stats["success"] + Count(at, RtTaken)
    /\ stats["bytes"] = stats["success"] + Count(at, {"success"})
    /\ stats["errors"] = stats["breakdown"] + Count(at, {"breakdown"})
    /\ stats["connect"] >= stats["success"] + Count(at, ConnectTaken)

\* The workers whose next error is already among the faults: they will record
\* it, or their connection was refused, or they failed before the deadline.
Owed == {w \in Workers : \/ at[w] = "err"
                         \/ at[w] = "failed" /\ ~ended
                         \/ conn[w] = "rejected" /\ at[w] # "breakdown"}

FaultInv == stats["errors"] + Cardinality(Owed) <= faults

\* A worker stays on the path of its generator, and runs only during the test.
PlaceInv ==
    \A w \in Workers :
       /\ Mode = "tcp" => at[w] \notin {"do", "body"}
       /\ Mode # "tcp" => at[w] # "dial"
       /\ stage \in {"setup", "report", "exit"} => at[w] = "off"
       /\ stage \in {"locked", "close", "wait"} => at[w] = "done"

ResultInv ==
    /\ stage = "locked" => \A f \in {"connect", "rt", "breakdown"} : result[f] = stats[f]
    /\ stage \in {"close", "wait"} => result = stats

\* failed remembers the bad scenarios, and the exit status tells of it.
FailedInv ==
    /\ failed <=> bad # {}
    /\ stage = "exit" => (code = 0 <=> ~failed /\ ~lost)

\* A harness that is not set up yet has no proxied connection.
LingerInv == \A c \in 1..Len(Scenarios) : c > cur => linger[c] = 0

Inv == TypeOK /\ RecordInv /\ FaultInv /\ PlaceInv /\ ResultInv /\ FailedInv /\ LingerInv

Served == {w \in Workers : conn[w] = "served"}

Bit(b) == IF b THEN 1 ELSE 0

----------------------------------------------------------------------------
(* Counting *)

\* Two sets of workers that differ at most in w
LEMMA Shift ==
    ASSUME NEW A \in SUBSET Workers, NEW B \in SUBSET Workers, NEW w, A \ {w} = B \ {w}
    PROVE  /\ Cardinality(A) \in Nat /\ Cardinality(B) \in Nat
           /\ Cardinality(B) + Bit(w \in A) = Cardinality(A) + Bit(w \in B)
<1>1. IsFiniteSet(A) /\ IsFiniteSet(B)
    BY LoadTestAssumption, FS_Subset
<1>2. Cardinality(A) \in Nat /\ Cardinality(B) \in Nat
    BY <1>1, FS_CardinalityType
<1>3. Cardinality(A \ {w}) = Cardinality(A) - Bit(w \in A)
    BY <1>1, <1>2, FS_RemoveElement DEF Bit
<1>4. Cardinality(B \ {w}) = Cardinality(B) - Bit(w \in B)
    BY <1>1, <1>2, FS_RemoveElement DEF Bit
<1>5. Cardinality(A \ {w}) = Cardinality(B \ {w})
    OBVIOUS
<1>6. Bit(w \in A) \in Nat /\ Bit(w \in B) \in Nat
    BY DEF Bit
<1> QED
    BY <1>2, <1>3, <1>4, <1>5, <1>6

\* One worker goes from one place to another.
LEMMA CountMove ==
    ASSUME NEW f \in [Workers -> At], NEW w \in Workers, NEW to \in At, NEW S
    PROVE  /\ Count(f, S) \in Nat /\ Count([f EXCEPT ![w] = to], S) \in Nat
           /\ Count([f EXCEPT ![w] = to], S) + Bit(f[w] \in S) = Count(f, S) + Bit(to \in S)
<1> DEFINE g == [f EXCEPT ![w] = to]
           A == {v \in Workers : f[v] \in S}
           B == {v \in Workers : g[v] \in S}
<1>1. A \ {w} = B \ {w} /\ (w \in A <=> f[w] \in S) /\ (w \in B <=> to \in S)
    OBVIOUS
<1>2. Bit(w \in A) = Bit(f[w] \in S) /\ Bit(w \in B) = Bit(to \in S)
    BY <1>1 DEF Bit
<1>3. /\ Cardinality(A) \in Nat /\ Cardinality(B) \in Nat
      /\ Cardinality(B) + Bit(w \in A) = Cardinality(A) + Bit(w \in B)
    BY <1>1, Shift
<1> QED
    BY <1>2, <1>3 DEF Count

\* Nobody is at a place where nobody is.
LEMMA CountNone ==
    ASSUME NEW f, NEW S, \A w \in Workers : f[w] \notin S
    PROVE  Count(f, S) = 0
<1>1. {w \in Workers : f[w] \in S} = {}
    OBVIOUS
<1> QED
    BY <1>1, FS_EmptySet DEF Count

\* The count of S after a worker went from one place to another
Moved(S, from, to) ==
    /\ Count(at, S) \in Nat /\ Count(at', S) \in Nat
    /\ Count(at', S) + Bit(from \in S) = Count(at, S) + Bit(to \in S)

\* What a worker's step does to the four counts of RecordInv
LEMMA Counts ==
    ASSUME TypeOK, NEW w \in Workers, NEW from, NEW to \in At, Goes(w, from, to), cur' = cur
    PROVE  /\ Moved(RtTaken, from, to) /\ Moved(ConnectTaken, from, to)
           /\ Moved({"success"}, from, to) /\ Moved({"breakdown"}, from, to)
<1>1. at \in [Workers -> At] /\ at' = [at EXCEPT ![w] = to] /\ at[w] = from
    BY DEF TypeOK, Goes
<1> QED
    BY <1>1, CountMove DEF Moved

\* What the step of one worker does to the errors that are owed
LEMMA OwedMove ==
    ASSUME NEW w \in Workers, ended' = ended,
           \A v \in Workers \ {w} : at'[v] = at[v] /\ conn'[v] = conn[v]
    PROVE  /\ Cardinality(Owed) \in Nat /\ Cardinality(Owed') \in Nat
           /\ Cardinality(Owed') + Bit(w \in Owed) = Cardinality(Owed) + Bit(w \in Owed')
<1>1. Owed \in SUBSET Workers /\ Owed' \in SUBSET Workers /\ Owed \ {w} = Owed' \ {w}
    BY DEF Owed
<1> QED
    BY <1>1, Shift

\* ... and to the connections that are served
LEMMA ServedMove ==
    ASSUME NEW w \in Workers, \A v \in Workers \ {w} : conn'[v] = conn[v]
    PROVE  /\ Cardinality(Served) \in Nat /\ Cardinality(Served') \in Nat
           /\ Cardinality(Served') + Bit(conn[w] = "served")
                = Cardinality(Served) + Bit(conn'[w] = "served")
<1>1. Served \in SUBSET Workers /\ Served' \in SUBSET Workers /\ Served \ {w} = Served' \ {w}
    BY DEF Served
<1>2. Bit(w \in Served) = Bit(conn[w] = "served") /\ Bit(w \in Served') = Bit(conn'[w] = "served")
    BY DEF Served, Bit
<1> QED
    BY <1>1, <1>2, Shift

----------------------------------------------------------------------------
(* The workers: what they record *)

\* Every worker's step leaves main, the harness and the result alone.
LEMMA WorkerQuiet ==
    ASSUME NEW w \in Workers, Worker(w)
    PROVE  UNCHANGED <<stage, cur, failed, bad, results, lost, code, loops, open, ended, result>>
BY DEF Worker, Top, Dial, Write, Read, TcpFails, Http, HttpFails, HttpChecks,
       Records, RecordsLast, Quiet, main, report, harness

\* The generators have two modes.
LEMMA Modes == TypeOK => Mode \in {"tcp", "http"} /\ Scenarios[cur].MaxConns \in Nat
<1> SUFFICES ASSUME TypeOK PROVE Mode \in {"tcp", "http"} /\ Scenarios[cur].MaxConns \in Nat
    OBVIOUS
<1>1. Scenarios[cur] \in [Mode : {"tcp", "http"}, MaxConns : Nat, Validate : BOOLEAN, Fits : BOOLEAN]
    BY LoadTestAssumption, ElementOfSeq DEF TypeOK
<1> QED
    BY <1>1 DEF Mode

\* A step that records nothing may only lose a connect latency.
LEMMA PlainMove ==
    ASSUME TypeOK, RecordInv, NEW w \in Workers, NEW from, NEW to \in At,
           Goes(w, from, to), cur' = cur, stats' = stats,
           from \in RtTaken <=> to \in RtTaken,
           from \notin {"success", "breakdown"}, to \notin {"success", "breakdown"},
           to \in ConnectTaken => from \in ConnectTaken
    PROVE  RecordInv'
<1>1. RtTaken' = RtTaken /\ ConnectTaken' = ConnectTaken
    BY DEF RtTaken, ConnectTaken, Mode
<1>2. /\ Moved(RtTaken, from, to) /\ Moved(ConnectTaken, from, to)
      /\ Moved({"success"}, from, to) /\ Moved({"breakdown"}, from, to)
    BY Counts
<1>3. /\ Count(at', RtTaken) = Count(at, RtTaken)
      /\ Count(at', {"success"}) = Count(at, {"success"})
      /\ Count(at', {"breakdown"}) = Count(at, {"breakdown"})
    BY <1>2 DEF Bit, Moved
<1>4. Count(at', ConnectTaken) <= Count(at, ConnectTaken)
    BY <1>2 DEF Bit, Moved
<1>5. \A f \in Fields : stats[f] \in Nat
    BY DEF TypeOK
<1> QED
    BY <1>1, <1>2, <1>3, <1>4, <1>5 DEF RecordInv, Fields, Moved

\* A step that records adds one to a field.
LEMMA RecordMove ==
    ASSUME TypeOK, RecordInv, NEW w \in Workers, NEW from, NEW to \in At, NEW f \in Fields,
           Goes(w, from, to), cur' = cur, Adds(f),
           f = "connect" => from = "connect" /\ to = IF Mode = "tcp" THEN "write" ELSE "bytes",
           f = "rt" => from = "rt" /\ to = IF Mode = "tcp" THEN "bytes" ELSE "connect",
           f = "bytes" => from = "bytes" /\ to = "success",
           f = "success" => from = "success" /\ to = "top",
           f = "errors" => from = "err" /\ to = "breakdown",
           f = "breakdown" => from = "breakdown" /\ to = "top"
    PROVE  RecordInv'
<1>1. RtTaken' = RtTaken /\ ConnectTaken' = ConnectTaken
    BY DEF RtTaken, ConnectTaken, Mode
<1>2. /\ Moved(RtTaken, from, to) /\ Moved(ConnectTaken, from, to)
      /\ Moved({"success"}, from, to) /\ Moved({"breakdown"}, from, to)
    BY Counts
<1>3. \A g \in Fields : stats[g] \in Nat /\ stats'[g] = stats[g] + Bit(g = f)
    BY DEF TypeOK, Adds, Bit
<1>4. CASE f = "connect"
    BY <1>1, <1>2, <1>3, <1>4 DEF RecordInv, Fields, RtTaken, ConnectTaken, Bit, Moved
<1>5. CASE f = "rt"
    BY <1>1, <1>2, <1>3, <1>5 DEF RecordInv, Fields, RtTaken, ConnectTaken, Bit, Moved
<1>6. CASE f = "bytes"
  <2>1. /\ Count(at', RtTaken) = Count(at, RtTaken)
        /\ Count(at', ConnectTaken) = Count(at, ConnectTaken)
    BY <1>2, <1>6 DEF RtTaken, ConnectTaken, Bit, Moved
  <2>2. /\ Count(at', {"success"}) = Count(at, {"success"}) + 1
        /\ Count(at', {"breakdown"}) = Count(at, {"breakdown"})
    BY <1>2, <1>6 DEF Bit, Moved
  <2> QED
    BY <1>1, <1>2, <1>3, <1>6, <2>1, <2>2 DEF RecordInv, Fields, Bit, Moved
<1>7. CASE f = "success"
  <2>1. /\ Count(at', RtTaken) = Count(at, RtTaken) - 1
        /\ Count(at', ConnectTaken) = Count(at, ConnectTaken) - 1
    BY <1>2, <1>7 DEF RtTaken, ConnectTaken, Bit, Moved
  <2>2. /\ Count(at', {"success"}) = Count(at, {"success"}) - 1
        /\ Count(at', {"breakdown"}) = Count(at, {"breakdown"})
    BY <1>2, <1>7 DEF Bit, Moved
  <2> QED
    BY <1>1, <1>2, <1>3, <1>7, <2>1, <2>2 DEF RecordInv, Fields, Bit, Moved
<1>8. CASE f = "errors"
  <2>1. /\ Count(at', RtTaken) = Count(at, RtTaken)
        /\ Count(at', ConnectTaken) = Count(at, ConnectTaken)
    BY <1>2, <1>8 DEF RtTaken, ConnectTaken, Bit, Moved
  <2>2. /\ Count(at', {"success"}) = Count(at, {"success"})
        /\ Count(at', {"breakdown"}) = Count(at, {"breakdown"}) + 1
    BY <1>2, <1>8 DEF Bit, Moved
  <2> QED
    BY <1>1, <1>2, <1>3, <1>8, <2>1, <2>2 DEF RecordInv, Fields, Bit, Moved
<1>9. CASE f = "breakdown"
  <2>1. /\ Count(at', RtTaken) = Count(at, RtTaken)
        /\ Count(at', ConnectTaken) = Count(at, ConnectTaken)
    BY <1>2, <1>9 DEF RtTaken, ConnectTaken, Bit, Moved
  <2>2. /\ Count(at', {"success"}) = Count(at, {"success"})
        /\ Count(at', {"breakdown"}) = Count(at, {"breakdown"}) - 1
    BY <1>2, <1>9 DEF Bit, Moved
  <2> QED
    BY <1>1, <1>2, <1>3, <1>9, <2>1, <2>2 DEF RecordInv, Fields, Bit, Moved
<1> QED
    BY <1>4, <1>5, <1>6, <1>7, <1>8, <1>9 DEF Fields

\* Every step of a worker keeps the records in balance.
LEMMA WorkerRecords ==
    ASSUME Inv, NEW w \in Workers, Worker(w)
    PROVE  RecordInv'
<1>1. TypeOK /\ RecordInv /\ cur' = cur
    BY WorkerQuiet DEF Inv
<1>2. Mode \in {"tcp", "http"}
    BY <1>1, Modes
<1>3. (Mode = "tcp" => at[w] \notin {"do", "body"}) /\ (Mode # "tcp" => at[w] # "dial")
    BY DEF Inv, PlaceInv
<1> USE DEF At
<1>4. CASE Top(w)
  <2>1. PICK to \in {"done", "dial", "do"} : Goes(w, "top", to) /\ stats' = stats
    BY <1>4 DEF Top
  <2> QED
    BY <1>1, <2>1, PlainMove DEF RtTaken, ConnectTaken
<1>5. CASE Dial(w)
  <2>1. Goes(w, "dial", "connect") /\ stats' = stats /\ Mode = "tcp"
    BY <1>2, <1>3, <1>5 DEF Dial, Goes
  <2> QED
    BY <1>1, <2>1, PlainMove DEF RtTaken, ConnectTaken
<1>6. CASE Write(w) \/ Read(w)
  <2>1. \/ Goes(w, "write", "read") /\ stats' = stats
        \/ Goes(w, "read", "rt") /\ stats' = stats
    BY <1>6 DEF Write, Read
  <2> QED
    BY <1>1, <2>1, PlainMove DEF RtTaken, ConnectTaken
<1>7. CASE TcpFails(w)
  <2>1. PICK from \in {"dial", "write", "read"} : Goes(w, from, "err") /\ stats' = stats
    BY <1>7 DEF TcpFails
  <2> QED
    BY <1>1, <2>1, PlainMove DEF RtTaken, ConnectTaken
<1>8. CASE Http(w)
  <2>1. /\ Goes(w, "do", "body") \/ Goes(w, "body", "rt")
        /\ stats' = stats /\ Mode = "http"
    BY <1>2, <1>3, <1>8 DEF Http, Goes
  <2> QED
    BY <1>1, <2>1, PlainMove DEF RtTaken, ConnectTaken
<1>9. CASE HttpFails(w)
  <2>1. /\ Goes(w, "do", "failed") \/ Goes(w, "body", "failed")
        /\ stats' = stats
    BY <1>9 DEF HttpFails
  <2> QED
    BY <1>1, <2>1, PlainMove DEF RtTaken, ConnectTaken
<1>10. CASE HttpChecks(w)
  <2>1. PICK to \in {"done", "err"} : Goes(w, "failed", to) /\ stats' = stats
    BY <1>10 DEF HttpChecks, AfterFailure
  <2> QED
    BY <1>1, <2>1, PlainMove DEF RtTaken, ConnectTaken
<1>11. CASE Records(w)
  <2>1. CASE Adds("connect") /\ Goes(w, "connect", IF Mode = "tcp" THEN "write" ELSE "bytes")
    BY <1>1, <2>1, RecordMove DEF Fields
  <2>2. CASE Adds("rt") /\ Goes(w, "rt", IF Mode = "tcp" THEN "bytes" ELSE "connect")
    BY <1>1, <2>2, RecordMove DEF Fields
  <2>3. CASE Adds("bytes") /\ Goes(w, "bytes", "success")
    BY <1>1, <2>3, RecordMove DEF Fields
  <2>4. CASE Adds("errors") /\ Goes(w, "err", "breakdown")
    BY <1>1, <2>4, RecordMove DEF Fields
  <2> QED
    BY <1>11, <2>1, <2>2, <2>3, <2>4 DEF Records
<1>12. CASE RecordsLast(w)
  <2>1. CASE Adds("success") /\ Goes(w, "success", "top")
    BY <1>1, <2>1, RecordMove DEF Fields
  <2>2. CASE Adds("breakdown") /\ Goes(w, "breakdown", "top")
    BY <1>1, <2>2, RecordMove DEF Fields
  <2> QED
    BY <1>12, <2>1, <2>2 DEF RecordsLast
<1> QED
    BY <1>4, <1>5, <1>6, <1>7, <1>8, <1>9, <1>10, <1>11, <1>12 DEF Worker

----------------------------------------------------------------------------
(* The workers: which errors they owe *)

\* Only worker w moves.
Alone(w) == \A v \in Workers \ {w} : at'[v] = at[v] /\ conn'[v] = conn[v]

\* An error is owed before it is recorded, and becomes owed by a fault.
LEMMA FaultMove ==
    ASSUME TypeOK, FaultInv, NEW w \in Workers, Alone(w), ended' = ended,
           \/ stats'["errors"] = stats["errors"] /\ faults' = faults /\ (w \in Owed' => w \in Owed)
           \/ stats'["errors"] = stats["errors"] /\ faults' = faults + 1
           \/ /\ stats'["errors"] = stats["errors"] + 1 /\ faults' = faults
              /\ w \in Owed /\ w \notin Owed'
    PROVE  FaultInv'
<1>1. /\ Cardinality(Owed) \in Nat /\ Cardinality(Owed') \in Nat
      /\ Cardinality(Owed') + Bit(w \in Owed) = Cardinality(Owed) + Bit(w \in Owed')
    BY OwedMove DEF Alone
<1>2. stats["errors"] \in Nat /\ faults \in Nat
    BY DEF TypeOK, Fields
<1>3. Bit(w \in Owed) \in 0..1 /\ Bit(w \in Owed') \in 0..1
    BY DEF Bit
<1>4. (w \in Owed' => w \in Owed) => Bit(w \in Owed') <= Bit(w \in Owed)
    BY DEF Bit
<1>5. w \in Owed /\ w \notin Owed' => Bit(w \in Owed') = 0 /\ Bit(w \in Owed) = 1
    BY DEF Bit
<1>6. stats["errors"] + Cardinality(Owed) <= faults
    BY DEF FaultInv
<1>7. stats'["errors"] + Cardinality(Owed') <= faults'
    BY <1>1, <1>2, <1>3, <1>4, <1>5, <1>6
<1> QED
    BY <1>7 DEF FaultInv

\* Every step of a worker keeps the errors within the faults.
LEMMA WorkerFaults ==
    ASSUME Inv, NEW w \in Workers, Worker(w)
    PROVE  FaultInv'
<1>1. TypeOK /\ FaultInv /\ ended' = ended
    BY WorkerQuiet DEF Inv
<1>2. at \in [Workers -> At] /\ conn \in [Workers -> Conn] /\ stats \in [Fields -> Nat]
    BY <1>1 DEF TypeOK
<1> USE DEF Alone, Goes
<1>3. CASE Top(w) \/ Write(w) \/ Read(w) \/ Http(w)
  <2>1. /\ UNCHANGED <<stats, faults, conn>>
        /\ at[w] \in {"top", "write", "read", "do", "body"}
        /\ \E to \in {"done", "dial", "do", "read", "rt", "body"} : at' = [at EXCEPT ![w] = to]
    BY <1>3 DEF Top, Write, Read, Http
  <2>2. Alone(w) /\ (w \in Owed' => w \in Owed)
    BY <1>1, <1>2, <2>1 DEF Owed
  <2> QED
    BY <1>1, <2>1, <2>2, FaultMove
<1>4. CASE Dial(w)
  <2>1. Alone(w) /\ (w \in Owed' => w \in Owed) /\ UNCHANGED <<stats, faults>>
    BY <1>1, <1>2, <1>4 DEF Dial, Owed
  <2> QED
    BY <1>1, <2>1, FaultMove
<1>5. CASE TcpFails(w)
  <2>1. Alone(w) /\ UNCHANGED stats
    BY <1>2, <1>5 DEF TcpFails
  <2>2. CASE conn[w] = "rejected"
    <3>1. w \in Owed /\ faults' = faults
        BY <1>5, <2>2 DEF TcpFails, Owed
    <3> QED
        BY <1>1, <2>1, <3>1, FaultMove
  <2>3. CASE conn[w] # "rejected"
    <3>1. faults' = faults + 1
        BY <1>5, <2>3 DEF TcpFails
    <3> QED
        BY <1>1, <2>1, <3>1, FaultMove
  <2> QED
    BY <2>2, <2>3
<1>6. CASE HttpFails(w)
  <2>1. Alone(w) /\ UNCHANGED stats
    BY <1>2, <1>6 DEF HttpFails
  <2>2. CASE ended
    <3>1. faults' = faults /\ (w \in Owed' => w \in Owed)
        BY <1>1, <1>2, <1>6, <2>2 DEF HttpFails, Owed
    <3> QED
        BY <1>1, <2>1, <3>1, FaultMove
  <2>3. CASE ~ended
    <3>1. faults' = faults + 1
        BY <1>6, <2>3 DEF HttpFails
    <3> QED
        BY <1>1, <2>1, <3>1, FaultMove
  <2> QED
    BY <2>2, <2>3
<1>7. CASE HttpChecks(w)
  <2>1. Alone(w) /\ (w \in Owed' => w \in Owed) /\ UNCHANGED <<stats, faults>>
    BY <1>1, <1>2, <1>7 DEF HttpChecks, AfterFailure, Owed
  <2> QED
    BY <1>1, <2>1, FaultMove
<1>8. CASE Records(w)
  <2>1. UNCHANGED <<conn, faults>>
    BY <1>8 DEF Records
  <2>2. CASE Adds("errors") /\ Goes(w, "err", "breakdown")
    <3>1. Alone(w) /\ w \in Owed /\ w \notin Owed'
        BY <1>2, <2>1, <2>2 DEF Owed
    <3>2. stats'["errors"] = stats["errors"] + 1
        BY <1>2, <2>2 DEF Adds, Fields
    <3> QED
        BY <1>1, <2>1, <3>1, <3>2, FaultMove
  <2>3. CASE ~(Adds("errors") /\ Goes(w, "err", "breakdown"))
    <3>1. /\ \E f \in {"connect", "rt", "bytes"} : Adds(f)
          /\ at[w] \in {"connect", "rt", "bytes"}
          /\ \E to \in {"write", "bytes", "connect", "success"} : at' = [at EXCEPT ![w] = to]
        BY <1>8, <2>3 DEF Records
    <3>2. stats'["errors"] = stats["errors"]
        BY <1>2, <3>1 DEF Adds, Fields
    <3>3. Alone(w) /\ (w \in Owed' => w \in Owed)
        BY <1>1, <1>2, <2>1, <3>1 DEF Owed
    <3> QED
        BY <1>1, <2>1, <3>2, <3>3, FaultMove
  <2> QED
    BY <2>2, <2>3
<1>9. CASE RecordsLast(w)
  <2>1. /\ UNCHANGED faults /\ conn' = [conn EXCEPT ![w] = "none"]
        /\ at' = [at EXCEPT ![w] = "top"]
        /\ \E f \in {"success", "breakdown"} : Adds(f)
    BY <1>9 DEF RecordsLast, Closes
  <2>2. stats'["errors"] = stats["errors"]
    BY <1>2, <2>1 DEF Adds, Fields
  <2>3. Alone(w) /\ w \notin Owed'
    BY <1>2, <2>1 DEF Owed
  <2> QED
    BY <1>1, <2>1, <2>2, <2>3, FaultMove
<1> QED
    BY <1>3, <1>4, <1>5, <1>6, <1>7, <1>8, <1>9 DEF Worker

----------------------------------------------------------------------------
(* The workers: where they are *)

\* A worker that takes a step does so during the test.
LEMMA WorkerRuns ==
    ASSUME Inv, NEW w \in Workers, Worker(w)
    PROVE  stage = "run"
<1>1. at[w] \notin {"off", "done"}
    BY DEF Worker, Top, Dial, Write, Read, TcpFails, Http, HttpFails, HttpChecks,
           Records, RecordsLast, Goes
<1>2. stage \in Stage
    BY DEF Inv, TypeOK
<1> QED
    BY <1>1, <1>2 DEF Inv, PlaceInv, Stage

\* Every step of a worker keeps it on its path, and changes nothing else.
LEMMA WorkerPlaces ==
    ASSUME Inv, NEW w \in Workers, Worker(w)
    PROVE  PlaceInv' /\ ResultInv' /\ FailedInv'
<1>1. stage = "run" /\ UNCHANGED <<stage, cur, failed, bad, loops, result>>
    BY WorkerRuns, WorkerQuiet
<1>2. at \in [Workers -> At] /\ Mode' = Mode
    BY <1>1 DEF Inv, TypeOK, Mode
<1>3. Mode \in {"tcp", "http"}
    BY Modes DEF Inv
<1>4. PICK to : /\ at' = [at EXCEPT ![w] = to]
                /\ Mode = "tcp" => to \notin {"do", "body"}
                /\ Mode # "tcp" => to # "dial"
  <2>1. (Mode = "tcp" => at[w] \notin {"do", "body"}) /\ (Mode # "tcp" => at[w] # "dial")
    BY DEF Inv, PlaceInv
  <2>2. CASE Top(w)
    BY <1>3, <2>2 DEF Top, Goes
  <2>3. CASE Http(w)
    BY <1>3, <2>1, <2>3 DEF Http, Goes
  <2>4. CASE Dial(w) \/ Write(w) \/ Read(w) \/ TcpFails(w) \/ HttpFails(w) \/ HttpChecks(w)
    BY <2>4 DEF Dial, Write, Read, TcpFails, HttpFails, HttpChecks, Goes, AfterFailure
  <2>5. CASE Records(w) \/ RecordsLast(w)
    BY <2>5 DEF Records, RecordsLast, Goes
  <2> QED
    BY <2>2, <2>3, <2>4, <2>5 DEF Worker
<1>5. PlaceInv'
    BY <1>1, <1>2, <1>4 DEF Inv, PlaceInv
<1> QED
    BY <1>1, <1>5 DEF Inv, ResultInv, FailedInv

----------------------------------------------------------------------------
(* The workers: types and the limit *)

\* The limit of the harness
Limited == Scenarios[cur].MaxConns > 0 => Held <= Scenarios[cur].MaxConns

\* The types of the report
ReportTyped ==
    results \subseteq 1..Len(Scenarios) /\ lost \in BOOLEAN /\ code \in {0, 1, 9}

\* The types without the limit
Typed ==
    /\ ReportTyped
    /\ stage \in Stage /\ cur \in 1..Len(Scenarios)
    /\ failed \in BOOLEAN /\ ended \in BOOLEAN
    /\ bad \subseteq 1..Len(Scenarios)
    /\ open \subseteq {"backend", "proxy"}
    /\ loops \subseteq (1..Len(Scenarios)) \X {"backend", "proxy"}
    /\ at \in [Workers -> At] /\ ops \in [Workers -> 0..MaxOps]
    /\ conn \in [Workers -> Conn]
    /\ linger \in [1..Len(Scenarios) -> Nat] /\ orphans \in Nat /\ faults \in Nat
    /\ stats \in [Fields -> Nat] /\ result \in [Fields -> Nat]

\* The two halves of the type invariant.
LEMMA TypeParts == (TypeOK <=> Typed /\ Limited) /\ (TypeOK' <=> Typed' /\ Limited')
BY DEF TypeOK, Typed, ReportTyped, Limited

\* A step that leaves the report alone keeps its types.
LEMMA ReportKept ==
    ASSUME Typed, UNCHANGED <<results, lost, code>>
    PROVE  ReportTyped'
BY Zenon DEF Typed, ReportTyped

\* No step but that of the accept loop adds to the proxied connections.
LEMMA LimitMove ==
    ASSUME TypeOK, Held' \in Nat, cur' = cur, Held' <= Held \/ (Room /\ Held' = Held + 1)
    PROVE  Limited'
<1>1. Held \in Nat
  <2>1. Cardinality(Served) \in Nat
    BY LoadTestAssumption, FS_Subset, FS_CardinalityType DEF Served
  <2>2. linger[cur] \in Nat
    BY DEF TypeOK
  <2> QED
    BY <2>1, <2>2 DEF Held, Served
<1>2. Scenarios[cur].MaxConns \in Nat
    BY Modes
<1> QED
    BY <1>1, <1>2, TypeParts DEF Limited, Room

\* Every step of a worker keeps the types.
LEMMA WorkerTyped ==
    ASSUME TypeOK, NEW w \in Workers, Worker(w)
    PROVE  Typed'
<1>1. /\ stage' \in Stage /\ cur' \in 1..Len(Scenarios)
      /\ bad' \subseteq 1..Len(Scenarios) /\ open' \subseteq {"backend", "proxy"}
      /\ loops' \subseteq (1..Len(Scenarios)) \X {"backend", "proxy"}
      /\ result' \in [Fields -> Nat]
    BY WorkerQuiet DEF TypeOK
<1>2. failed' \in BOOLEAN /\ ended' \in BOOLEAN
    BY WorkerQuiet, Zenon DEF TypeOK
<1>3. ReportTyped'
    BY WorkerQuiet, ReportKept, TypeParts
<1>4. /\ at' \in [Workers -> At] /\ ops' \in [Workers -> 0..MaxOps]
      /\ conn' \in [Workers -> Conn] /\ linger' \in [1..Len(Scenarios) -> Nat] /\ orphans' \in Nat
      /\ faults' \in Nat /\ stats' \in [Fields -> Nat]
  <2>1. PICK to \in At : at' = [at EXCEPT ![w] = to]
    <3> USE DEF At, Goes
    <3>1. CASE Top(w)
        BY <3>1 DEF Top
    <3>2. CASE Dial(w) \/ Write(w) \/ Read(w) \/ Http(w) \/ HttpChecks(w)
        BY <3>2 DEF Dial, Write, Read, Http, HttpChecks, AfterFailure
    <3>3. CASE TcpFails(w) \/ HttpFails(w)
        BY <3>3 DEF TcpFails, HttpFails
    <3>4. CASE Records(w) \/ RecordsLast(w)
        BY <3>4 DEF Records, RecordsLast
    <3> QED
        BY <3>1, <3>2, <3>3, <3>4 DEF Worker
  <2>2. UNCHANGED ops \/ (ops[w] < MaxOps /\ ops' = [ops EXCEPT ![w] = @ + 1])
    BY DEF Worker, Top, Dial, Write, Read, TcpFails, Http, HttpFails, HttpChecks,
           Records, RecordsLast
  <2>3. UNCHANGED stats \/ \E f \in Fields : Adds(f)
    BY DEF Worker, Top, Dial, Write, Read, TcpFails, Http, HttpFails, HttpChecks,
           Records, RecordsLast, Fields
  <2>4. /\ UNCHANGED conn \/ \E c \in {"backlog", "none"} : conn' = [conn EXCEPT ![w] = c]
        /\ linger' = linger \/ linger' = [linger EXCEPT ![cur] = @ + 1]
        /\ orphans' \in {orphans, orphans + 1}
        /\ faults' \in {faults, faults + 1}
    <3>1. CASE RecordsLast(w)
        BY <3>1 DEF RecordsLast, Closes
    <3>2. CASE ~RecordsLast(w)
        BY <3>2 DEF Worker, Top, Dial, Write, Read, TcpFails, Http, HttpFails,
                    HttpChecks, Records
    <3> QED
        BY <3>1, <3>2
  <2>5. at' \in [Workers -> At]
    BY <2>1 DEF TypeOK
  <2>6. ops \in [Workers -> 0..MaxOps] /\ stats \in [Fields -> Nat]
    BY DEF TypeOK
  <2>7. ops' \in [Workers -> 0..MaxOps]
    BY <2>2, <2>6, LoadTestAssumption
  <2>8. stats' \in [Fields -> Nat]
    BY <2>3, <2>6 DEF Adds
  <2>9. conn' \in [Workers -> Conn]
    BY <2>4 DEF TypeOK, Conn
  <2>10. linger' \in [1..Len(Scenarios) -> Nat] /\ orphans' \in Nat /\ faults' \in Nat
    BY <2>4 DEF TypeOK
  <2> QED
    BY <2>5, <2>7, <2>8, <2>9, <2>10
<1> QED
    BY <1>1, <1>2, <1>4, <1>3 DEF Typed

\* A worker takes no slot: a connection it closes keeps its slot for a while.
LEMMA WorkerTypes ==
    ASSUME TypeOK, NEW w \in Workers, Worker(w)
    PROVE  TypeOK'
<1>1. Typed' /\ cur' = cur
    BY WorkerTyped, WorkerQuiet
<1>2. conn \in [Workers -> Conn] /\ linger[cur] \in Nat
    BY DEF TypeOK
<1>3. \/ UNCHANGED <<conn, linger>>
      \/ conn' = [conn EXCEPT ![w] = "backlog"] /\ linger' = linger
      \/ conn' = [conn EXCEPT ![w] = "none"] /\ linger'[cur] = linger[cur] + Bit(conn[w] = "served")
  <2>1. CASE Dial(w)
    BY <2>1 DEF Dial
  <2>2. CASE RecordsLast(w)
    <3>1. /\ conn' = [conn EXCEPT ![w] = "none"]
          /\ linger' = IF conn[w] = "served" THEN [linger EXCEPT ![cur] = @ + 1] ELSE linger
        BY <2>2 DEF RecordsLast, Closes
    <3>2. linger \in [1..Len(Scenarios) -> Nat] /\ cur \in 1..Len(Scenarios)
        BY DEF TypeOK
    <3> QED
        BY <1>2, <3>1, <3>2 DEF Bit
  <2>3. CASE ~Dial(w) /\ ~RecordsLast(w)
    BY <2>3 DEF Worker, Top, Write, Read, TcpFails, Http, HttpFails, HttpChecks, Records
  <2> QED
    BY <2>1, <2>2, <2>3
<1>4. /\ Cardinality(Served) \in Nat /\ Cardinality(Served') \in Nat
      /\ Cardinality(Served') + Bit(conn[w] = "served")
            = Cardinality(Served) + Bit(conn'[w] = "served")
    BY <1>2, <1>3, ServedMove
<1>5. Bit(conn[w] = "served") \in 0..1 /\ Bit(conn'[w] = "served") \in 0..1
    BY DEF Bit
<1>6. Held = Cardinality(Served) + linger[cur] /\ Held' = Cardinality(Served') + linger'[cur]
    BY <1>1 DEF Held, Served
<1>7. CASE UNCHANGED <<conn, linger>>
    BY <1>1, <1>2, <1>4, <1>6, <1>7, LimitMove, TypeParts DEF Served
<1>8. CASE conn'[w] # "served" /\ linger'[cur] \in linger[cur]..(linger[cur] + Bit(conn[w] = "served"))
  <2>1. Bit(conn'[w] = "served") = 0
    BY <1>8 DEF Bit
  <2>2. Held' \in Nat /\ Held' <= Held
    BY <1>2, <1>4, <1>5, <1>6, <1>8, <2>1
  <2> QED
    BY <1>1, <2>2, LimitMove, TypeParts
<1>9. UNCHANGED <<conn, linger>>
      \/ (conn'[w] # "served" /\ linger'[cur] \in linger[cur]..(linger[cur] + Bit(conn[w] = "served")))
    BY <1>2, <1>3, <1>5
<1> QED
    BY <1>7, <1>8, <1>9

\* ... of the harness at hand.
LEMMA WorkerLingers ==
    ASSUME Inv, NEW w \in Workers, Worker(w)
    PROVE  LingerInv'
<1>1. cur' = cur /\ linger \in [1..Len(Scenarios) -> Nat] /\ cur \in 1..Len(Scenarios)
    BY WorkerQuiet DEF Inv, TypeOK
<1>2. linger' = linger \/ linger' = [linger EXCEPT ![cur] = @ + 1]
  <2>1. CASE RecordsLast(w)
    BY <2>1 DEF RecordsLast, Closes
  <2>2. CASE ~RecordsLast(w)
    BY <2>2 DEF Worker, Top, Dial, Write, Read, TcpFails, Http, HttpFails, HttpChecks, Records
  <2> QED
    BY <2>1, <2>2
<1> QED
    BY <1>1, <1>2 DEF Inv, LingerInv

----------------------------------------------------------------------------
(* The accept loop of the harness *)

\* A connection is accepted or refused during the test.
LEMMA AcceptStep ==
    ASSUME Inv, NEW w \in Workers, Accept(w)
    PROVE  Inv'
<1>1. /\ TypeOK /\ stage = "run"
      /\ UNCHANGED <<stage, cur, failed, bad, results, lost, code, loops, open, ended, result, at,
                     ops, linger, orphans, stats>>
    BY DEF Accept, Quiet, Inv, main, report, harness
<1>2. /\ conn \in [Workers -> Conn] /\ conn[w] = "backlog"
      /\ \/ Room /\ conn' = [conn EXCEPT ![w] = "served"] /\ faults' = faults
         \/ conn' = [conn EXCEPT ![w] = "rejected"] /\ faults' = faults + 1
    BY <1>1 DEF Accept, Reject, TypeOK
<1>3. TypeOK'
  <2>1. Typed'
    <3>1. failed' \in BOOLEAN /\ ended' \in BOOLEAN
        BY <1>1, Zenon DEF TypeOK
    <3>2. conn' \in [Workers -> Conn]
        BY <1>2 DEF Conn
    <3>3. faults' \in Nat
        BY <1>1, <1>2 DEF TypeOK
    <3>4. ReportTyped'
        BY <1>1, ReportKept, TypeParts
    <3> QED
        BY <1>1, <3>1, <3>2, <3>3, <3>4 DEF TypeOK, Typed
  <2>2. /\ Cardinality(Served) \in Nat /\ Cardinality(Served') \in Nat
        /\ Cardinality(Served') + Bit(conn[w] = "served")
              = Cardinality(Served) + Bit(conn'[w] = "served")
    BY <1>2, ServedMove
  <2>3. Held = Cardinality(Served) + linger[cur] /\ Held' = Cardinality(Served') + linger[cur]
    BY <1>1 DEF Held, Served
  <2>4. Bit(conn[w] = "served") = 0 /\ Bit(conn'[w] = "served") \in 0..1
        /\ (conn'[w] # "served" => Bit(conn'[w] = "served") = 0)
    BY <1>2 DEF Bit
  <2>5. linger[cur] \in Nat /\ (Room \/ conn'[w] # "served")
    BY <1>1, <1>2 DEF TypeOK
  <2>6. Held' \in Nat /\ (Held' <= Held \/ (Room /\ Held' = Held + 1))
    BY <2>2, <2>3, <2>4, <2>5
  <2> QED
    BY <1>1, <2>1, <2>6, LimitMove, TypeParts
<1>4. RecordInv'
    BY <1>1 DEF Inv, RecordInv, RtTaken, ConnectTaken, Mode
<1>5. FaultInv'
  <2>1. Alone(w) /\ ended' = ended /\ stats'["errors"] = stats["errors"]
    BY <1>1, <1>2 DEF Alone
  <2>2. faults' = faults + 1 \/ (faults' = faults /\ (w \in Owed' => w \in Owed))
    BY <1>1, <1>2 DEF Owed
  <2> QED
    BY <1>1, <2>1, <2>2, FaultMove DEF Inv
<1>6. PlaceInv' /\ ResultInv' /\ FailedInv' /\ LingerInv'
    BY <1>1 DEF Inv, PlaceInv, ResultInv, FailedInv, LingerInv, Mode
<1> QED
    BY <1>3, <1>4, <1>5, <1>6 DEF Inv

\* So is one whose client has gone; and a proxied connection ends.
LEMMA LingerStep ==
    ASSUME Inv, AcceptOrphan \/ \E c \in 1..Len(Scenarios) : ConnEnds(c)
    PROVE  Inv'
<1>1. /\ TypeOK
      /\ UNCHANGED <<stage, cur, failed, bad, results, lost, code, loops, open, ended, result, at,
                     ops, conn, stats, faults>>
    BY DEF AcceptOrphan, ConnEnds, Quiet, Inv, main, report, harness
<1>2. /\ linger \in [1..Len(Scenarios) -> Nat] /\ orphans \in Nat /\ cur \in 1..Len(Scenarios)
      /\ orphans' \in Nat
      /\ \/ \E c \in 1..Len(Scenarios) : linger[c] > 0 /\ linger' = [linger EXCEPT ![c] = @ - 1]
         \/ linger' = linger
         \/ Room /\ linger' = [linger EXCEPT ![cur] = @ + 1]
    BY <1>1 DEF AcceptOrphan, ConnEnds, TypeOK
<1>3. /\ linger' \in [1..Len(Scenarios) -> Nat] /\ linger[cur] \in Nat /\ linger'[cur] \in Nat
      /\ linger'[cur] <= linger[cur] \/ (Room /\ linger'[cur] = linger[cur] + 1)
      /\ \A c \in 1..Len(Scenarios) : c > cur /\ linger[c] = 0 => linger'[c] = 0
    BY <1>2
<1>4. TypeOK'
  <2>1. Typed'
    <3>1. failed' \in BOOLEAN /\ ended' \in BOOLEAN
        BY <1>1, Zenon DEF TypeOK
    <3>2. ReportTyped'
        BY <1>1, ReportKept, TypeParts
    <3> QED
        BY <1>1, <1>2, <1>3, <3>1, <3>2 DEF TypeOK, Typed
  <2>2. Cardinality(Served) \in Nat
    BY LoadTestAssumption, FS_Subset, FS_CardinalityType DEF Served
  <2>3. Held = Cardinality(Served) + linger[cur] /\ Held' = Cardinality(Served) + linger'[cur]
    BY <1>1 DEF Held, Served
  <2>4. Held' \in Nat /\ (Held' <= Held \/ (Room /\ Held' = Held + 1))
    BY <1>3, <2>2, <2>3
  <2> QED
    BY <1>1, <2>1, <2>4, LimitMove, TypeParts
<1>5. Owed' = Owed
    BY <1>1 DEF Owed
<1>6. RecordInv' /\ FaultInv' /\ PlaceInv' /\ ResultInv' /\ FailedInv'
    BY <1>1, <1>5 DEF Inv, RecordInv, RtTaken, ConnectTaken, FaultInv, PlaceInv, ResultInv,
                      FailedInv, Mode
<1>7. LingerInv'
    BY <1>1, <1>3 DEF Inv, LingerInv
<1> QED
    BY <1>4, <1>6, <1>7 DEF Inv

----------------------------------------------------------------------------
(* main *)

\* With every worker outside its loop there is nothing between two records.
LEMMA Settled ==
    ASSUME NEW f, \A w \in Workers : f[w] \in {"off", "top", "done"}
    PROVE  /\ Count(f, {"success"}) = 0 /\ Count(f, {"breakdown"}) = 0
           /\ Count(f, {"bytes", "success"}) = 0
           /\ Count(f, {"connect", "bytes", "success"}) = 0
           /\ Count(f, {"write", "read", "rt", "bytes", "success"}) = 0
BY CountNone

\* A scenario begins with everything at zero but the connections of those before
\* it, which have no token of its sem.
LEMMA Fresh ==
    ASSUME TypeOK, LingerInv, Advance
    PROVE  /\ cur' \in 1..Len(Scenarios) /\ stage' \in {"setup", "report"}
           /\ ended' = FALSE /\ faults' \in Nat /\ at' \in [Workers -> At]
           /\ ops' \in [Workers -> 0..MaxOps] /\ conn' \in [Workers -> Conn]
           /\ linger' \in [1..Len(Scenarios) -> Nat] /\ orphans' \in Nat
           /\ stats' \in [Fields -> Nat] /\ result' \in [Fields -> Nat]
           /\ RecordInv' /\ FaultInv' /\ PlaceInv' /\ ResultInv' /\ Limited' /\ LingerInv'
<1>1. Len(Scenarios) \in Nat /\ Len(Scenarios) > 0
    BY LoadTestAssumption, EmptySeq, LenProperties
<1>2. cur' \in 1..Len(Scenarios) /\ stage' \in {"setup", "report"}
    BY <1>1 DEF Advance, TypeOK
<1>3. linger' = linger /\ linger \in [1..Len(Scenarios) -> Nat] /\ cur \in 1..Len(Scenarios)
    BY DEF Advance, TypeOK
<1>4. /\ ended' = FALSE /\ faults' = 0 /\ orphans' = 0
      /\ at' = [w \in Workers |-> "off"] /\ conn' = [w \in Workers |-> "none"]
      /\ stats' = Zero /\ result' = Zero
    BY DEF Advance
<1>5. at' \in [Workers -> At] /\ conn' \in [Workers -> Conn] /\ stats' \in [Fields -> Nat]
      /\ result' \in [Fields -> Nat]
    BY <1>4 DEF At, Conn, Zero
<1>6. ops' \in [Workers -> 0..MaxOps]
    BY LoadTestAssumption DEF Advance
<1>7. Owed' = {} /\ Served' = {}
    BY <1>4 DEF Owed, Served
<1>8. RecordInv'
  <2>1. \A f \in Fields : stats'[f] = 0
    BY <1>4 DEF Zero
  <2>2. /\ Count(at', {"success"}) = 0 /\ Count(at', {"breakdown"}) = 0
        /\ Count(at', RtTaken') = 0 /\ Count(at', ConnectTaken') = 0
    BY <1>4, Settled DEF RtTaken, ConnectTaken
  <2> QED
    BY <2>1, <2>2 DEF RecordInv, Fields
<1>9. FaultInv'
    BY <1>4, <1>7, FS_EmptySet DEF FaultInv, Zero, Fields
<1>10. PlaceInv'
    BY <1>2, <1>4 DEF PlaceInv
<1>11. ResultInv'
    BY <1>2 DEF ResultInv
<1>12. Held' = linger[cur'] /\ linger[cur'] \in Nat
  <2>1. linger[cur'] \in Nat /\ linger'[cur'] = linger[cur']
    BY <1>2, <1>3
  <2>2. Held' = Cardinality(Served') + linger'[cur']
    BY DEF Held, Served
  <2> QED
    BY <1>7, <2>1, <2>2, FS_EmptySet
<1>13. cur' = cur + 1 \/ cur' = cur
    BY DEF Advance
<1>14. LingerInv'
    BY <1>1, <1>3, <1>13 DEF LingerInv
<1>15. Limited'
  <2>1. Scenarios[cur'] \in [Mode : {"tcp", "http"}, MaxConns : Nat, Validate : BOOLEAN, Fits : BOOLEAN]
    BY <1>2, LoadTestAssumption, ElementOfSeq
  <2>2. CASE cur' = cur + 1
    BY <1>2, <1>12, <1>3, <2>1, <2>2 DEF LingerInv, Limited
  <2>3. CASE cur' = cur
    <3>1. Cardinality(Served) \in Nat /\ Held = Cardinality(Served) + linger[cur]
        BY LoadTestAssumption, FS_Subset, FS_CardinalityType DEF Served, Held
    <3> QED
        BY <1>12, <2>1, <2>3, <3>1, TypeParts DEF Limited
  <2> QED
    BY <1>13, <2>2, <2>3
<1> QED
    BY <1>2, <1>4, <1>5, <1>6, <1>8, <1>9, <1>10, <1>11, <1>15, <1>3, <1>14

\* The harness is started, and the workers.
LEMMA SetupStep ==
    ASSUME Inv, SetupTCP \/ SetupHTTP
    PROVE  Inv'
<1>1. /\ TypeOK /\ stage = "setup" /\ stage' = "run"
      /\ loops' = loops \cup {<<cur, "backend">>, <<cur, "proxy">>}
      /\ open' = {"backend", "proxy"} /\ at' = [w \in Workers |-> "top"]
      /\ UNCHANGED <<cur, failed, bad, results, lost, code, ended, ops, conn, linger, orphans, stats,
                     result, faults>>
    BY DEF SetupTCP, SetupHTTP, Setup, Inv, report
<1>2. TypeOK'
  <2>1. failed' \in BOOLEAN /\ ended' \in BOOLEAN
    BY <1>1, Zenon DEF TypeOK
  <2>2. at' \in [Workers -> At] /\ stage' \in Stage
    BY <1>1 DEF At, Stage
  <2>3. loops' \subseteq (1..Len(Scenarios)) \X {"backend", "proxy"}
    BY <1>1 DEF TypeOK
  <2>4. ReportTyped'
    BY <1>1, ReportKept, TypeParts
  <2>5. Typed'
    BY <1>1, <2>1, <2>2, <2>3, <2>4 DEF TypeOK, Typed
  <2>6. Limited'
    BY <1>1, TypeParts DEF Limited, Held
  <2> QED
    BY <2>5, <2>6, TypeParts
<1>3. \A w \in Workers : at[w] = "off"
    BY <1>1 DEF Inv, PlaceInv
<1>4. RecordInv'
  <2>1. /\ Count(at', {"success"}) = Count(at, {"success"})
        /\ Count(at', {"breakdown"}) = Count(at, {"breakdown"})
        /\ Count(at', RtTaken) = Count(at, RtTaken)
        /\ Count(at', ConnectTaken) = Count(at, ConnectTaken)
    BY <1>1, <1>3, Settled DEF RtTaken, ConnectTaken
  <2>2. RtTaken' = RtTaken /\ ConnectTaken' = ConnectTaken
    BY <1>1 DEF RtTaken, ConnectTaken, Mode
  <2> QED
    BY <1>1, <2>1, <2>2 DEF Inv, RecordInv
<1>5. FaultInv'
  <2>1. Owed' = Owed
    BY <1>1, <1>3 DEF Owed
  <2> QED
    BY <1>1, <2>1 DEF Inv, FaultInv
<1>6. PlaceInv' /\ ResultInv' /\ FailedInv'
    BY <1>1 DEF Inv, PlaceInv, ResultInv, FailedInv
<1>7. LingerInv'
    BY <1>1 DEF Inv, LingerInv
<1> QED
    BY <1>2, <1>4, <1>5, <1>6, <1>7 DEF Inv

\* NewHarness fails: the scenario is bad, and what it leaves behind is its own.
LEMMA SetupFailsStep ==
    ASSUME Inv, NEW left \in SUBSET {<<cur, "backend">>}, SetupFails(left)
    PROVE  Inv'
<1>1. /\ TypeOK /\ stage = "setup" /\ loops' = loops \cup left
      /\ failed' = TRUE /\ bad' = bad \cup {cur} /\ Advance
      /\ UNCHANGED <<results, lost, code, open>>
    BY DEF SetupFails, SetupFailed, Advance, Inv
<1>2. ReportTyped'
    BY <1>1, ReportKept, TypeParts
<1>3. /\ cur' \in 1..Len(Scenarios) /\ stage' \in {"setup", "report"}
      /\ ended' = FALSE /\ faults' \in Nat /\ at' \in [Workers -> At]
      /\ ops' \in [Workers -> 0..MaxOps] /\ conn' \in [Workers -> Conn]
      /\ linger' \in [1..Len(Scenarios) -> Nat] /\ orphans' \in Nat
      /\ stats' \in [Fields -> Nat] /\ result' \in [Fields -> Nat]
      /\ RecordInv' /\ FaultInv' /\ PlaceInv' /\ ResultInv' /\ Limited' /\ LingerInv'
    BY <1>1, Fresh DEF Inv
<1>4. /\ bad' \subseteq 1..Len(Scenarios) /\ open' \subseteq {"backend", "proxy"}
      /\ loops' \subseteq (1..Len(Scenarios)) \X {"backend", "proxy"}
    BY <1>1 DEF TypeOK
<1>5. failed' \in BOOLEAN /\ ended' \in BOOLEAN /\ stage' \in Stage
    BY <1>1, <1>3 DEF Stage
<1>6. TypeOK'
    BY <1>2, <1>3, <1>4, <1>5, TypeParts DEF Typed
<1>7. FailedInv'
    BY <1>1, <1>3 DEF FailedInv
<1> QED
    BY <1>3, <1>6, <1>7 DEF Inv

\* The duration is over: failures from here on are owed no more.
LEMMA DeadlineStep ==
    ASSUME Inv, Deadline
    PROVE  Inv'
<1>1. /\ TypeOK /\ ended' = TRUE
      /\ UNCHANGED <<stage, cur, failed, bad, results, lost, code, loops, open, at, ops, conn,
                     linger, orphans, stats, result, faults>>
    BY DEF Deadline, Inv, main, report, harness, clients
<1>2. TypeOK'
  <2>1. failed' \in BOOLEAN /\ ended' \in BOOLEAN
    BY <1>1, Zenon DEF TypeOK
  <2>2. ReportTyped'
    BY <1>1, ReportKept, TypeParts
  <2>3. Typed' /\ Limited'
    BY <1>1, <2>1, <2>2 DEF TypeOK, Typed, Limited, Held
  <2> QED
    BY <2>3, TypeParts
<1>3. FaultInv'
  <2>1. Owed \in SUBSET Workers /\ Owed' \in SUBSET Owed
    BY <1>1 DEF Owed
  <2>2. IsFiniteSet(Owed)
    BY <2>1, LoadTestAssumption, FS_Subset
  <2>3. Cardinality(Owed) \in Nat /\ Cardinality(Owed') \in Nat /\ Cardinality(Owed') <= Cardinality(Owed)
    BY <2>1, <2>2, FS_Subset, FS_CardinalityType
  <2>4. stats["errors"] \in Nat /\ faults \in Nat
    BY <1>1 DEF TypeOK, Fields
  <2>5. stats["errors"] + Cardinality(Owed) <= faults
    BY DEF Inv, FaultInv
  <2>6. stats["errors"] + Cardinality(Owed') <= faults
    BY <2>3, <2>4, <2>5
  <2> QED
    BY <1>1, <2>6 DEF FaultInv
<1>4. RecordInv' /\ PlaceInv' /\ ResultInv' /\ FailedInv' /\ LingerInv'
    BY <1>1 DEF Inv, RecordInv, RtTaken, ConnectTaken, PlaceInv, ResultInv, FailedInv,
                LingerInv, Mode
<1> QED
    BY <1>2, <1>3, <1>4 DEF Inv

\* Both halves of Snapshot see the same numbers, because no worker is left.
LEMMA SnapshotStep ==
    ASSUME Inv, Snapshot \/ SnapshotLoads \/ Close
    PROVE  Inv'
<1>1. /\ TypeOK
      /\ UNCHANGED <<cur, failed, bad, results, lost, code, loops, ended, at, ops, conn, linger,
                     orphans, stats, faults>>
    BY DEF Snapshot, SnapshotLoads, Close, Inv, report, harness, clients
<1>2. /\ stage' \in {"locked", "close", "wait"} /\ stage \in {"run", "locked", "close"}
      /\ \A w \in Workers : at[w] = "done"
    BY DEF Snapshot, SnapshotLoads, Close, RunReturns, Inv, PlaceInv
<1>3. ResultInv' /\ result' \in [Fields -> Nat]
  <2>1. CASE Snapshot
    <3>1. /\ stage' = "locked" /\ stats' = stats
          /\ result' = [f \in Fields |-> IF f \in {"connect", "rt", "breakdown"} THEN stats[f] ELSE 0]
        BY <2>1 DEF Snapshot
    <3> QED
        BY <1>1, <3>1 DEF ResultInv, Fields, TypeOK
  <2>2. CASE SnapshotLoads
    <3>1. /\ stage = "locked" /\ stage' = "close" /\ stats' = stats
          /\ result' = [f \in Fields |-> IF f \in {"bytes", "success", "errors"} THEN stats[f] ELSE result[f]]
        BY <2>2 DEF SnapshotLoads
    <3>2. \A f \in {"connect", "rt", "breakdown"} : result[f] = stats[f]
        BY <3>1 DEF Inv, ResultInv
    <3>3. \A f \in Fields : result'[f] = stats[f]
        BY <3>1, <3>2 DEF Fields
    <3>4. stats \in [Fields -> Nat]
        BY <1>1 DEF TypeOK
    <3>5. result' = stats
        BY <3>1, <3>3, <3>4
    <3> QED
        BY <3>1, <3>4, <3>5 DEF ResultInv
  <2>3. CASE Close
    <3>1. stage = "close" /\ stage' = "wait" /\ UNCHANGED <<stats, result>>
        BY <2>3 DEF Close
    <3> QED
        BY <1>1, <3>1 DEF Inv, ResultInv, TypeOK
  <2> QED
    BY <2>1, <2>2, <2>3
<1>4. TypeOK'
  <2>1. failed' \in BOOLEAN /\ ended' \in BOOLEAN
    BY <1>1, Zenon DEF TypeOK
  <2>2. stage' \in Stage /\ open' \subseteq {"backend", "proxy"}
    BY <1>1, <1>2 DEF Stage, TypeOK, Snapshot, SnapshotLoads, Close, harness
  <2>3. ReportTyped'
    BY <1>1, ReportKept, TypeParts
  <2>4. Typed'
    BY <1>1, <1>3, <2>1, <2>2, <2>3 DEF TypeOK, Typed
  <2>5. Limited'
    BY <1>1, TypeParts DEF Limited, Held
  <2> QED
    BY <2>4, <2>5, TypeParts
<1>5. Owed' = Owed
    BY <1>1 DEF Owed
<1>6. RecordInv' /\ FaultInv' /\ FailedInv'
    BY <1>1, <1>2, <1>5 DEF Inv, RecordInv, RtTaken, ConnectTaken, FaultInv, FailedInv, Mode
<1>7. PlaceInv' /\ LingerInv'
    BY <1>1, <1>2 DEF Inv, PlaceInv, LingerInv, Mode
<1> QED
    BY <1>3, <1>4, <1>6, <1>7 DEF Inv

\* An accept loop ends.
LEMMA LoopEndsStep ==
    ASSUME Inv, NEW l \in {"backend", "proxy"}, LoopEnds(l)
    PROVE  Inv'
<1>1. /\ TypeOK /\ loops' = loops \ {<<cur, l>>}
      /\ UNCHANGED <<stage, cur, failed, bad, results, lost, code, open, ended, at, ops, conn,
                     linger, orphans, stats, result, faults>>
    BY DEF LoopEnds, Inv, main, report, clients
<1>2. TypeOK'
  <2>1. failed' \in BOOLEAN /\ ended' \in BOOLEAN
    BY <1>1, Zenon DEF TypeOK
  <2>2. loops' \subseteq (1..Len(Scenarios)) \X {"backend", "proxy"}
    BY <1>1 DEF TypeOK
  <2>3. ReportTyped'
    BY <1>1, ReportKept, TypeParts
  <2>4. Typed' /\ Limited'
    BY <1>1, <2>1, <2>2, <2>3 DEF TypeOK, Typed, Limited, Held
  <2> QED
    BY <2>4, TypeParts
<1>3. Owed' = Owed
    BY <1>1 DEF Owed
<1>4. RecordInv' /\ FaultInv' /\ PlaceInv' /\ ResultInv' /\ FailedInv'
    BY <1>1, <1>3 DEF Inv, RecordInv, RtTaken, ConnectTaken, FaultInv, PlaceInv, ResultInv,
                      FailedInv, Mode
<1>5. LingerInv'
    BY <1>1 DEF Inv, LingerInv
<1> QED
    BY <1>2, <1>4, <1>5 DEF Inv

\* The loops are joined, and the verdict is about the numbers of the workers.
LEMMA VerdictStep ==
    ASSUME Inv, Verdict
    PROVE  Inv'
<1>1. /\ TypeOK /\ stage = "wait" /\ Joined
      /\ failed' = (failed \/ Exceeds(result))
      /\ bad' = IF Exceeds(stats) THEN bad \cup {cur} ELSE bad
      /\ Advance /\ UNCHANGED <<lost, code, loops, open>>
      /\ results' = IF Scenarios[cur].Validate /\ Exceeds(result) THEN results
                    ELSE results \cup {cur}
    BY DEF Verdict, Advance, Inv
<1>2. ReportTyped'
  <2>1. lost' \in BOOLEAN /\ code' \in {0, 1, 9}
    BY <1>1, Zenon DEF TypeOK
  <2>2. results' \subseteq 1..Len(Scenarios)
    BY <1>1 DEF TypeOK
  <2> QED
    BY <2>1, <2>2 DEF ReportTyped
<1>3. /\ cur' \in 1..Len(Scenarios) /\ stage' \in {"setup", "report"}
      /\ ended' = FALSE /\ faults' \in Nat /\ at' \in [Workers -> At]
      /\ ops' \in [Workers -> 0..MaxOps] /\ conn' \in [Workers -> Conn]
      /\ linger' \in [1..Len(Scenarios) -> Nat] /\ orphans' \in Nat
      /\ stats' \in [Fields -> Nat] /\ result' \in [Fields -> Nat]
      /\ RecordInv' /\ FaultInv' /\ PlaceInv' /\ ResultInv' /\ Limited' /\ LingerInv'
    BY <1>1, Fresh DEF Inv
<1>4. /\ bad' \subseteq 1..Len(Scenarios) /\ open' \subseteq {"backend", "proxy"}
      /\ loops' \subseteq (1..Len(Scenarios)) \X {"backend", "proxy"}
    BY <1>1 DEF TypeOK
<1>5. result = stats
    BY <1>1 DEF Inv, ResultInv
<1>6. failed' \in BOOLEAN /\ (failed' <=> failed \/ Exceeds(stats))
    BY <1>1, <1>5, Zenon
<1>7. FailedInv'
  <2>1. failed <=> bad # {}
    BY DEF Inv, FailedInv
  <2>2. bad' # {} <=> bad # {} \/ Exceeds(stats)
    BY <1>1
  <2> QED
    BY <1>3, <1>6, <2>1, <2>2 DEF FailedInv
<1>8. ended' \in BOOLEAN /\ stage' \in Stage
    BY <1>3 DEF Stage
<1>9. TypeOK'
    BY <1>2, <1>3, <1>4, <1>6, <1>8, TypeParts DEF Typed
<1> QED
    BY <1>3, <1>7, <1>9 DEF Inv

\* The report is written or not, and the exit status says so.
LEMMA ReportStep ==
    ASSUME Inv, NEW written \in BOOLEAN, Report(written)
    PROVE  Inv'
<1>1. /\ TypeOK /\ stage = "report" /\ stage' = "exit" /\ lost' = ~written
      /\ code' = IF failed \/ ~written THEN 1 ELSE 0
      /\ UNCHANGED <<cur, failed, bad, results, loops, open, ended, at, ops, conn, linger, orphans,
                     stats, result, faults>>
    BY DEF Report, Inv, harness, clients
<1>2. TypeOK'
  <2>1. failed' \in BOOLEAN /\ ended' \in BOOLEAN /\ lost' \in BOOLEAN
    BY <1>1, Zenon DEF TypeOK
  <2>2. code' \in {0, 1, 9} /\ stage' \in Stage
    BY <1>1 DEF Stage
  <2>3. ReportTyped'
    BY <1>1, <2>1, <2>2 DEF TypeOK, ReportTyped
  <2>4. Typed' /\ Limited'
    BY <1>1, <2>1, <2>2, <2>3 DEF TypeOK, Typed, Limited, Held
  <2> QED
    BY <2>4, TypeParts
<1>3. Owed' = Owed
    BY <1>1 DEF Owed
<1>4. RecordInv' /\ FaultInv' /\ PlaceInv' /\ ResultInv' /\ LingerInv'
    BY <1>1, <1>3 DEF Inv, RecordInv, RtTaken, ConnectTaken, FaultInv, PlaceInv, ResultInv,
                      LingerInv, Mode
<1>5. FailedInv'
  <2>1. failed' <=> bad' # {}
    BY <1>1 DEF Inv, FailedInv
  <2>2. code' = 0 <=> ~failed /\ written
    BY <1>1
  <2>3. (~lost' <=> written) /\ failed' = failed
    BY <1>1, Zenon
  <2>4. code' = 0 <=> ~failed' /\ ~lost'
    BY <2>2, <2>3
  <2> QED
    BY <2>1, <2>4 DEF FailedInv
<1> QED
    BY <1>2, <1>4, <1>5 DEF Inv

----------------------------------------------------------------------------
(* The inductive invariant and what follows from it *)

\* The tool starts with nothing set up.
LEMMA InitInv == Init => Inv
<1> SUFFICES ASSUME Init PROVE Inv
    OBVIOUS
<1>1. Len(Scenarios) \in Nat /\ Len(Scenarios) > 0
    BY LoadTestAssumption, EmptySeq, LenProperties
<1>2. /\ stage = "setup" /\ cur = 1 /\ failed = FALSE /\ bad = {} /\ loops = {} /\ open = {}
      /\ ended = FALSE /\ faults = 0 /\ orphans = 0
      /\ linger = [c \in 1..Len(Scenarios) |-> 0] /\ results = {} /\ lost = FALSE /\ code = 9
      /\ at = [w \in Workers |-> "off"] /\ conn = [w \in Workers |-> "none"]
      /\ ops = [w \in Workers |-> 0] /\ stats = Zero /\ result = Zero
    BY DEF Init
<1>3. Owed = {} /\ Served = {}
    BY <1>2 DEF Owed, Served
<1>4. TypeOK
  <2>1. at \in [Workers -> At] /\ conn \in [Workers -> Conn] /\ stage \in Stage
    BY <1>2 DEF At, Conn, Stage
  <2>2. ops \in [Workers -> 0..MaxOps]
    BY <1>2, LoadTestAssumption
  <2>3. stats \in [Fields -> Nat] /\ result \in [Fields -> Nat]
    BY <1>2 DEF Zero
  <2>4. cur \in 1..Len(Scenarios)
    BY <1>1, <1>2
  <2>5. Held = 0
    <3>1. linger[cur] = 0 /\ Held = Cardinality(Served) + linger[cur]
        BY <1>2, <2>4 DEF Held, Served
    <3> QED
        BY <1>3, <3>1, FS_EmptySet
  <2>6. Limited
    <3>1. Scenarios[cur] \in [Mode : {"tcp", "http"}, MaxConns : Nat, Validate : BOOLEAN, Fits : BOOLEAN]
        BY <2>4, LoadTestAssumption, ElementOfSeq
    <3> QED
        BY <2>5, <3>1 DEF Limited
  <2>7. Typed
    BY <1>2, <2>1, <2>2, <2>3, <2>4 DEF Typed, ReportTyped
  <2> QED
    BY <2>6, <2>7, TypeParts
<1>5. RecordInv
  <2>1. \A f \in Fields : stats[f] = 0
    BY <1>2 DEF Zero
  <2>2. /\ Count(at, {"success"}) = 0 /\ Count(at, {"breakdown"}) = 0
        /\ Count(at, RtTaken) = 0 /\ Count(at, ConnectTaken) = 0
    BY <1>2, Settled DEF RtTaken, ConnectTaken
  <2> QED
    BY <2>1, <2>2 DEF RecordInv, Fields
<1>6. FaultInv
    BY <1>2, <1>3, FS_EmptySet DEF FaultInv, Zero, Fields
<1>7. PlaceInv /\ ResultInv /\ FailedInv /\ LingerInv
    BY <1>2 DEF PlaceInv, ResultInv, FailedInv, LingerInv
<1> QED
    BY <1>4, <1>5, <1>6, <1>7 DEF Inv

\* Every step keeps the invariant.
LEMMA Step == Inv /\ [Next]_vars => Inv'
<1> SUFFICES ASSUME Inv, [Next]_vars PROVE Inv'
    OBVIOUS
<1>1. CASE Main
    BY <1>1, SetupStep, SetupFailsStep, DeadlineStep, SnapshotStep, LoopEndsStep, VerdictStep,
       ReportStep DEF Main
<1>2. CASE \E w \in Workers : Worker(w)
  <2>1. TypeOK
    BY DEF Inv
  <2> QED
    BY <1>2, <2>1, WorkerTypes, WorkerRecords, WorkerFaults, WorkerPlaces, WorkerLingers DEF Inv
<1>3. CASE \E w \in Workers : Accept(w)
    BY <1>3, AcceptStep
<1>4. CASE AcceptOrphan \/ \E c \in 1..Len(Scenarios) : ConnEnds(c)
    BY <1>4, LingerStep
<1>5. CASE UNCHANGED vars
  <2>1. UNCHANGED <<stage, cur, failed, bad, results, lost, code, loops, open, ended, at, ops, conn,
                    linger, orphans, stats, result, faults>>
    BY <1>5 DEF vars, main, report, harness, clients
  <2>2. Owed' = Owed /\ Held' = Held
    BY <2>1 DEF Owed, Held
  <2> QED
    BY <2>1, <2>2 DEF Inv, TypeOK, RecordInv, RtTaken, ConnectTaken, FaultInv, PlaceInv,
       ResultInv, FailedInv, LingerInv, Mode
<1> QED
    BY <1>1, <1>2, <1>3, <1>4, <1>5 DEF Next, Done

\* The inductive invariant: every number of the statistics is accounted for by
\* the places of the workers, and no worker is in its loop outside the test.
THEOREM Invariance == Spec => []Inv
BY InitInv, Step, PTL DEF Spec

\* The types of main, harness, workers and statistics; with a limit, no more
\* than MaxConns connections are proxied at a time (sem in harness.go), although
\* connections of an earlier harness may not have ended.
THEOREM TypeCorrect == Spec => []TypeOK
<1>1. Inv => TypeOK
    BY DEF Inv
<1> QED
    BY <1>1, Invariance, PTL

\* Snapshot's two halves, copied under the lock and loaded behind it, agree.
THEOREM SnapshotCorrect == Spec => []SnapshotConsistent
<1>1. Inv => SnapshotConsistent
  <2> SUFFICES ASSUME Inv, stage \in {"close", "wait"} PROVE SnapshotConsistent
    BY DEF SnapshotConsistent
  <2>1. result = stats /\ \A w \in Workers : at[w] = "done"
    BY DEF Inv, ResultInv, PlaceInv
  <2>2. /\ Count(at, {"success"}) = 0 /\ Count(at, {"breakdown"}) = 0
        /\ Count(at, RtTaken) = 0 /\ Count(at, ConnectTaken) = 0
    BY <2>1, Settled DEF RtTaken, ConnectTaken
  <2>3. \A f \in Fields : stats[f] \in Nat
    BY DEF Inv, TypeOK
  <2>4. /\ stats["rt"] = stats["success"] /\ stats["bytes"] = stats["success"]
        /\ stats["errors"] = stats["breakdown"] /\ stats["connect"] >= stats["success"]
    BY <2>2, <2>3 DEF Inv, RecordInv, Fields
  <2> QED
    BY <2>1, <2>4 DEF SnapshotConsistent
<1> QED
    BY <1>1, Invariance, PTL

\* No more errors are recorded than faults and refusals happened: what the end
\* of the test cuts off is not an error (ctx.Err() in generator.go).
THEOREM ErrorsCorrect == Spec => []ErrorsReal
<1>1. Inv => ErrorsReal
  <2> SUFFICES ASSUME Inv PROVE ErrorsReal
    OBVIOUS
  <2>1. Owed \in SUBSET Workers
    BY DEF Owed
  <2>2. IsFiniteSet(Owed)
    BY <2>1, LoadTestAssumption, FS_Subset
  <2>3. Cardinality(Owed) \in Nat
    BY <2>2, FS_CardinalityType
  <2>4. stats["errors"] \in Nat /\ faults \in Nat
    BY DEF Inv, TypeOK, Fields
  <2>5. stats["errors"] + Cardinality(Owed) <= faults
    BY DEF Inv, FaultInv
  <2> QED
    BY <2>3, <2>4, <2>5 DEF ErrorsReal
<1> QED
    BY <1>1, Invariance, PTL

\* The exit status tells whether any scenario went wrong or the report was lost,
\* for any sequence of scenarios (main in cmd/loadtest).
THEOREM ExitCorrect == Spec => []ExitHonest
<1>1. Inv => ExitHonest
    BY DEF Inv, FailedInv, ExitHonest
<1> QED
    BY <1>1, Invariance, PTL
=============================================================================
