-------------------------- MODULE TcpServerProofs --------------------------
(***************************************************************************)
(* Proofs about TcpServer for any finite set of connections and any        *)
(* server.maxconns. The inductive invariant says that the semaphore and    *)
(* the WaitGroup count the connections at the right places of their        *)
(* goroutines, which connection main is working on, and that a drain that  *)
(* saw the WaitGroup at zero left nobody behind.                           *)
(***************************************************************************)
EXTENDS TcpServer, FiniteSetTheorems, TLAPS

\* The connections wg counts: their goroutine exists and has not called Done.
Crew == {c \in Conns : conn[c] \in {"running", "ended", "released"}}

WorkInv ==
    /\ main = "admit"  => cur \in Conns /\ conn[cur] = "accepted"
    /\ main = "launch" => cur \in Conns /\ conn[cur] = "taken"
    /\ \A c \in Conns : conn[c] = "taken" => main = "launch" /\ cur = c

CountInv ==
    /\ TokensMatch
    /\ wg = Cardinality(Crew)

DrainInv ==
    /\ waiter = "off" <=> main \in {"accept", "admit", "launch"}
    /\ waiter = "closed" => Crew = {}
    /\ outcome = "drained" => waiter = "closed"

Inv == TypeOK /\ WorkInv /\ CountInv /\ DrainInv

----------------------------------------------------------------------------
\* The sets that are counted are finite.
LEMMA Finite ==
    /\ IsFiniteSet(Holders) /\ Cardinality(Holders) \in Nat
    /\ IsFiniteSet(Crew) /\ Cardinality(Crew) \in Nat
<1>1. Holders \in SUBSET Conns /\ Crew \in SUBSET Conns
    BY DEF Holders, Crew
<1> QED
    BY <1>1, TcpServerAssumption, FS_Subset, FS_CardinalityType

\* Nobody is connected at the start.
LEMMA InitInv == Init => Inv
<1> SUFFICES ASSUME Init PROVE Inv
    OBVIOUS
<1>1. Holders = {} /\ Crew = {}
    BY DEF Init, Holders, Crew
<1>2. TypeOK
    BY DEF Init, TypeOK, ConnPc, None
<1>3. WorkInv
    BY DEF Init, WorkInv
<1>4. CountInv
    BY <1>1, FS_EmptySet, TcpServerAssumption DEF Init, CountInv, TokensMatch
<1>5. DrainInv
    BY DEF Init, DrainInv
<1> QED
    BY <1>2, <1>3, <1>4, <1>5 DEF Inv

\* The counters are never taken below zero.
LEMMA CountersPositive ==
    ASSUME Inv, NEW c \in Conns
    PROVE  /\ c \in Crew => wg \in Nat /\ wg > 0
           /\ c \in Holders /\ MaxConns > 0 => sem \in Nat /\ sem > 0
<1>1. c \in Crew => Cardinality(Crew) # 0
    BY Finite, FS_EmptySet
<1>2. c \in Holders => Cardinality(Holders) # 0
    BY Finite, FS_EmptySet
<1> QED
    BY <1>1, <1>2, Finite DEF Inv, CountInv, TokensMatch

\* Every step keeps the types.
LEMMA TypeStep == Inv /\ [Next]_vars => TypeOK'
<1> SUFFICES ASSUME Inv, [Next]_vars PROVE TypeOK'
    OBVIOUS
<1>0. TypeOK
    BY DEF Inv
<1> USE <1>0 DEF TypeOK, ConnPc
<1>1. CASE Cancel
    BY <1>1 DEF Cancel
<1>2. CASE CloseListener
    BY <1>2 DEF CloseListener
<1>3. ASSUME NEW c \in Conns, Connect(c) PROVE TypeOK'
    BY <1>3 DEF Connect
<1>4. ASSUME NEW c \in Conns, Accept(c) PROVE TypeOK'
    BY <1>4 DEF Accept
<1>5. CASE AcceptError
    BY <1>5 DEF AcceptError, AfterAcceptError
<1>6. CASE Admit
  <2>1. conn' \in [Conns -> ConnPc] /\ main' = "launch"
    BY <1>6 DEF Admit
  <2>2. sem' \in Nat
    BY <1>6 DEF Admit
  <2> QED
    BY <1>6, <2>1, <2>2 DEF Admit
<1>7. CASE Reject
    BY <1>7 DEF Reject
<1>8. CASE Launch
  <2>1. conn' \in [Conns -> ConnPc] /\ main' = "accept" /\ cur' = None
    BY <1>8 DEF Launch
  <2>2. wg' \in Nat /\ connID' \in Nat
    BY <1>8 DEF Launch
  <2> QED
    BY <1>8, <2>1, <2>2 DEF Launch
<1>9. ASSUME NEW c \in Conns, StartReturns(c) PROVE TypeOK'
    BY <1>9 DEF StartReturns
<1>10. ASSUME NEW c \in Conns, ReleaseSlot(c) PROVE TypeOK'
    BY <1>10 DEF ReleaseSlot
<1>11. ASSUME NEW c \in Conns, WgDone(c) PROVE TypeOK'
  <2>1. wg \in Nat /\ wg > 0
    BY <1>11, CountersPositive DEF WgDone, Crew
  <2> QED
    BY <1>11, <2>1 DEF WgDone
<1>12. CASE WaiterCloses
    BY <1>12 DEF WaiterCloses
<1>13. CASE Drained
    BY <1>13 DEF Drained
<1>14. CASE DrainTimeout
    BY <1>14 DEF DrainTimeout
<1>15. CASE UNCHANGED vars
    BY <1>15 DEF vars
<1> QED
    BY <1>1, <1>2, <1>3, <1>4, <1>5, <1>6, <1>7, <1>8, <1>9, <1>10, <1>11, <1>12,
       <1>13, <1>14, <1>15 DEF Next, Exited

\* main's current connection is where main's program counter says.
LEMMA WorkStep == TypeOK /\ WorkInv /\ [Next]_vars => WorkInv'
<1> SUFFICES ASSUME TypeOK, WorkInv, [Next]_vars PROVE WorkInv'
    OBVIOUS
<1> USE DEF TypeOK, WorkInv
<1>1. CASE Cancel \/ CloseListener \/ AcceptError
    BY <1>1 DEF Cancel, CloseListener, AcceptError, AfterAcceptError
<1>2. ASSUME NEW c \in Conns, Connect(c) \/ Accept(c) PROVE WorkInv'
    BY <1>2 DEF Connect, Accept
<1>3. CASE Admit \/ Reject \/ Launch
    BY <1>3 DEF Admit, Reject, Launch
<1>4. ASSUME NEW c \in Conns, StartReturns(c) \/ ReleaseSlot(c) \/ WgDone(c)
      PROVE  WorkInv'
    BY <1>4 DEF StartReturns, ReleaseSlot, WgDone
<1>5. CASE WaiterCloses \/ Drained \/ DrainTimeout
    BY <1>5 DEF WaiterCloses, Drained, DrainTimeout
<1>6. CASE UNCHANGED vars
    BY <1>6 DEF vars
<1> QED
    BY <1>1, <1>2, <1>3, <1>4, <1>5, <1>6 DEF Next, Exited

\* How a step changes the counted sets: only Admit and the release of a slot
\* change the holders, only Launch and Done change the crew.
LEMMA SetStep ==
    ASSUME TypeOK, WorkInv, [Next]_vars
    PROVE  /\ \/ Admit /\ cur \in Conns \ Holders /\ Holders' = Holders \cup {cur}
              \/ \E c \in Holders : ReleaseSlot(c) /\ Holders' = Holders \ {c}
              \/ sem' = sem /\ Holders' = Holders
           /\ \/ Launch /\ cur \in Conns \ Crew /\ Crew' = Crew \cup {cur}
              \/ \E c \in Crew : WgDone(c) /\ Crew' = Crew \ {c}
              \/ wg' = wg /\ Crew' = Crew
<1> USE DEF TypeOK, Holders, Crew
<1>1. CASE Cancel
    BY <1>1 DEF Cancel
<1>2. CASE CloseListener
    BY <1>2 DEF CloseListener
<1>3. ASSUME NEW c \in Conns, Connect(c)
      PROVE  sem' = sem /\ Holders' = Holders /\ wg' = wg /\ Crew' = Crew
    BY <1>3 DEF Connect
<1>4. ASSUME NEW c \in Conns, Accept(c)
      PROVE  sem' = sem /\ Holders' = Holders /\ wg' = wg /\ Crew' = Crew
    BY <1>4 DEF Accept
<1>5. CASE AcceptError
    BY <1>5 DEF AcceptError
<1>6. CASE Admit
    BY <1>6 DEF Admit, WorkInv
<1>7. CASE Reject
    BY <1>7 DEF Reject, WorkInv
<1>8. CASE Launch
    BY <1>8 DEF Launch, WorkInv
<1>9. ASSUME NEW c \in Conns, StartReturns(c)
      PROVE  sem' = sem /\ Holders' = Holders /\ wg' = wg /\ Crew' = Crew
    BY <1>9 DEF StartReturns
<1>10. ASSUME NEW c \in Conns, ReleaseSlot(c)
       PROVE  c \in Holders /\ Holders' = Holders \ {c} /\ wg' = wg /\ Crew' = Crew
    BY <1>10 DEF ReleaseSlot
<1>11. ASSUME NEW c \in Conns, WgDone(c)
       PROVE  c \in Crew /\ Crew' = Crew \ {c} /\ sem' = sem /\ Holders' = Holders
    BY <1>11 DEF WgDone
<1>12. CASE WaiterCloses \/ Drained \/ DrainTimeout
    BY <1>12 DEF WaiterCloses, Drained, DrainTimeout
<1>13. CASE UNCHANGED vars
    BY <1>13 DEF vars
<1> HIDE DEF Holders, Crew
<1> QED
    BY <1>1, <1>2, <1>3, <1>4, <1>5, <1>6, <1>7, <1>8, <1>9, <1>10, <1>11, <1>12,
       <1>13 DEF Next, Exited

\* The semaphore and the WaitGroup keep counting.
LEMMA CountStep == Inv /\ [Next]_vars => CountInv'
<1> SUFFICES ASSUME Inv, [Next]_vars PROVE CountInv'
    OBVIOUS
<1>0. TypeOK /\ WorkInv /\ CountInv /\ MaxConns \in Nat
    BY TcpServerAssumption DEF Inv
<1>1. TokensMatch'
  <2>1. CASE Admit /\ cur \in Conns \ Holders /\ Holders' = Holders \cup {cur}
    <3>1. Cardinality(Holders') = Cardinality(Holders) + 1
      BY <2>1, Finite, FS_AddElement
    <3> QED
      BY <1>0, <2>1, <3>1 DEF Admit, HasSlot, CountInv, TokensMatch, TypeOK
  <2>2. ASSUME NEW c \in Holders, ReleaseSlot(c), Holders' = Holders \ {c}
        PROVE  TokensMatch'
    <3>1. Cardinality(Holders') = Cardinality(Holders) - 1
      BY <2>2, Finite, FS_RemoveElement
    <3> QED
      BY <1>0, <2>2, <3>1 DEF ReleaseSlot, CountInv, TokensMatch, TypeOK
  <2>3. CASE sem' = sem /\ Holders' = Holders
    BY <1>0, <2>3 DEF CountInv, TokensMatch
  <2> QED
    BY <1>0, <2>1, <2>2, <2>3, SetStep
<1>2. wg' = Cardinality(Crew')
  <2>1. CASE Launch /\ cur \in Conns \ Crew /\ Crew' = Crew \cup {cur}
    <3>1. Cardinality(Crew') = Cardinality(Crew) + 1
      BY <2>1, Finite, FS_AddElement
    <3> QED
      BY <1>0, <2>1, <3>1 DEF Launch, CountInv
  <2>2. ASSUME NEW c \in Crew, WgDone(c), Crew' = Crew \ {c}
        PROVE  wg' = Cardinality(Crew')
    <3>1. Cardinality(Crew') = Cardinality(Crew) - 1
      BY <2>2, Finite, FS_RemoveElement
    <3> QED
      BY <1>0, <2>2, <3>1 DEF WgDone, CountInv
  <2>3. CASE wg' = wg /\ Crew' = Crew
    BY <1>0, <2>3 DEF CountInv
  <2> QED
    BY <1>0, <2>1, <2>2, <2>3, SetStep
<1> QED
    BY <1>1, <1>2 DEF CountInv

\* Once the WaitGroup was seen at zero after the accept loop, nobody comes back.
LEMMA DrainStep == Inv /\ [Next]_vars => DrainInv'
<1> SUFFICES ASSUME Inv, [Next]_vars PROVE DrainInv'
    OBVIOUS
<1>0. TypeOK /\ WorkInv /\ CountInv /\ DrainInv
    BY DEF Inv
<1>1. waiter = "closed" => Crew' = {}
  <2> SUFFICES ASSUME waiter = "closed" PROVE Crew' = {}
    OBVIOUS
  <2>1. Crew = {} /\ ~Launch
    BY <1>0 DEF DrainInv, Launch
  <2> QED
    BY <1>0, <2>1, SetStep
<1>2. WaiterCloses => Crew' = {}
  <2> SUFFICES ASSUME WaiterCloses PROVE Crew' = {}
    OBVIOUS
  <2>1. Crew = {} /\ conn' = conn
    BY <1>0, Finite, FS_EmptySet DEF WaiterCloses, CountInv
  <2> QED
    BY <2>1 DEF Crew
<1> USE <1>0 DEF TypeOK, DrainInv
<1>3. CASE Cancel \/ CloseListener
    BY <1>1, <1>3 DEF Cancel, CloseListener
<1>4. ASSUME NEW c \in Conns, Connect(c) \/ Accept(c) PROVE DrainInv'
    BY <1>1, <1>4 DEF Connect, Accept
<1>5. CASE AcceptError
    BY <1>1, <1>5 DEF AcceptError, AfterAcceptError
<1>6. CASE Admit \/ Reject \/ Launch
    BY <1>1, <1>6 DEF Admit, Reject, Launch
<1>7. ASSUME NEW c \in Conns, StartReturns(c) \/ ReleaseSlot(c) \/ WgDone(c)
      PROVE  DrainInv'
    BY <1>1, <1>7 DEF StartReturns, ReleaseSlot, WgDone
<1>8. CASE WaiterCloses
    BY <1>2, <1>8 DEF WaiterCloses, Alive
<1>9. CASE Drained \/ DrainTimeout
    BY <1>1, <1>9 DEF Drained, DrainTimeout
<1>10. CASE UNCHANGED vars
    BY <1>1, <1>10 DEF vars
<1> QED
    BY <1>3, <1>4, <1>5, <1>6, <1>7, <1>8, <1>9, <1>10 DEF Next, Exited

----------------------------------------------------------------------------
\* Inv is an invariant of the TCP server.
THEOREM Invariance == Spec => []Inv
<1>1. Inv /\ [Next]_vars => Inv'
    BY TypeStep, WorkStep, CountStep, DrainStep DEF Inv
<1> QED
    BY InitInv, <1>1, PTL DEF Spec

\* The counters of the server stay natural numbers: neither wg.Done nor the
\* release of a slot ever goes below zero.
THEOREM TypeCorrect == Spec => []TypeOK
<1>1. Inv => TypeOK
    BY DEF Inv
<1> QED
    BY <1>1, Invariance, PTL

\* At most MaxConns connections hold a slot, and the semaphore counts them.
THEOREM LimitKept == Spec => []TokensMatch
<1>1. Inv => TokensMatch
    BY DEF Inv, CountInv
<1> QED
    BY <1>1, Invariance, PTL

\* "All connections drained" is never logged with a connection left.
THEOREM DrainCorrect == Spec => []DrainHonest
<1>1. Inv => DrainHonest
  <2> SUFFICES ASSUME Inv, outcome = "drained", NEW c \in Conns
               PROVE  conn[c] \notin {"taken", "running", "ended", "released"}
    BY DEF DrainHonest
  <2>1. Crew = {} /\ waiter = "closed"
    BY DEF Inv, DrainInv
  <2>2. conn[c] # "taken"
    BY <2>1 DEF Inv, DrainInv, WorkInv
  <2> QED
    BY <2>1, <2>2 DEF Crew
<1> QED
    BY <1>1, Invariance, PTL

----------------------------------------------------------------------------
\* The abstract set of taken slots is the set of holders.
LEMMA HeldIsHolders == Limit!Held = Holders
BY DEF Limit!Held, SlotOf, Holders

\* The instance counts like the module it extends.
LEMMA SameCount == \A S : Limit!Cardinality(S) = Cardinality(S)
BY DEF Limit!Cardinality, Cardinality

\* A step that moves no connection across a slot boundary stutters.
LEMMA LimitStutter ==
    ASSUME \A c \in Conns : SlotOf(c)' = SlotOf(c)
    PROVE  UNCHANGED [c \in Conns |-> SlotOf(c)]
OBVIOUS

\* A step that moves one connection changes one slot.
LEMMA LimitMove ==
    ASSUME NEW x \in Conns, NEW v, SlotOf(x)' = v,
           \A c \in Conns \ {x} : SlotOf(c)' = SlotOf(c)
    PROVE  [c \in Conns |-> SlotOf(c)]'
              = [[c \in Conns |-> SlotOf(c)] EXCEPT ![x] = v]
OBVIOUS

\* Every step of the server is a step of the connection limit, or a stutter.
LEMMA LimitStep == Inv /\ [Next]_vars => [Limit!Next]_([c \in Conns |-> SlotOf(c)])
<1> SUFFICES ASSUME Inv, [Next]_vars
             PROVE  [Limit!Next]_([c \in Conns |-> SlotOf(c)])
    OBVIOUS
<1>0. /\ TypeOK /\ WorkInv /\ CountInv /\ MaxConns \in Nat
      /\ Cardinality(Limit!Held) = Cardinality(Holders)
    BY TcpServerAssumption, HeldIsHolders DEF Inv
<1>1. CASE Admit
  <2>0. PICK x \in Conns : x = cur
    BY <1>0, <1>1 DEF Admit, WorkInv
  <2>1. /\ SlotOf(x) = "none" /\ SlotOf(x)' = "held"
        /\ \A c \in Conns \ {x} : SlotOf(c)' = SlotOf(c)
    BY <1>0, <1>1, <2>0 DEF Admit, WorkInv, TypeOK, SlotOf, Holders
  <2>2. MaxConns > 0 => Cardinality(Limit!Held) < MaxConns
    BY <1>0, <1>1 DEF Admit, HasSlot, CountInv, TokensMatch
  <2>3. [c \in Conns |-> SlotOf(c)]'
           = [[c \in Conns |-> SlotOf(c)] EXCEPT ![x] = "held"]
    BY <2>1, LimitMove
  <2>4. Limit!Take(x)
    BY <2>1, <2>2, <2>3, SameCount DEF Limit!Take
  <2> QED
    BY <2>4 DEF Limit!Next
<1>2. CASE Reject
  <2>0. PICK x \in Conns : x = cur
    BY <1>0, <1>2 DEF Reject, WorkInv
  <2>1. /\ SlotOf(x) = "none" /\ SlotOf(x)' = "refused"
        /\ \A c \in Conns \ {x} : SlotOf(c)' = SlotOf(c)
    BY <1>0, <1>2, <2>0 DEF Reject, WorkInv, TypeOK, SlotOf, Holders
  <2>2. MaxConns > 0 /\ Cardinality(Limit!Held) = MaxConns
    BY <1>0, <1>2 DEF Reject, HasSlot, CountInv, TokensMatch, TypeOK
  <2>3. [c \in Conns |-> SlotOf(c)]'
           = [[c \in Conns |-> SlotOf(c)] EXCEPT ![x] = "refused"]
    BY <2>1, LimitMove
  <2>4. Limit!Refuse(x)
    BY <2>1, <2>2, <2>3, SameCount DEF Limit!Refuse
  <2> QED
    BY <2>4 DEF Limit!Next
<1>3. ASSUME NEW x \in Conns, ReleaseSlot(x) PROVE Limit!Next
  <2>1. /\ SlotOf(x) = "held" /\ SlotOf(x)' = "returned"
        /\ \A c \in Conns \ {x} : SlotOf(c)' = SlotOf(c)
    BY <1>0, <1>3 DEF ReleaseSlot, TypeOK, SlotOf, Holders
  <2> QED
    BY <2>1, LimitMove DEF Limit!Next, Limit!Return
<1>4. CASE Launch
  <2>1. \A c \in Conns : SlotOf(c)' = SlotOf(c)
    BY <1>0, <1>4 DEF Launch, WorkInv, TypeOK, SlotOf, Holders
  <2> QED
    BY <2>1, LimitStutter
<1>5. ASSUME NEW x \in Conns, Connect(x) \/ Accept(x) \/ StartReturns(x) \/ WgDone(x)
      PROVE  [Limit!Next]_([c \in Conns |-> SlotOf(c)])
  <2>1. \A c \in Conns : SlotOf(c)' = SlotOf(c)
    BY <1>0, <1>5 DEF Connect, Accept, StartReturns, WgDone, TypeOK, SlotOf, Holders
  <2> QED
    BY <2>1, LimitStutter
<1>6. CASE CloseListener
  <2>1. \A c \in Conns : SlotOf(c)' = SlotOf(c)
    BY <1>0, <1>6 DEF CloseListener, TypeOK, SlotOf, Holders
  <2> QED
    BY <2>1, LimitStutter
<1>7. CASE \/ Cancel \/ AcceptError \/ WaiterCloses \/ Drained \/ DrainTimeout
           \/ UNCHANGED vars
  <2>1. conn' = conn
    BY <1>7 DEF Cancel, AcceptError, WaiterCloses, Drained, DrainTimeout, vars
  <2>2. \A c \in Conns : SlotOf(c)' = SlotOf(c)
    BY <2>1 DEF SlotOf, Holders
  <2> QED
    BY <2>2, LimitStutter
<1> QED
    BY <1>1, <1>2, <1>3, <1>4, <1>5, <1>6, <1>7 DEF Next, Exited

\* The accept loop and the connection goroutines implement ConnLimit: the limit
\* is never exceeded, and nobody is refused while a slot is free.
THEOREM LimitImplemented == Spec => LimitSpec
<1>1. Init => Limit!Init
    BY DEF Init, Limit!Init, SlotOf, Holders
<1> QED
    BY <1>1, LimitStep, Invariance, PTL DEF Spec, LimitSpec, Limit!Spec
=============================================================================
