-------------------------- MODULE HttpServerProofs --------------------------
(***************************************************************************)
(* Proofs about HttpServer for any finite set of connections and any       *)
(* server.maxconns. The inductive invariant says who is in the map of      *)
(* owners: the connections that are served or closing and were not refused.*)
(* Without it a refused connection's StateClosed could release a token.    *)
(***************************************************************************)
EXTENDS HttpServer, FiniteSetTheorems, TLAPS

OwnerInv ==
    \A c \in Conns :
       /\ c \in shut => pc[c] \in {"serving", "closed", "gone"}
       /\ c \in acquired <=> pc[c] \in {"serving", "closed"} /\ c \notin shut

Inv == TypeOK /\ OwnerInv /\ TokensMatch

----------------------------------------------------------------------------
\* Nobody is connected at the start.
LEMMA InitInv == Init => Inv
<1> SUFFICES ASSUME Init PROVE Inv
    OBVIOUS
<1>1. Holders = {}
    BY DEF Init, Holders
<1>2. TypeOK
    BY HttpServerAssumption DEF Init, TypeOK, Pc
<1>3. OwnerInv
    BY DEF Init, OwnerInv
<1> QED
    BY <1>1, <1>2, <1>3, FS_EmptySet DEF Init, Inv, TokensMatch

\* The holders are finitely many.
LEMMA Finite == IsFiniteSet(Holders) /\ Cardinality(Holders) \in Nat
<1>1. Holders \in SUBSET Conns
    BY DEF Holders
<1> QED
    BY <1>1, HttpServerAssumption, FS_Subset, FS_CardinalityType

\* Every step keeps the types; the semaphore stays within its capacity.
LEMMA TypeStep == TypeOK /\ [Next]_vars => TypeOK'
<1> SUFFICES ASSUME TypeOK, [Next]_vars PROVE TypeOK'
    OBVIOUS
<1> USE HttpServerAssumption DEF TypeOK, Pc
<1>1. ASSUME NEW c \in Conns, Accept(c) \/ ServeEnds(c) PROVE TypeOK'
    BY <1>1 DEF Accept, ServeEnds
<1>2. ASSUME NEW c \in Conns, NewTakes(c) PROVE TypeOK'
    BY <1>2 DEF NewTakes
<1>3. ASSUME NEW c \in Conns, NewMarks(c) \/ NewRejects(c) PROVE TypeOK'
    BY <1>3 DEF NewMarks, NewRejects
<1>4. ASSUME NEW c \in Conns, ClosedOwner(c) \/ ClosedOther(c) PROVE TypeOK'
    BY <1>4 DEF ClosedOwner, ClosedOther
<1>5. ASSUME NEW c \in Conns, ClosedReleases(c) PROVE TypeOK'
    BY <1>5 DEF ClosedReleases
<1>6. CASE UNCHANGED vars
    BY <1>6 DEF vars
<1> QED
    BY <1>1, <1>2, <1>3, <1>4, <1>5, <1>6 DEF Next, Hook, AllGone

\* The map of owners stays what the hook takes it for.
LEMMA OwnerStep == TypeOK /\ OwnerInv /\ [Next]_vars => OwnerInv'
<1> SUFFICES ASSUME TypeOK, OwnerInv, [Next]_vars PROVE OwnerInv'
    OBVIOUS
<1> USE DEF TypeOK, OwnerInv
<1>1. ASSUME NEW c \in Conns, Accept(c) PROVE OwnerInv'
    BY <1>1 DEF Accept
<1>2. ASSUME NEW c \in Conns, NewTakes(c) PROVE OwnerInv'
    BY <1>2 DEF NewTakes
<1>3. ASSUME NEW c \in Conns, NewMarks(c) PROVE OwnerInv'
    BY <1>3 DEF NewMarks
<1>4. ASSUME NEW c \in Conns, NewRejects(c) PROVE OwnerInv'
    BY <1>4 DEF NewRejects
<1>5. ASSUME NEW c \in Conns, ServeEnds(c) PROVE OwnerInv'
    BY <1>5 DEF ServeEnds
<1>6. ASSUME NEW c \in Conns, ClosedOwner(c) PROVE OwnerInv'
    BY <1>6 DEF ClosedOwner, Owns
<1>7. ASSUME NEW c \in Conns, ClosedReleases(c) PROVE OwnerInv'
    BY <1>7 DEF ClosedReleases
<1>8. ASSUME NEW c \in Conns, ClosedOther(c) PROVE OwnerInv'
    BY <1>8 DEF ClosedOther, Owns
<1>9. CASE UNCHANGED vars
    BY <1>9 DEF vars
<1> QED
    BY <1>1, <1>2, <1>3, <1>4, <1>5, <1>6, <1>7, <1>8, <1>9 DEF Next, Hook, AllGone

\* Only the token taken and the token released change the holders.
LEMMA SetStep ==
    ASSUME TypeOK, OwnerInv, [Next]_vars
    PROVE  \/ \E c \in Conns \ Holders : NewTakes(c) /\ Holders' = Holders \cup {c}
           \/ \E c \in Holders : ClosedReleases(c) /\ Holders' = Holders \ {c}
           \/ sem' = sem /\ Holders' = Holders
<1> USE DEF TypeOK, OwnerInv, Holders
<1>1. ASSUME NEW c \in Conns, Accept(c) \/ ServeEnds(c)
      PROVE  sem' = sem /\ Holders' = Holders
    BY <1>1 DEF Accept, ServeEnds
<1>2. ASSUME NEW c \in Conns, NewTakes(c)
      PROVE  c \in Conns \ Holders /\ Holders' = Holders \cup {c}
    BY <1>2 DEF NewTakes
<1>3. ASSUME NEW c \in Conns, NewMarks(c) \/ NewRejects(c)
      PROVE  sem' = sem /\ Holders' = Holders
    BY <1>3 DEF NewMarks, NewRejects
<1>4. ASSUME NEW c \in Conns, ClosedOwner(c) \/ ClosedOther(c)
      PROVE  sem' = sem /\ Holders' = Holders
    BY <1>4 DEF ClosedOwner, ClosedOther, Owns
<1>5. ASSUME NEW c \in Conns, ClosedReleases(c)
      PROVE  c \in Holders /\ Holders' = Holders \ {c}
    BY <1>5 DEF ClosedReleases
<1>6. CASE UNCHANGED vars
    BY <1>6 DEF vars
<1> HIDE DEF Holders
<1> QED
    BY <1>1, <1>2, <1>3, <1>4, <1>5, <1>6 DEF Next, Hook, AllGone

\* The semaphore keeps counting.
LEMMA CountStep == Inv /\ [Next]_vars => TokensMatch'
<1> SUFFICES ASSUME Inv, [Next]_vars PROVE TokensMatch'
    OBVIOUS
<1>0. TypeOK /\ OwnerInv /\ sem = Cardinality(Holders)
    BY DEF Inv, TokensMatch
<1>1. ASSUME NEW c \in Conns \ Holders, NewTakes(c), Holders' = Holders \cup {c}
      PROVE  TokensMatch'
  <2>1. Cardinality(Holders') = Cardinality(Holders) + 1
    BY <1>1, Finite, FS_AddElement
  <2> QED
    BY <1>0, <1>1, <2>1 DEF NewTakes, TokensMatch
<1>2. ASSUME NEW c \in Holders, ClosedReleases(c), Holders' = Holders \ {c}
      PROVE  TokensMatch'
  <2>1. Cardinality(Holders') = Cardinality(Holders) - 1
    BY <1>2, Finite, FS_RemoveElement
  <2> QED
    BY <1>0, <1>2, <2>1 DEF ClosedReleases, TokensMatch
<1>3. CASE sem' = sem /\ Holders' = Holders
    BY <1>0, <1>3 DEF TokensMatch
<1> QED
    BY <1>0, <1>1, <1>2, <1>3, SetStep

\* Inv is an invariant of the hook.
THEOREM Invariance == Spec => []Inv
<1>1. Inv /\ [Next]_vars => Inv'
    BY TypeStep, OwnerStep, CountStep DEF Inv
<1> QED
    BY InitInv, <1>1, PTL DEF Spec

\* The semaphore stays within its capacity, for any limit.
THEOREM TypeCorrect == Spec => []TypeOK
<1>1. Inv => TypeOK
    BY DEF Inv
<1> QED
    BY <1>1, Invariance, PTL

\* The semaphore counts the connections that hold a slot, whatever order served
\* and refused connections report StateClosed in.
THEOREM LimitKept == Spec => []TokensMatch
<1>1. Inv => TokensMatch
    BY DEF Inv
<1> QED
    BY <1>1, Invariance, PTL

----------------------------------------------------------------------------
\* The abstract set of taken slots is the set of holders, and is counted alike.
LEMMA HeldIsHolders == Limit!Held = Holders /\ \A S : Limit!Cardinality(S) = Cardinality(S)
<1>1. Limit!Held = Holders
    BY DEF Limit!Held, SlotOf, Holders
<1>2. \A S : Limit!Cardinality(S) = Cardinality(S)
    BY DEF Limit!Cardinality, Cardinality
<1> QED
    BY <1>1, <1>2

\* A step that moves no connection across a slot boundary stutters.
LEMMA LimitStutter ==
    ASSUME \A c \in Conns : SlotOf(c)' = SlotOf(c)
    PROVE  UNCHANGED [c \in Conns |-> SlotOf(c)]
OBVIOUS

\* A step that moves one connection changes one slot.
LEMMA LimitMove ==
    ASSUME NEW x \in Conns, NEW v, SlotOf(x)' = v,
           \A c \in Conns \ {x} : SlotOf(c)' = SlotOf(c)
    PROVE  [c \in Conns |-> SlotOf(c)]'
              = [[c \in Conns |-> SlotOf(c)] EXCEPT ![x] = v]
OBVIOUS

\* Every step of the hook is a step of the connection limit, or a stutter.
LEMMA LimitStep == Inv /\ [Next]_vars => [Limit!Next]_([c \in Conns |-> SlotOf(c)])
<1> SUFFICES ASSUME Inv, [Next]_vars
             PROVE  [Limit!Next]_([c \in Conns |-> SlotOf(c)])
    OBVIOUS
<1>0. /\ TypeOK /\ OwnerInv /\ MaxConns \in Nat /\ MaxConns > 0
      /\ Limit!Cardinality(Limit!Held) = sem
    BY HttpServerAssumption, HeldIsHolders DEF Inv, TokensMatch
<1>1. ASSUME NEW x \in Conns, NewTakes(x) PROVE Limit!Next
  <2>1. /\ SlotOf(x) = "none" /\ SlotOf(x)' = "held"
        /\ \A c \in Conns \ {x} : SlotOf(c)' = SlotOf(c)
    BY <1>0, <1>1 DEF NewTakes, TypeOK, OwnerInv, SlotOf, Holders
  <2>2. sem < MaxConns
    BY <1>1 DEF NewTakes
  <2> QED
    BY <1>0, <2>1, <2>2, LimitMove DEF Limit!Next, Limit!Take
<1>2. ASSUME NEW x \in Conns, NewRejects(x) PROVE Limit!Next
  <2>1. /\ SlotOf(x) = "none" /\ SlotOf(x)' = "refused"
        /\ \A c \in Conns \ {x} : SlotOf(c)' = SlotOf(c)
    BY <1>0, <1>2 DEF NewRejects, TypeOK, OwnerInv, SlotOf, Holders
  <2>2. sem = MaxConns
    BY <1>2 DEF NewRejects
  <2> QED
    BY <1>0, <2>1, <2>2, LimitMove DEF Limit!Next, Limit!Refuse
<1>3. ASSUME NEW x \in Conns, ClosedReleases(x) PROVE Limit!Next
  <2>1. /\ SlotOf(x) = "held" /\ SlotOf(x)' = "returned"
        /\ \A c \in Conns \ {x} : SlotOf(c)' = SlotOf(c)
    BY <1>0, <1>3 DEF ClosedReleases, TypeOK, OwnerInv, SlotOf, Holders
  <2> QED
    BY <2>1, LimitMove DEF Limit!Next, Limit!Return
<1>4. ASSUME NEW x \in Conns, Accept(x) \/ NewMarks(x) \/ ServeEnds(x)
      PROVE  \A c \in Conns : SlotOf(c)' = SlotOf(c)
    BY <1>0, <1>4 DEF Accept, NewMarks, ServeEnds, TypeOK, SlotOf, Holders
<1>5. ASSUME NEW x \in Conns, ClosedOwner(x) \/ ClosedOther(x)
      PROVE  \A c \in Conns : SlotOf(c)' = SlotOf(c)
    BY <1>0, <1>5 DEF ClosedOwner, ClosedOther, Owns, TypeOK, OwnerInv, SlotOf, Holders
<1>6. CASE UNCHANGED vars
  <2>1. \A c \in Conns : SlotOf(c)' = SlotOf(c)
    BY <1>6 DEF vars, SlotOf, Holders
  <2> QED
    BY <2>1, LimitStutter
<1> QED
    BY <1>1, <1>2, <1>3, <1>4, <1>5, <1>6, LimitStutter DEF Next, Hook, AllGone

\* The ConnState hook implements ConnLimit: the limit is never exceeded, nobody
\* is refused while a slot is free, and a slot is given back once.
THEOREM LimitImplemented == Spec => LimitSpec
<1>1. Init => Limit!Init
    BY DEF Init, Limit!Init, SlotOf, Holders
<1> QED
    BY <1>1, LimitStep, Invariance, PTL DEF Spec, LimitSpec, Limit!Spec
=============================================================================
