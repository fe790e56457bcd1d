----------------------------- MODULE ConnLimit -----------------------------
(***************************************************************************)
(* What server.maxconns promises, for the TCP and for the HTTP server      *)
(* alike: at most Max connections are served at a time, a connection is    *)
(* refused only when Max are being served, and a slot that was taken is    *)
(* given back once. Max = 0 means no limit.                                *)
(***************************************************************************)
EXTENDS Naturals, FiniteSets

CONSTANTS Conns,   \* the connections clients open
          Max      \* server.maxconns

VARIABLE slot      \* slot[c]: "none", then "held" and "returned", or "refused"

Init == slot = [c \in Conns |-> "none"]

Held == {c \in Conns : slot[c] = "held"}

Take(c) ==
    /\ slot[c] = "none"
    /\ Max > 0 => Cardinality(Held) < Max
    /\ slot' = [slot EXCEPT ![c] = "held"]

Refuse(c) ==
    /\ slot[c] = "none"
    /\ Max > 0 /\ Cardinality(Held) = Max
    /\ slot' = [slot EXCEPT ![c] = "refused"]

Return(c) ==
    /\ slot[c] = "held"
    /\ slot' = [slot EXCEPT ![c] = "returned"]

Next == \E c \in Conns : Take(c) \/ Refuse(c) \/ Return(c)

Spec == Init /\ [][Next]_slot
=============================================================================
