------------------------------- MODULE Relay -------------------------------
(***************************************************************************)
(* What one proxied TCP connection promises its two peers, whatever the    *)
(* goroutines behind it do: each direction is a FIFO stream, delivered     *)
(* without loss, duplication or reordering up to some point, optionally    *)
(* behind a one-unit preamble (the PROXY protocol header); and once the    *)
(* connection is over nothing more is delivered.                           *)
(*                                                                         *)
(* Unit n of direction d is the n-th unit its source sent; unit 0 is the   *)
(* preamble.                                                               *)
(***************************************************************************)
EXTENDS Naturals, Sequences

CONSTANTS Dirs,        \* the directions of the connection
          Preamble     \* Preamble[d] = 1 if direction d starts with unit 0, else 0

VARIABLES sent,        \* sent[d]: units the source of d has sent
          out,         \* out[d]: units delivered to the destination of d
          over         \* the connection has been given back to its owner

relayVars == <<sent, out, over>>

Init ==
    /\ sent = [d \in Dirs |-> 0]
    /\ out = [d \in Dirs |-> <<>>]
    /\ over = FALSE

\* The k units of direction d that follow the delivered ones.
NextUnits(d, k) == [i \in 1..k |-> Len(out[d]) + i - Preamble[d]]

Send(d) ==
    /\ sent' = [sent EXCEPT ![d] = @ + 1]
    /\ UNCHANGED <<out, over>>

\* Some units that were sent and not yet delivered arrive, in order.
Deliver(d) ==
    /\ ~over
    /\ \E k \in 1..(sent[d] + Preamble[d] - Len(out[d])) :
          out' = [out EXCEPT ![d] = @ \o NextUnits(d, k)]
    /\ UNCHANGED <<sent, over>>

End ==
    /\ over' = TRUE
    /\ UNCHANGED <<sent, out>>

Next ==
    \/ \E d \in Dirs : Send(d) \/ Deliver(d)
    \/ End

Spec == Init /\ [][Next]_relayVars
=============================================================================
