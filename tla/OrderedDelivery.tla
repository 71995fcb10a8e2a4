--------------------------- MODULE OrderedDelivery ---------------------------
(***************************************************************************)
(* What the dispatcher promises of its buffered registrations: each is a   *)
(* stream that takes every item at most once and handles its items in the  *)
(* order it took them, a gated stream only after the gate has opened.      *)
(***************************************************************************)
EXTENDS Integers, Sequences, Functions

CONSTANTS Streams, Gated, Items

VARIABLES taken, done, open

ovars == <<taken, done, open>>

OInit ==
    /\ taken = [s \in Streams |-> <<>>]
    /\ done  = [s \in Streams |-> <<>>]
    /\ open  = FALSE

TakeItem(s, i) ==
    /\ \A t \in Streams : i \notin Range(taken[t])
    /\ taken' = [taken EXCEPT ![s] = Append(@, i)]
    /\ UNCHANGED <<done, open>>

Handle(s) ==
    /\ s \in Gated => open
    /\ Len(done[s]) < Len(taken[s])
    /\ done' = [done EXCEPT ![s] = Append(@, taken[s][Len(@) + 1])]
    /\ UNCHANGED <<taken, open>>

Open == ~open /\ open' = TRUE /\ UNCHANGED <<taken, done>>

ONext ==
    \/ \E s \in Streams, i \in Items : TakeItem(s, i)
    \/ \E s \in Streams : Handle(s)
    \/ Open

OSpec == OInit /\ [][ONext]_ovars
=============================================================================
