------------------------------ MODULE Recording ------------------------------
(***************************************************************************)
(* What the recorder promises of the samples a game sends.  The game goes  *)
(* from mission to mission.  In each it makes records of things and sends  *)
(* samples of them, on several streams.  The samples of a stream are dealt *)
(* with one after the other: each is put at the end of one record of the   *)
(* running mission, or is discarded because the game or the recorder has   *)
(* left its mission.  If the game is orderly, which is to say that         *)
(* it announces a mission only when nothing is pending, a record gets      *)
(* samples of its own thing and of the running mission only.               *)
(***************************************************************************)
EXTENDS Sequences

CONSTANTS Missions, Streams, Things, None

VARIABLES
    orderly,   \* does the game announce a mission only when nothing is pending?
    current,   \* the mission the game is in
    running,   \* the mission that is recorded
    pending,   \* per stream: the samples sent and not dealt with
    recorded   \* per stream: the records of the running mission, by a key

cvars == <<orderly, current, running, pending, recorded>>

NoRecords == [s \in Streams |-> [key \in {} |-> None]]

CInit ==
    /\ orderly \in BOOLEAN
    /\ current = None /\ running = None
    /\ pending = [s \in Streams |-> <<>>]
    /\ recorded = NoRecords

Announce(m) ==
    /\ orderly => \A s \in Streams : pending[s] = <<>>
    /\ current' = m
    /\ UNCHANGED <<orderly, running, pending, recorded>>

Begin ==
    /\ current # None
    /\ running' = current
    /\ recorded' = NoRecords
    /\ UNCHANGED <<orderly, current, pending>>

End ==
    /\ running' = None
    /\ recorded' = NoRecords
    /\ UNCHANGED <<orderly, current, pending>>

\* A new record of x.  It may take the place of another one of x.
MakeRecord(s, key, x) ==
    /\ running = current
    /\ key \in DOMAIN recorded[s] => recorded[s][key].of = x
    /\ recorded' = [recorded EXCEPT ![s] =
           [k \in DOMAIN @ \union {key} |->
                IF k = key THEN [of |-> x, src |-> current, samples |-> <<>>]
                ELSE @[k]]]
    /\ UNCHANGED <<orderly, current, running, pending>>

Send(s, x) ==
    /\ current # None
    /\ pending' = [pending EXCEPT ![s] = Append(@, [src |-> current, of |-> x])]
    /\ UNCHANGED <<orderly, current, running, recorded>>

Record(s, key) ==
    /\ pending[s] # <<>>
    /\ key \in DOMAIN recorded[s]
    /\ orderly => /\ recorded[s][key].of = Head(pending[s]).of
                  /\ running = Head(pending[s]).src
    /\ recorded' = [recorded EXCEPT ![s][key].samples = Append(@, Head(pending[s]))]
    /\ pending' = [pending EXCEPT ![s] = Tail(@)]
    /\ UNCHANGED <<orderly, current, running>>

Discard(s) ==
    /\ pending[s] # <<>>
    /\ ~(Head(pending[s]).src = running /\ running = current)
    /\ pending' = [pending EXCEPT ![s] = Tail(@)]
    /\ UNCHANGED <<orderly, current, running, recorded>>

\* A key is that of a record before the step or after it.
CNext ==
    \/ \E m \in Missions : Announce(m)
    \/ Begin \/ End
    \/ \E s \in Streams, x \in Things : Send(s, x)
    \/ \E s \in Streams : \E key \in DOMAIN recorded'[s], x \in Things :
           MakeRecord(s, key, x)
    \/ \E s \in Streams : \E key \in DOMAIN recorded[s] : Record(s, key)
    \/ \E s \in Streams : Discard(s)

CSpec == CInit /\ [][CNext]_cvars
=============================================================================
