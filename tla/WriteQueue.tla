----------------------------- MODULE WriteQueue ------------------------------
(***************************************************************************)
(* What the app takes a Firestore write to be: every user of the device    *)
(* has a queue of writes that outlives the process, the backend decides    *)
(* them in the order of the queue, and the completion of a write, while    *)
(* the process that passed it lives, runs once and after the decision.     *)
(* WritePipeline, the client that does it over streams that break, is      *)
(* shown to implement this module.                                         *)
(***************************************************************************)
EXTENDS Naturals, Sequences

CONSTANTS Users, Writes

VARIABLES
    waiting,        \* the writes of each user that have not left the queue
    promised,       \* writes whose completion this process still has to run
    outcome,        \* what the completion of a write was told
    committed,      \* writes that the backend has applied
    rejected        \* writes that the backend has refused

vars == <<waiting, promised, outcome, committed, rejected>>

Outcomes == {"none", "ok", "error"}
Decided(w) == w \in committed \/ w \in rejected
Fresh(w) == /\ outcome[w] = "none" /\ ~ Decided(w)
            /\ \A u \in Users : \A k \in 1 .. Len(waiting[u]) : waiting[u][k] # w

Init ==
    /\ waiting = [u \in Users |-> <<>>]
    /\ promised = {}
    /\ outcome = [w \in Writes |-> "none"]
    /\ committed = {}
    /\ rejected = {}

Submit(u, w) ==
    /\ Fresh(w)
    /\ waiting' = [waiting EXCEPT ![u] = Append(@, w)]
    /\ promised' = promised \cup {w}
    /\ UNCHANGED <<outcome, committed, rejected>>

\* The backend takes the writes of a user in the order of his queue; it may
\* be given one again whose decision did not arrive, and decide differently.
Decide(u, k) ==
    /\ \A j \in 1 .. k - 1 : Decided(waiting[u][j])
    /\ \/ committed' = committed \cup {waiting[u][k]} /\ UNCHANGED rejected
       \/ rejected' = rejected \cup {waiting[u][k]} /\ UNCHANGED committed
    /\ UNCHANGED <<waiting, promised, outcome>>

\* The decision arrives.  "ok" is always true; that "error" is true as well
\* is not promised (see ErrorIsTrue in WritePipeline).
Settle(u, answer) ==
    /\ waiting[u] # <<>>
    /\ LET w == Head(waiting[u])
       IN  /\ Decided(w)
           /\ answer = "ok" => w \in committed
           /\ outcome' = IF w \in promised THEN [outcome EXCEPT ![w] = answer]
                                           ELSE outcome
           /\ promised' = promised \ {w}
    /\ waiting' = [waiting EXCEPT ![u] = Tail(@)]
    /\ UNCHANGED <<committed, rejected>>

\* The process ends, and with it the completions.
Forget == promised' = {} /\ UNCHANGED <<waiting, outcome, committed, rejected>>

Next ==
    \/ \E u \in Users : \/ \E w \in Writes : Submit(u, w)
                        \/ \E k \in 1 .. Len(waiting[u]) : Decide(u, k)
                        \/ \E answer \in {"ok", "error"} : Settle(u, answer)
    \/ Forget

Spec == Init /\ [][Next]_vars
=============================================================================
