---------------------------- MODULE RequestArray ----------------------------
(***************************************************************************)
(* What the requests array of a book promises to whoever reads it, without *)
(* devices, caches or queues.  A list of requests is only ever made by     *)
(* adding one fresh entry at the end of a list that existed before it; the *)
(* array shows one of the lists, and which one may change at any time,     *)
(* back to an older one too: that is what is left of a request when two    *)
(* people ask at the same time.                                            *)
(***************************************************************************)
EXTENDS Naturals, Sequences

CONSTANTS
    People,     \* those who can appear in a request
    Tickets     \* each request carries a ticket that no other one carries

VARIABLES
    array,      \* the list that the document shows
    lists,      \* the lists that exist somewhere
    used        \* the tickets that are spent

avars == <<array, lists, used>>

AInit ==
    /\ array = <<>>
    /\ lists = {<<>>}
    /\ used = {}

\* Somebody adds a request to a list; the document does not show it yet.
File ==
    \E person \in People, ticket \in Tickets \ used, list \in lists :
        /\ lists' \subseteq
             lists \cup {Append(list, [user |-> person, tap |-> ticket])}
        /\ used' = used \cup {ticket}
        /\ UNCHANGED array

\* The document shows one of the lists.
Show ==
    /\ array' \in lists
    /\ UNCHANGED <<lists, used>>

\* Lists that nobody needs are forgotten, tickets of abandoned requests spent.
Forget ==
    /\ lists' \subseteq lists
    /\ used \subseteq used'
    /\ UNCHANGED array

ANext == File \/ Show \/ Forget

ASpec == AInit /\ [][ANext]_avars
=============================================================================
