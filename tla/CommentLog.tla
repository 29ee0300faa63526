----------------------------- MODULE CommentLog -----------------------------
(***************************************************************************)
(* What the comment store promises (spec 4.1, 4.2 and 8): every appended   *)
(* comment gets the next id of a counter that only grows, so ids are never *)
(* reused; a comment keeps its creator; it can be edited by id or removed. *)
(***************************************************************************)
EXTENDS Naturals, TLC

CONSTANTS LogCreators, LogBodies

VARIABLES
    log,     \* id -> [creator, body] for the comments in the store
    nextId   \* the id the next comment gets

Append(c, b) ==
    /\ log' = (nextId :> [creator |-> c, body |-> b]) @@ log
    /\ nextId' = nextId + 1

Edit(id, b) ==
    /\ id \in DOMAIN log
    /\ log' = [log EXCEPT ![id].body = b]
    /\ UNCHANGED nextId

Remove(id) ==
    /\ id \in DOMAIN log
    /\ log' = [i \in DOMAIN log \ {id} |-> log[i]]
    /\ UNCHANGED nextId

Init ==
    /\ log = <<>>
    /\ nextId = 0

Next ==
    \/ \E c \in LogCreators, b \in LogBodies : Append(c, b)
    \/ \E id \in DOMAIN log, b \in LogBodies : Edit(id, b)
    \/ \E id \in DOMAIN log : Remove(id)

\* Ids only grow and the store never holds an id not yet handed out.
Spec == Init /\ [][Next /\ \A i \in DOMAIN log' : i < nextId']_<<log, nextId>>

=============================================================================
