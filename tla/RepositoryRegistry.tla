------------------------- MODULE RepositoryRegistry -------------------------
(***************************************************************************)
(* What the repository handlers promise, with the indexes abstracted away  *)
(* (spec 3 and 4.4): a registry of repositories, each with an id that is   *)
(* never reused, an owner and a name that is unique among the repositories *)
(* of that owner.  Repositories are created (CreateRepository and          *)
(* ForkRepository), transferred, renamed and deleted; every other handler *)
(* leaves the registry unchanged.                                          *)
(***************************************************************************)
EXTENDS Naturals

CONSTANTS
    RegistryOwners,  \* the owners a repository may have
    Names,           \* repository names
    MaxRepositories  \* bound on the number of ids handed out

VARIABLES
    registry,  \* id -> [owner, name] for the live repositories
    nextId     \* the next id to hand out

NameTaken(o, n) == \E i \in DOMAIN registry : registry[i] = [owner |-> o, name |-> n]

Create(o, n) ==
    /\ nextId < MaxRepositories
    /\ ~NameTaken(o, n)
    /\ registry' = [i \in DOMAIN registry \cup {nextId} |->
                      IF i = nextId THEN [owner |-> o, name |-> n] ELSE registry[i]]
    /\ nextId' = nextId + 1

Transfer(id, o) ==
    /\ ~NameTaken(o, registry[id].name)
    /\ registry' = [registry EXCEPT ![id].owner = o]
    /\ UNCHANGED nextId

Rename(id, n) ==
    /\ ~NameTaken(registry[id].owner, n)
    /\ registry' = [registry EXCEPT ![id].name = n]
    /\ UNCHANGED nextId

Delete(id) ==
    /\ registry' = [i \in DOMAIN registry \ {id} |-> registry[i]]
    /\ UNCHANGED nextId

Init ==
    /\ registry = <<>>
    /\ nextId = 0

Next ==
    \/ \E o \in RegistryOwners, n \in Names : Create(o, n)
    \/ \E id \in DOMAIN registry :
          \/ \E o \in RegistryOwners : Transfer(id, o)
          \/ \E n \in Names : Rename(id, n)
          \/ Delete(id)

Spec == Init /\ [][Next]_<<registry, nextId>>

=============================================================================
