------------------------------ MODULE OrgPaging ------------------------------
(***************************************************************************)
(* OrganizationRepositoryAll paged while the organization's Repositories  *)
(* list changes between two queries: each page is computed over the list  *)
(* as committed when it is asked for (grpc_query_organization.go reads     *)
(* organization.Repositories afresh), and between pages a transaction may *)
(* remove a repository from the list (DeleteRepository, or ChangeOwner    *)
(* away from the organization: ElementExists and a splice) or append one  *)
(* (CreateRepository, ForkRepository, ChangeOwner to the organization).    *)
(*                                                                         *)
(* Two history variables record which repositories were in the list when  *)
(* the client started and which have been removed since.                   *)
(***************************************************************************)
EXTENDS Pagination, FiniteSets

VARIABLES
    startIds,  \* the repositories in the list before the first page
    removed,   \* the repositories removed from the list since then
    pages      \* the queries the client has made

orgVars == <<vars, startIds, removed, pages>>

\* Each page but the last moves the cursor forward, and the list never
\* holds more than MaxLength ids, so a session needs at most MaxLength + 1
\* queries; counting them makes a client that repeats one query visible.
MaxPages == MaxLength + 1

\* The org branch of DeleteRepository and ChangeOwner: the id's first
\* occurrence is spliced out of organization.Repositories.
OrganizationRepositoryRemoved(id) ==
    /\ phase = "paging"
    /\ Contains(list, id)
    /\ list' = RemoveFirst(list, id)
    /\ removed' = removed \cup {id}
    /\ UNCHANGED <<limit, cursor, collected, phase, startIds, pages>>

\* The org branch of CreateRepository and ForkRepository: the new
\* repository's id, the next value of the counter, is appended.
OrganizationRepositoryAppended ==
    LET id == Len(list) + Cardinality(removed) + 1 IN
    /\ phase = "paging"
    /\ id <= MaxLength
    /\ list' = Append(list, id)
    /\ UNCHANGED <<limit, cursor, collected, phase, startIds, removed, pages>>

\* The org branch of ChangeOwner to the organization: the id of an
\* existing repository the organization does not hold is appended.  A
\* repository transferred away while the client paged may come back this
\* way (a repository of another owner enters as an id not yet seen, the
\* shape OrganizationRepositoryAppended already gives).
OrganizationRepositoryTransferredIn(id) ==
    /\ phase = "paging"
    /\ id \in removed
    /\ ~Contains(list, id)
    /\ list' = Append(list, id)
    /\ UNCHANGED <<limit, cursor, collected, phase, startIds, removed, pages>>

OrgInit ==
    /\ Init
    /\ startIds = ToSet(list)
    /\ removed = {}
    /\ pages = 0

\* A query of the client: the first page or one that follows NextKey.
ClientQuery ==
    /\ pages < MaxPages
    /\ Next
    /\ pages' = pages + 1
    /\ UNCHANGED <<startIds, removed>>

OrgNext ==
    \/ ClientQuery
    \/ \E id \in 1 .. MaxLength : OrganizationRepositoryRemoved(id)
    \/ OrganizationRepositoryAppended
    \/ \E id \in 1 .. MaxLength : OrganizationRepositoryTransferredIn(id)

OrgSpec == OrgInit /\ [][OrgNext]_orgVars

\* The client keeps following NextKey: a query always runs to completion
\* (spec 5), so only the client's persistence is assumed.  The handlers
\* that change the list get no fairness: no transaction has to happen.
ClientFairness == phase = "paging" /\ ClientQuery

OrgFairSpec == OrgSpec /\ WF_orgVars(ClientFairness)

(* The client never receives a repository twice (spec 8: cursor-         *)
(* following returns the items with no duplicates).  A repository        *)
(* transferred away after it was delivered and transferred back before   *)
(* paging ends is appended behind the cursor's window and delivered again. *)
NoDuplicateDelivery ==
    \A i, j \in 1 .. Len(collected) : i < j => collected[i] # collected[j]

(* While nothing is removed, appends between pages hide nothing: the      *)
(* client receives a prefix of the list in order, and the whole list,     *)
(* the repositories appended while it paged included, once paging ends.    *)
DeliveredInOrderWithoutRemovals ==
    removed = {} => CollectedInOrder

(* A client that keeps following NextKey reaches the end of the list (or *)
(* the key-cursor failure): every page the pager returns moves the cursor *)
(* forward, so however the list changes in between, paging terminates.     *)
PagingTerminates ==
    phase = "paging" ~> phase \in {"done", "failed"}

(* Every repository that was in the organization when the client started  *)
(* and was never removed is among the repositories it received once       *)
(* paging ends (spec 8: cursor-following returns every item).              *)
EveryStayingRepositoryDelivered ==
    phase = "done" => startIds \ removed \subseteq ToSet(collected)

=============================================================================
