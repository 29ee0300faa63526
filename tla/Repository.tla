----------------------------- MODULE Repository -----------------------------
(***************************************************************************)
(* The repository handlers of the gitopia module                           *)
(* (x/gitopia/keeper/msg_server_repository.go) over the state they share:  *)
(* the repository records, the per-owner back-reference lists              *)
(* (User/Organization .Repositories), the per-owner name indexes           *)
(* (.RepositoryNames) and the repository ID counter.                       *)
(*                                                                         *)
(* Each handler runs to completion inside one transaction and its writes   *)
(* are committed only when it returns without error (the host rolls back   *)
(* on error or panic).  A handler is therefore one action whose guard is   *)
(* the conjunction of every early return of the code and whose effect is   *)
(* the set of writes it performs, in the code's order.                     *)
(***************************************************************************)
EXTENDS Naturals, Sequences, FiniteSets, SequencesExt, TLC

CONSTANTS
    Users,          \* addresses of the existing users (and message signers)
    Orgs,           \* ids of the existing organizations
    OrgOwners,      \* OrgOwners[o]: the members m with Members[m] = "Owner"
    Names,          \* repository names a message may carry
    Branches,       \* branch names a message may carry
    Master,         \* the default branch set by CreateRepository ("master")
    OwnerTypes,     \* the values of Owner.Type a message may carry
    MaxRepositories \* bound on the repository counter

ASSUME /\ OrgOwners \in [Orgs -> SUBSET Users]
       /\ Master \in Branches
       /\ {"User", "Organization"} \subseteq OwnerTypes
       /\ MaxRepositories \in Nat \ {0}

VARIABLES
    repositoryCount,      \* the persisted repository counter
    repository,           \* id -> repository record, for the ids in the store
    ownerRepositories,    \* owner -> Repositories (ordered list of ids)
    ownerRepositoryNames  \* owner -> RepositoryNames (name -> id)

vars == <<repositoryCount, repository, ownerRepositories, ownerRepositoryNames>>

RepositoryIds == 0 .. MaxRepositories - 1

\* The owners that exist in the store, as the {Type, ID} pair the code
\* unmarshals from a repository's Owner field.
UserOwner(u) == [type |-> "User", id |-> u]
OrgOwner(o) == [type |-> "Organization", id |-> o]
Owners == {UserOwner(u) : u \in Users} \cup {OrgOwner(o) : o \in Orgs}

\* The owners a message may name: the existing ones, and Owner JSON whose
\* Type is neither "User" nor "Organization" (json.Unmarshal accepts any
\* string there).
MsgOwners ==
    Owners \cup {[type |-> t, id |-> u] :
                    t \in OwnerTypes \ {"User", "Organization"}, u \in Users}

RepositoryRecord ==
    [name : Names, owner : MsgOwners, fork : BOOLEAN, parent : RepositoryIds,
     forks : Seq(RepositoryIds), branches : SUBSET Branches,
     defaultBranch : Branches, admins : SUBSET Users]

-----------------------------------------------------------------------------
(* Helpers                                                                 *)

\* Mutant: the delete of the old name is missing.
DeleteKeyMissing(m, n) == m

\* A map from names to ids with the key n removed (Go's delete on a map).
DeleteKey(m, n) == [k \in DOMAIN m \ {n} |-> m[k]]

\* Mutant: the splice drops the last element instead of the found one.
RemoveElementPopLast(s, id) == SubSeq(s, 1, Len(s) - 1)

\* ElementExists followed by append(s[:i], s[i+1:]...): the first
\* occurrence of id spliced out (callers check that there is one).
RemoveElement(s, id) == RemoveFirst(s, id)

\* The store writes k.SetUser / k.SetOrganization, dispatched on
\* Owner.Type: an owner of any other type is not written at all.
SetOwner(f, o, v) == IF o \in Owners THEN [f EXCEPT ![o] = v] ELSE f

\* The authorization of ChangeOwner, RenameRepository and DeleteRepository:
\* a User owner is the signer itself or a repository Admin; an
\* Organization owner needs Members[signer] = "Owner" or repository Admin.
\* For any other Type neither branch runs and nothing is checked.
CanAdminister(creator, id) ==
    LET o == repository[id].owner IN
    \/ o.type = "User" /\ (creator = o.id \/ creator \in repository[id].admins)
    \/ o.type = "Organization" /\ (creator \in OrgOwners[o.id]
                                   \/ creator \in repository[id].admins)
    \/ o.type \notin {"User", "Organization"}

\* Mutant: the Organization branch does not consult RepositoryNames.
CanCreateUnderNoOrgNameCheck(creator, o, name) ==
    \/ /\ o.type = "User" /\ creator = o.id
       /\ name \notin DOMAIN ownerRepositoryNames[o]
    \/ /\ o.type = "Organization" /\ creator \in OrgOwners[o.id]
    \/ o.type \notin {"User", "Organization"}

\* The checks of CreateRepository and ForkRepository on the new owner:
\* a User must be the signer (GetUserOwner of an existing user is the user
\* itself), an Organization must have the signer as "Owner" member, and
\* the name must be free in the owner's name index.
CanCreateUnder(creator, o, name) ==
    \/ /\ o.type = "User" /\ creator = o.id
       /\ name \notin DOMAIN ownerRepositoryNames[o]
    \/ /\ o.type = "Organization" /\ creator \in OrgOwners[o.id]
       /\ name \notin DOMAIN ownerRepositoryNames[o]
    \/ o.type \notin {"User", "Organization"}

\* The tail of CreateRepository and ForkRepository: append the new id to
\* the owner's Repositories and map its name to it, then write the owner.
AddToOwner(o, name, id) ==
    /\ ownerRepositories' =
          SetOwner(ownerRepositories, o, Append(ownerRepositories[o], id))
    /\ ownerRepositoryNames' =
          SetOwner(ownerRepositoryNames, o,
                   (name :> id) @@ ownerRepositoryNames[o])

\* Mutant: the id is the number of repositories in the store.
NewRepositoryIdFromStoreSize == Cardinality(DOMAIN repository)

\* GetRepositoryCount: the id AppendRepository gives the next repository.
NewRepositoryId == repositoryCount

\* AppendRepository: store.Set of the record under the new id (an upsert),
\* followed by SetRepositoryCount(count + 1).
AppendRepository(store, rec) == (NewRepositoryId :> rec) @@ store

IncrementRepositoryCount ==
    /\ repositoryCount < MaxRepositories
    /\ repositoryCount' = NewRepositoryId + 1

NewRepository(creator, o, name) ==
    [name |-> name, owner |-> o, fork |-> FALSE, parent |-> 0, forks |-> <<>>,
     branches |-> {}, defaultBranch |-> Master, admins |-> {}]

-----------------------------------------------------------------------------
(* Handlers                                                                *)

CreateRepository(creator, o, name) ==
    /\ CanCreateUnder(creator, o, name)
    /\ IncrementRepositoryCount
    /\ repository' = AppendRepository(repository, NewRepository(creator, o, name))
    /\ AddToOwner(o, name, NewRepositoryId)

ChangeOwner(creator, id, newOwner) ==
    LET repo == repository[id]
        cur == repo.owner
    IN
    /\ id \in DOMAIN repository
    /\ CanAdminister(creator, id)
    /\ cur \in Owners => Contains(ownerRepositories[cur], id)
    /\ newOwner \in Owners =>
          repo.name \notin DOMAIN ownerRepositoryNames[newOwner]
    /\ repository' = [repository EXCEPT ![id].owner = newOwner]
    \* currentUser/currentOrganization and newUser/newOrganization are two
    \* copies read from the store; the current owner is written first and
    \* the new owner second, so the second write wins when they coincide.
    /\ ownerRepositories' =
          SetOwner(SetOwner(ownerRepositories, cur,
                            RemoveElement(ownerRepositories[cur], id)),
                   newOwner, Append(ownerRepositories[newOwner], id))
    /\ ownerRepositoryNames' =
          SetOwner(SetOwner(ownerRepositoryNames, cur,
                            DeleteKey(ownerRepositoryNames[cur], repo.name)),
                   newOwner,
                   (repo.name :> id) @@ ownerRepositoryNames[newOwner])
    /\ UNCHANGED repositoryCount

\* The fork: the parent's Name, Description, Branches, DefaultBranch,
\* License and Commits, with Fork = true, Parent = the parent's id, the
\* new Owner, and no Forks or Collaborators.
ForkRecord(repo, id, o) ==
    [repo EXCEPT !.owner = o, !.fork = TRUE, !.parent = id, !.forks = <<>>,
                 !.admins = {}]

ForkRepository(creator, id, o) ==
    LET repo == repository[id]
        forkId == NewRepositoryId
        forkRepo == ForkRecord(repo, id, o)
    IN
    /\ id \in DOMAIN repository
    /\ CanCreateUnder(creator, o, repo.name)
    /\ IncrementRepositoryCount
    \* AppendRepository(forkRepo), then SetRepository of the parent as read
    \* before the append, with the fork's id appended to its Forks.
    /\ repository' = (id :> [repo EXCEPT !.forks = Append(@, forkId)])
                     @@ AppendRepository(repository, forkRepo)
    /\ AddToOwner(o, repo.name, forkId)

RenameRepository(creator, id, name) ==
    LET repo == repository[id]
        o == repo.owner
    IN
    /\ id \in DOMAIN repository
    /\ CanAdminister(creator, id)
    /\ o \in Owners =>
          \* a missing name index decodes as a nil map, and the
          \* assignment RepositoryNames[msg.Name] = ... panics on it
          /\ DOMAIN ownerRepositoryNames[o] # {}
          /\ name \notin DOMAIN ownerRepositoryNames[o]
    /\ ownerRepositoryNames' =
          SetOwner(ownerRepositoryNames, o,
                   (name :> id) @@ DeleteKey(ownerRepositoryNames[o], repo.name))
    /\ repository' = [repository EXCEPT ![id].name = name]
    /\ UNCHANGED <<repositoryCount, ownerRepositories>>

\* The signer must equal Owner.ID: only a User owner's own address passes.
IsOwnerId(creator, id) == repository[id].owner.id = creator

CreateBranch(creator, id, branch) ==
    /\ id \in DOMAIN repository
    /\ IsOwnerId(creator, id)
    /\ repository' = [repository EXCEPT ![id].branches = @ \cup {branch}]
    /\ UNCHANGED <<repositoryCount, ownerRepositories, ownerRepositoryNames>>

SetDefaultBranch(creator, id, branch) ==
    /\ id \in DOMAIN repository
    /\ IsOwnerId(creator, id)
    /\ branch \in repository[id].branches
    /\ repository' = [repository EXCEPT ![id].defaultBranch = branch]
    /\ UNCHANGED <<repositoryCount, ownerRepositories, ownerRepositoryNames>>

DeleteBranch(creator, id, branch) ==
    /\ id \in DOMAIN repository
    /\ IsOwnerId(creator, id)
    /\ branch \in repository[id].branches
    /\ repository[id].defaultBranch # branch
    /\ repository' = [repository EXCEPT ![id].branches = @ \ {branch}]
    /\ UNCHANGED <<repositoryCount, ownerRepositories, ownerRepositoryNames>>

\* Overwrites Name and DefaultBranch (with Description, Labels, License)
\* from the message; neither the name index nor the branch set is consulted.
UpdateRepository(creator, id, name, branch) ==
    /\ id \in DOMAIN repository
    /\ IsOwnerId(creator, id)
    /\ repository' = [repository EXCEPT ![id].name = name,
                                        ![id].defaultBranch = branch]
    /\ UNCHANGED <<repositoryCount, ownerRepositories, ownerRepositoryNames>>

DeleteRepository(creator, id) ==
    LET repo == repository[id]
        o == repo.owner
    IN
    /\ id \in DOMAIN repository
    /\ CanAdminister(creator, id)
    /\ o \in Owners =>
          /\ repo.name \in DOMAIN ownerRepositoryNames[o]
          /\ Contains(ownerRepositories[o], id)
    /\ ownerRepositoryNames' =
          SetOwner(ownerRepositoryNames, o,
                   DeleteKey(ownerRepositoryNames[o], repo.name))
    /\ ownerRepositories' =
          SetOwner(ownerRepositories, o, RemoveElement(ownerRepositories[o], id))
    \* RemoveRepository deletes the record only; the parent's Forks keeps it.
    /\ repository' = [i \in DOMAIN repository \ {id} |-> repository[i]]
    /\ UNCHANGED repositoryCount

\* Granting a signer the "Admin" role in Collaborators, which the
\* authorization of ChangeOwner, Rename and Delete consults.
UpdateRepositoryCollaborator(creator, id, user) ==
    /\ id \in DOMAIN repository
    /\ CanAdminister(creator, id)
    /\ repository' = [repository EXCEPT ![id].admins = @ \cup {user}]
    /\ UNCHANGED <<repositoryCount, ownerRepositories, ownerRepositoryNames>>

-----------------------------------------------------------------------------
(* Specification                                                           *)

Init ==
    /\ repositoryCount = 0
    /\ repository = <<>>
    /\ ownerRepositories = [o \in Owners |-> <<>>]
    /\ ownerRepositoryNames = [o \in Owners |-> <<>>]

\* Every handler except UpdateRepository.
IndexedNext ==
    \E c \in Users :
        \/ \E o \in MsgOwners, n \in Names : CreateRepository(c, o, n)
        \/ \E id \in DOMAIN repository :
            \/ \E o \in MsgOwners : ChangeOwner(c, id, o)
            \/ \E o \in MsgOwners : ForkRepository(c, id, o)
            \/ \E n \in Names : RenameRepository(c, id, n)
            \/ \E b \in Branches : CreateBranch(c, id, b)
            \/ \E b \in Branches : SetDefaultBranch(c, id, b)
            \/ \E b \in Branches : DeleteBranch(c, id, b)
            \/ DeleteRepository(c, id)
            \/ \E u \in Users : UpdateRepositoryCollaborator(c, id, u)

Next ==
    \/ IndexedNext
    \/ \E c \in Users, id \in DOMAIN repository, n \in Names, b \in Branches :
          UpdateRepository(c, id, n, b)

IndexedSpec == Init /\ [][IndexedNext]_vars
Spec == Init /\ [][Next]_vars

-----------------------------------------------------------------------------
(* Properties                                                              *)

TypeOK ==
    /\ repositoryCount \in 0 .. MaxRepositories
    /\ DOMAIN repository \subseteq RepositoryIds
    /\ \A i \in DOMAIN repository : repository[i] \in RepositoryRecord
    /\ ownerRepositories \in [Owners -> Seq(RepositoryIds)]
    /\ \A o \in Owners :
          ownerRepositoryNames[o] \in [DOMAIN ownerRepositoryNames[o] -> RepositoryIds]
    /\ \A o \in Owners : DOMAIN ownerRepositoryNames[o] \subseteq Names

OwnedBy(o) == {i \in DOMAIN repository : repository[i].owner = o}

(* Back-references agree with the records (spec 3, "every ID referenced in *)
(* an owner's Repositories list must correspond to an existing Repository  *)
(* whose Owner points back"): every stored repository names an existing   *)
(* owner, and each owner's Repositories list holds exactly the ids of the  *)
(* repositories that name it, each once.  It is kept by CreateRepository,  *)
(* ForkRepository, ChangeOwner and DeleteRepository together.              *)
OwnerListsConsistent ==
    /\ \A i \in DOMAIN repository : repository[i].owner \in Owners
    /\ \A o \in Owners :
          /\ ToSet(ownerRepositories[o]) = OwnedBy(o)
          /\ Len(ownerRepositories[o]) = Cardinality(OwnedBy(o))

(* The per-owner name index is exactly the names of the repositories the   *)
(* owner holds, each mapped to its repository: no dangling or stale entry  *)
(* survives a create, rename, transfer, fork or delete, and so names are   *)
(* unique per owner (spec 3 and 8, "create, rename, delete leaves no       *)
(* dangling name entry").                                                  *)
NameIndexConsistent ==
    \A o \in Owners :
        LET idx == ownerRepositoryNames[o] IN
        /\ DOMAIN idx = {repository[i].name : i \in OwnedBy(o)}
        /\ Cardinality(DOMAIN idx) = Cardinality(OwnedBy(o))
        /\ \A n \in DOMAIN idx : idx[n] \in OwnedBy(o) /\ repository[idx[n]].name = n

(* Within one owner's namespace repository names are unique (spec 3).      *)
UniqueNamePerOwner ==
    \A i, j \in DOMAIN repository :
        i # j /\ repository[i].owner = repository[j].owner
            => repository[i].name # repository[j].name

(* A parent's Forks list never points at a live repository that is not its *)
(* fork: ForkRepository links both sides, and neither a later delete nor   *)
(* the ids handed out afterwards may make an entry name another            *)
(* repository (spec 3: stale entries may only point at deleted ones).      *)
ForkLinksConsistent ==
    \A p \in DOMAIN repository :
        \A f \in ToSet(repository[p].forks) :
            f \in DOMAIN repository =>
                repository[f].fork /\ repository[f].parent = p

(* A default branch that names an existing branch keeps naming one: no   *)
(* step points DefaultBranch at a missing branch or deletes the branch it *)
(* points at (spec 4.4 and 8: setting the default to a nonexistent branch *)
(* fails, the default branch cannot be deleted).  SetDefaultBranch and    *)
(* DeleteBranch check it; UpdateRepository writes DefaultBranch from the  *)
(* message.  CreateRepository's initial "master" names no branch until    *)
(* one is created, so the property is about steps from a sound default.   *)
DefaultBranchStaysABranch ==
    [][\A i \in DOMAIN repository \cap DOMAIN repository' :
          repository[i].defaultBranch \in repository[i].branches
              => repository'[i].defaultBranch \in repository'[i].branches]_vars

\* The registry the handlers maintain: each live repository's owner and
\* name, and the repository counter as the next id.
Registry == INSTANCE RepositoryRegistry
    WITH RegistryOwners <- Owners,
         registry <- [i \in DOMAIN repository |->
                        [owner |-> repository[i].owner, name |-> repository[i].name]],
         nextId <- repositoryCount

(* The handlers implement the abstract registry: every step creates a      *)
(* repository under a fresh id with a name its owner does not use, moves  *)
(* one to an owner without that name, renames one to a name unused by its *)
(* owner, deletes one, or leaves owners and names alone.  The handlers     *)
(* check uniqueness against the RepositoryNames index, not against the     *)
(* repositories, so this holds only while that index is exact.            *)
RegistryRefinement == Registry!Spec

=============================================================================
