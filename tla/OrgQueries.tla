----------------------------- MODULE OrgQueries -----------------------------
(***************************************************************************)
(* The organization queries of keeper/grpc_query_organization.go over the *)
(* state the repository handlers write: Organization, the two-step name   *)
(* resolution of OrganizationByName (Whois name -> decimal id text ->     *)
(* organization record), and OrganizationRepository, which resolves the  *)
(* organization and then looks a repository up by name in its             *)
(* Repositories list (utils.OrganizationRepositoryExists, not under src/; *)
(* taken from its use at line 171: the index of the first entry whose     *)
(* repository has that name, and whether there is one).                   *)
(*                                                                         *)
(* The handlers find a repository by name through RepositoryNames; this    *)
(* query finds it by scanning Repositories.  Entries carry the id; the     *)
(* name an entry answers to is the name of the record stored under it.    *)
(***************************************************************************)
EXTENDS Repository

CONSTANTS
    Whois,       \* Whois name -> Address: an organization id, or the
                 \* bech32 address of a user, or an id with no record
    QueryNames,  \* the OrganizationName values a query may carry
    DefaultLimit \* keeper.DefaultLimit, the page size for a zero Limit

ASSUME /\ DOMAIN Whois \subseteq QueryNames
       /\ DefaultLimit \in Nat \ {0}

ErrKeyNotFound == "ErrKeyNotFound"
ErrInvalidRequest == "ErrInvalidRequest"

\* A query's answer: the error, or "none" and the response.
Response(v) == [err |-> "none", val |-> v]
Error(e) == [err |-> e]

\* The pager of OrganizationRepositoryAll, as an operator over a list; the
\* client state of the Pagination module plays no part here.
Pager == INSTANCE Pagination
           WITH MaxLength <- MaxRepositories, Limits <- {0},
                NoKey <- "nil", NoTotal <- "nil",
                list <- <<>>, limit <- 0, cursor <- "nil",
                collected <- <<>>, phase <- "idle"

\* MustUnmarshalBinaryBare of repositoryStore.Get(id): the zero Repository
\* when no record is stored under the id.
ZeroRepository ==
    [name |-> "", owner |-> [type |-> "", id |-> ""], fork |-> FALSE,
     parent |-> 0, forks |-> <<>>, branches |-> {}, defaultBranch |-> "",
     admins |-> {}]
StoredRepository(id) ==
    IF id \in DOMAIN repository THEN repository[id] ELSE ZeroRepository

\* Organization: HasOrganization, then the record (its Repositories).
Organization(id) ==
    IF id \in Orgs THEN Response(OrgOwner(id)) ELSE Error(ErrKeyNotFound)

\* OrganizationByName: HasWhois; strconv.ParseUint(whois.Address), which
\* fails with InvalidRequest for a user's bech32 address; then
\* Organization of the parsed id.
OrganizationByName(name) ==
    CASE name \notin DOMAIN Whois -> Error(ErrKeyNotFound)
      [] Whois[name] \in Users    -> Error(ErrInvalidRequest)
      [] OTHER                    -> Organization(Whois[name])

\* OrganizationRepositoryExists: the first entry of the list whose
\* repository, as read from the store, has the name.
OrganizationRepositoryExists(lst, repoName) ==
    SelectInSeq(lst, LAMBDA id : StoredRepository(id).name = repoName)

\* OrganizationRepository: the organization by name, then the record
\* stored under the entry OrganizationRepositoryExists finds (line 173
\* reads it with no HasRepository check), or ErrKeyNotFound.
OrganizationRepository(name, repoName) ==
    LET org == OrganizationByName(name) IN
    IF org.err # "none" THEN org
    ELSE LET lst == ownerRepositories[org.val]
             i == OrganizationRepositoryExists(lst, repoName)
         IN  IF i = 0 THEN Error(ErrKeyNotFound)
             ELSE Response(StoredRepository(lst[i]))

\* OrganizationRepositoryAll: the organization by name, then
\* PaginateAllOrganizationRepository over its Repositories, each id read
\* from the repository store; a pager error is reported as Internal.
OrganizationRepositoryAll(name, req) ==
    LET org == OrganizationByName(name) IN
    IF org.err # "none" THEN org
    ELSE LET page == Pager!PaginateAllOrganizationRepository(
                         ownerRepositories[org.val], req)
         IN  CASE page.status = "error" -> Error("Internal")
               [] page.status = "panic" -> Error("panic")
               [] OTHER ->
                    Response([repositories |->
                                [i \in DOMAIN page.items |->
                                   StoredRepository(page.items[i])],
                              nextKey |-> page.nextKey, total |-> page.total])

(* The first page of OrganizationRepositoryAll with no Limit (the form   *)
(* a client starts with) lists every repository the organization owns,    *)
(* each once, as stored, with Total equal to their number and no NextKey  *)
(* (one default page holds MaxRepositories repositories); a name that     *)
(* does not resolve to an organization returns the resolution's error.    *)
OrganizationRepositoryAllListsOwned ==
    LET first == [offset |-> 0, key |-> "nil", limit |-> 0, countTotal |-> FALSE]
    IN
    \A w \in QueryNames :
        LET res == OrganizationRepositoryAll(w, first)
            org == OrganizationByName(w)
        IN  IF org.err # "none" THEN res = org
            ELSE LET owned == {id \in DOMAIN repository :
                                  repository[id].owner = org.val}
                     got == res.val.repositories
                 IN  /\ res.err = "none"
                     /\ Len(got) = Cardinality(owned)
                     /\ {got[i] : i \in DOMAIN got} = {repository[id] : id \in owned}
                     /\ res.val.total = Cardinality(owned)
                     /\ res.val.nextKey = "nil"

=============================================================================
