# TLA+ models of gitopia's repository, comment, pagination, reward and message logic

These modules model the gitopia chain modules under `src/`. The models use
TLA+ and are checked with TLC. Every definition is translated from the Go
source. `PROJECT.json` maps each definition to the lines it models.
Definitions whose code is not under `src/` are marked `spec_modelled`.

## 1. The system (inventory)

The code consists of Cosmos-SDK message handlers and gRPC queries over a
key-value store. The SDK runs each transaction atomically: a handler that
returns an error, or panics, has none of its writes committed. Handlers
never run concurrently. So the hard behaviours are these:

- long sequences of legal transactions from several signers that reach a
  bad state;
- a handler that reads the same record twice and writes both copies;
- a client that follows page cursors across several queries.

| Component | Source | State | Operations | Module |
|---|---|---|---|---|
| Repository handlers | `keeper/msg_server_repository.go` | repository records; each owner's `Repositories` id list and `RepositoryNames` name→id index | CreateRepository, ChangeOwner, ForkRepository, RenameRepository, CreateBranch, SetDefaultBranch, DeleteBranch, UpdateRepository, DeleteRepository | `Repository` (modelled) |
| Sequence allocator | `AppendRepository` (not under `src/`), `keeper/comment.go` AppendComment | the count key | read count, store at count, write count+1 | repository counter in `Repository` (spec-modelled); comment counter in `Comment` (modelled) |
| Comment store | `keeper/comment.go` | comment records keyed by 8-byte big-endian id | Set/Get/Has/Remove/GetAll | `Comment`, refining `CommentLog` (modelled) |
| Organization repository pagination | `keeper/grpc_query_organization.go` PaginateAllOrganizationRepository | none (reads `organization.Repositories`) | offset page, key-cursor page | `Pagination`; `OrgPaging` composes it with list changes (modelled) |
| Organization queries | `keeper/grpc_query_organization.go` | none (read Whois, organizations, repositories) | Organization, OrganizationByName, OrganizationRepository, OrganizationRepositoryAll; OrganizationAll | `OrgQueries` over the `Repository` state (modelled; OrganizationAll is only a call of the SDK's paginator) |
| Pull request message validation | `types/messages_pullRequest.go` | none | ValidateBasic of the pull request messages (bounds, duplicates) | `PullRequestMsgs` (modelled) |
| Rewards | `x/rewards/keeper/msg_server_rewards.go` | rewards by recipient | CreateReward (evaluator only, one per recipient) | `Rewards` (modelled) |

How the parts interact:

- **Owners.** An `Owner` is polymorphic: `{Type, ID}` with Type "User" or
  "Organization". Every repository handler dispatches on Type with
  `if`/`else if` and has no `else` branch.
- **Back-references.** A repository appears in its owner's `Repositories`
  list and in its `RepositoryNames` index. A fork appears in its parent's
  `Forks`. Every handler must keep these back-references in step.
- **Pagination.** It reads the organization's `Repositories` list, which
  the repository handlers write.

## 2. Modules

### `Repository.tla`: the repository handlers

**State:**

- `repository`: a function from id to a record with these fields: name,
  owner, fork, parent, forks, branches, defaultBranch, admins.
- `ownerRepositories` and `ownerRepositoryNames`: functions over `Owners`.
  `Owners` is the users and the organizations.
- `repositoryCount`: the counter.

**Data.** Names, branches, users and organizations are model values. An
owner is a record `[Type, ID]`. `MsgOwners` also holds owners with an
unknown Type, because a message can carry them.

**Actions.** Each handler is one action. Its guard is the conjunction of
the handler's early returns. Its effect is every write the handler
commits. Helpers carry the code's names:

- `RemoveElement` is ElementExists plus the slice splice.
- `DeleteKey` is the Go `delete` on a map.
- `CanAdminister` is the owner, admin or org-owner checks.
- `CanCreateUnder` is CreateRepository's checks.
- `AddToOwner` is the append to the list and the index.
- `SetOwner` writes a record only for a known Type.

**ChangeOwner.** It builds both owner copies from the pre-state. It then
writes the current owner's copy and after it the new owner's copy. That
is the order of lines 228–237. When both copies are the same owner, the
second write wins, as in the code.

**Ids.** `AppendRepository`, `NewRepositoryId` and
`IncrementRepositoryCount` model the counter allocator from the spec. The
allocator's code is generated and not under `src/`.

**UpdateRepositoryCollaborator.** Only its grant of the Admin role is
modelled, because the authorization checks of the handlers read it. It is
also from the spec.

**Next.** `IndexedNext` is every handler except UpdateRepository.
UpdateRepository is the only handler that changes a name or a default
branch without the index checks. `Next` adds it.

### `RepositoryRegistry.tla`: the abstract specification

This is what the ownership model promises: a set of repositories, each
with an owner and a name. The actions are Create, Transfer, Rename and
Delete. A name is unique per owner, and ids come from `nextId` and are
never reused.

`Repository` instantiates it with this refinement mapping: the registry
is each repository's `[owner, name]` and `nextId` is `repositoryCount`.
Branch and fork operations are stuttering steps of the registry.

### `Pagination.tla`: PaginateAllOrganizationRepository

The pager is the pure operator `PaginateAllOrganizationRepository(list,
req)`. Its key-cursor loop is the `RECURSIVE KeyWalk`, which keeps the
code's `i <= total` bound. The offset loop (lines 247–259) is written in
closed form: the window `[offset, offset+limit)` cut at the list's end,
and a NextKey at `offset+limit` when an item remains there.

A client state machine pages through the list: `FirstPage`, then
`NextPageByKey` or `NextPageByOffset`, following the returned NextKey.
Init ranges over every list of distinct ids up to `MaxLength`.

### `Comment.tla` and `CommentLog.tla`: the comment keeper

**State.** `countValue` is the bytes under `CommentCountKey`: `Nil` when
absent, else the decimal digits that `strconv.FormatUint` wrote.
`commentStore` maps key bytes to a comment record `[Creator, Id, Body]`.

**Encodings.** `FormatUint` is recursive and `ParseUint` a fold, so the
counter really round-trips through text. `GetCommentIDBytes` is the
big-endian encoding with `KeyBytes` digits of base `ByteBase` (8 and 256
in the code). `KeyLess` is the byte order the store iterates in, and
`GetAllComment` lists the store in that order.

**Actions.** `AppendComment` is the keeper function as written: read the
count, store the comment under it, write `(count + 1) % Modulus`. The
callers UpdateComment and DeleteComment are not under `src/`; they are
modelled from spec 4.2 (existence and owner checks, then read-modify-write
or remove). `GetComment` of a missing id yields the zero comment, as
`MustUnmarshalBinaryBare(nil)` does.

**Refinement.** `CommentLog` is what spec 4.1 and 4.2 promise: a log of
comments with ids from a counter that only grows. `Comment` maps its store
to the log by decoding each key and maps `nextId` to the count.

### `Rewards.tla`: CreateReward

`rewards` maps a recipient to its reward. `CreateReward` is the handler:
the evaluator check, the "index already set" check, then `SetReward`
under the recipient key. `Evaluator` is a constant, as the parameter is
never changed by any handler here.

### `PullRequestMsgs.tla`: ValidateBasic of the pull request messages

Each `ValidateBasic` is an operator returning `OK` or the error of the
first failing check, in the code's order (`FirstError` over a sequence of
checks). An address is a record `[account, upper]`: bech32 decoding
accepts the lower- and the upper-case spelling of one account, and
`BadAddress` is a string that does not decode. `CheckAddressList` and
`CheckLabelList` are the `unique` map loops, recursive over the list, with
the map keyed by the text as in the code. String lengths are the lengths
themselves, at the code's boundaries. `Type()` is not modelled.

The state machine submits one message and records the verdict:
`msg` and `verdict`.

### `OrgPaging.tla`: pagination while the list changes

It extends `Pagination` with the two things a repository handler can do to
an organization's `Repositories` list between two queries: splice out an
id (DeleteRepository, ChangeOwner away), append the next id
(CreateRepository, ForkRepository), and append the id of a repository
transferred back (`OrganizationRepositoryTransferredIn`, ChangeOwner in,
line 221). History variables
record the ids present at the start and the ids removed since, and
`pages` counts the client's queries.

**Liveness.** `OrgFairSpec` adds weak fairness of `ClientFairness`, the
client's next query while it is paging. Spec 5 says a query runs to
completion, so the only assumption is that the client keeps asking; the
handlers that change the list get no fairness, since no transaction has
to happen. `MaxPages` (MaxLength + 1) bounds the queries: every page but
the last moves the cursor forward and the list never holds more than
`MaxLength` ids, so a correct pager never needs more. A pager that returns the same page again would otherwise be
a stuttering step, which fairness cannot see; with the count it runs into
the bound and `PagingTerminates` fails.

### `OrgQueries.tla`: the organization queries

It extends `Repository` with the constant Whois table (name → address),
the constant `DefaultLimit` of the pager, and four operators:

- `Organization(id)`: HasOrganization, then the record.
- `OrganizationByName(name)`: HasWhois, then `ParseUint` of the address,
  which fails with InvalidRequest for a user's bech32 address, then
  `Organization`.
- `OrganizationRepository(name, repoName)`: the organization by name,
  then the first entry of its `Repositories` whose repository has that
  name (`utils.OrganizationRepositoryExists`, not under `src/`, taken
  from its use at line 171), and the record stored under that entry,
  read with no existence check as line 173 does.
- `OrganizationRepositoryAll(name, req)`: the organization by name, then
  `PaginateAllOrganizationRepository` over its `Repositories`, taken from
  `Pagination` through the instance `Pager` (its client variables are
  fixed to constants and play no part). Each id of the page is read from
  the repository store (`StoredRepository`), which gives the zero
  Repository when no record is stored under the id, as
  `MustUnmarshalBinaryBare` of a missing key does. A pager error is
  reported as Internal.

An answer is a record: `Error(e)` or `Response(v)`. In this source tree
the handlers append bare ids to `Repositories`, while the query reads
`Repositories[i].Id`. The model keeps ids, and the name an entry answers
to is the name of the record stored under its id.

### MC modules

**`MCRepository.tla`** declares:

- model values for two users, one organization owned by the first user,
  two names, and the branches `master` and `dev`;
- `ListsBounded`, a state constraint naming `MaxListLength`;
- the Whois table: `w1` names the organization, `w2` a user, `w3` an id
  with no organization, and `w4` is not registered;
- `MCSymmetry`, the permutations of the names. This symmetry is sound
  because no definition distinguishes one name from another.

**`MCPagination.tla`** gives the limits {0,1,2,3}; **`MCOrgPaging.tla`**
the limits {0,1,2}. **`MCPullRequestMsgs.tla`** declares the boundary
inputs of the case-variant run.

**`MCComment.tla`** declares two users and two bodies, and the state
constraint `CountBeforeWrap`. **`MCRewards.tla`** declares four accounts
and three amounts.

## 3. Runs

| Run | cfg | Expect | Checks |
|---|---|---|---|
| repository_indexed | MCRepository.cfg | pass | OwnerListsConsistent, NameIndexConsistent, ForkLinksConsistent, RegistryRefinement over `IndexedSpec` |
| repository_all | MCRepositoryAll.cfg | pass | OrganizationRepositoryAllListsOwned over `Spec` (all handlers) |
| repository_update_name | MCRepositoryUpdateName.cfg | violation | UniqueNamePerOwner |
| repository_owner_type | MCRepositoryOwnerType.cfg | violation | OwnerListsConsistent with an unknown owner Type |
| repository_default_branch | MCRepositoryBranches.cfg | violation | DefaultBranchStaysABranch over `Spec` |
| pagination_key_cursor | MCPaginationKeyCursor.cfg | violation | CursorPagingNeverFails |
| org_paging | MCOrgPaging.cfg | pass | TypeOK, DeliveredInOrderWithoutRemovals, PagingTerminates over `OrgFairSpec` |
| org_paging_skip | MCOrgPagingSkip.cfg | violation | EveryStayingRepositoryDelivered |
| org_paging_duplicate | MCOrgPagingDuplicate.cfg | violation | NoDuplicateDelivery |
| comment | MCComment.cfg | pass | TypeOK, ListAllInIdOrder, CommentRefinement, up to the last id before the wrap |
| rewards | MCRewards.cfg | pass | TypeOK |
| pr_address_case | MCPullRequestMsgsAddressCase.cfg | violation | AcceptedListsNameDistinctAccounts |

The Repository module's `TypeOK` is not run: its fields are Go types the
compiler already fixes, and no plausible code change breaks it without
also breaking the deeper invariants.

What the properties say:

- **OwnerListsConsistent.** Every repository's owner is a known owner.
  Each owner's list holds exactly the ids of the repositories it owns,
  each once.
- **NameIndexConsistent.** Each owner's name index maps exactly the names
  of its repositories to their ids.
- **ForkLinksConsistent.** A fork's parent lists it. Every id in a `forks`
  list is a fork of that repository, or a deleted id. An id is never
  reused.
- **DefaultBranchStaysABranch.** An action property: a default branch
  that names an existing branch still names one after every step.
  SetDefaultBranch and DeleteBranch keep it; UpdateRepository does not.
- **RegistryRefinement.** The handlers implement the abstract registry.
- **CollectedInOrder.** A client that follows NextKey gets the list in
  order, and the whole list when paging ends.
- **OrganizationRepositoryAllListsOwned.** The first page of
  OrganizationRepositoryAll with no limit (the default limit, 3, is at
  least the number of ids) lists each repository the organization owns
  exactly once, reports their number as `total` and no next key. Names
  that do not resolve give the same error as OrganizationByName. A stale
  id in the list would show up as a zero Repository or a foreign one.
  Checked in repository_all, under every handler.
- **PagingTerminates.** A client in the middle of paging eventually
  finishes (done or failed), under the client fairness above.
- **NoDuplicateDelivery.** No repository is delivered twice, however the
  list changes between pages (spec 8).
- **EveryStayingRepositoryDelivered.** Every repository present at the
  start and never removed is delivered once paging ends (spec 8).
- **DeliveredInOrderWithoutRemovals.** While nothing is removed, appends
  between pages hide nothing: `CollectedInOrder` of the fixed-list
  client still holds.
- **ListAllInIdOrder.** GetAllComment lists comments in increasing id
  order, each stored under the key of its own id.
- **CommentRefinement.** The comment keeper implements `CommentLog`: ids
  are handed out by a growing counter and never reused, and edits and
  deletes touch only their comment.
- **TypeOK (Rewards).** Every stored reward sits under its own
  recipient's key.
- **AcceptedListsNameDistinctAccounts.** An accepted reviewer or assignee
  list names each account once, whatever the case of its text (spec 4.6).

### Findings (violation runs)### Findings (violation runs)

1. **UpdateRepository renames outside the index** (`msg_server_repository.go:525`).
   It assigns the new name without consulting `RepositoryNames`. After an
   owner creates n1 and n2, renaming the second to n1 is accepted, and
   the owner holds two repositories named n1; UniqueNamePerOwner fails.
2. **An unknown owner Type creates an orphan repository** (line 34 and the
   others). Such a repository is created with no owner referencing it.
   Transfer, rename and delete of it then skip authorization.
3. **Key-cursor paging panics on the last page**
   (`grpc_query_organization.go:222`). The loop runs while `i <= total`
   and reads `repositories[total]`.
4. **Case-variant duplicates pass** (`messages_pullRequest.go:344` and the
   other loops). The unique map is keyed by the text, and bech32 accepts
   the upper-case spelling of an address, so one reviewer can be listed
   twice.
5. **A removal between pages skips a repository**
   (`grpc_query_organization.go:194`). Pages are index ranges over the
   current list. After a removal behind the cursor the next page starts
   one too far, and spec 8's "every item" fails.
6. **UpdateRepository sets a missing default branch**
   (`msg_server_repository.go:530`). It skips SetDefaultBranch's lookup,
   which spec 4.4 requires: after CreateBranch master, an update naming
   `dev` as the default is accepted, and DefaultBranchStaysABranch fails.
7. **A repository transferred out and back is delivered twice**
   (`msg_server_repository.go:221`, `grpc_query_organization.go:194`).
   ChangeOwner to the organization appends the id again; when the client
   already had it, the next page delivers it a second time, against
   spec 8's "no duplicates".

### Other disagreements met while modelling (no run kept)

These are recorded as hazards in `PROJECT.json`, with a note each:

- **ChangeOwner to the current owner duplicates the id** (lines 191–193 and
  228–237), after finding 1's rename: the name check uses the stale index
  and the second copy of the owner is written last.
- **Label removal accepts 50 labels** (`messages_pullRequest.go:620`);
  spec 4.6 says 10 per request.
- **`MsgRemovePullRequestLabels.Type` is "AddPullRequestLabels"**
  (line 596).

### Bounds and why they suffice

**repository_indexed: two users, one organization, two names, master only,
three repository ids.** 318k distinct states, about 2 minutes. Three ids
are enough to reach the interesting cases:

- a fork of a fork;
- a transfer into an owner that already holds another repository;
- a delete followed by a create that must not reuse an id;
- a rename clash.

A second branch does not add index cases; the branch handlers run in
repository_default_branch.

**repository_all: one user, the organization, two branches, two ids, lists
of at most three entries.** This run adds UpdateRepository. UpdateRepository
breaks the name index, and after that ChangeOwner can grow a list without
bound, which is the ChangeOwner duplication listed above. The `ListsBounded` constraint cuts those
states off. It does not hide the invariants this run checks.

**pagination_key_cursor: lists up to 7 and limits 0–3 with default 3.**
These bounds reach pages that end before, exactly at and after the end of
the list, the default limit, and a final key page at `total`.

**repository_default_branch: one user, the organization, two branches,
one id, over `Spec`.** Creating the repository, a branch, and an update
naming the other branch is the shortest violating behaviour.

**org_paging: lists up to 4, limits 0–2 with default 2.** Enough for
pages that end before, at and after the end of the list, the default
limit, a removal before, at and after the cursor, an append during the
last page, and a repository transferred out and back in between two
pages. 87k states, a few seconds; with lists up to 5 the transfers make
it 4.5 million states.

**comment: ByteBase 2, KeyBytes 3.** Keys have three digits, so byte
order and numeric order differ for a little-endian key, and the counter
wraps at 8. `CountBeforeWrap` stops the run at count 7: the real counter
has 64 bits, and 2^64 appends are out of the chain's reach. 19.5k states,
about 90 seconds.

**Deadlock.** Every repository cfg sets `CHECK_DEADLOCK FALSE`. Once
`MaxRepositories` ids are used and every repository is deleted, no
handler is enabled. That is a stop imposed by the bound, not by the
system. A pagination session really ends, in "done" or "failed". A
ValidateBasic run stops after its one message, and the rewards run once
every recipient has a reward.

### Fairness

Only `PagingTerminates` assumes fairness: weak fairness of the paging
client's next query (see `OrgPaging`). Transactions get none, because
they are submitted by users and the chain guarantees nothing about
whether, or when, a transaction is submitted. Every other property is a
safety property.

## 4. Not modelled, and why

- **Encoding, decoding and the key-value store.** A key is the integer it
  decodes to. A malformed cursor (fewer than 8 bytes) would panic in
  `GetIssueIDFromBytes`. That is a hazard outside the model.
- **Existence of users and organizations.** The model's owners all exist.
  The existence checks are guards over `Owners`.
- **OrganizationAll.** It is the SDK's `query.Paginate` over the
  organization store, which is outside this repository.
- **Resolution in the paging client.** `OrgPaging`'s client pages a list
  directly and skips the Whois resolution, because the Whois table never
  changes between pages. The resolution is checked in `OrgQueries`.
- **Hazards without a run.** The short-key panic
  (`grpc_query_organization.go:222`), the pull-request label limit
  (`messages_pullRequest.go:620`) and the `Type` name
  (`messages_pullRequest.go:596`) each need a violation run of their own.
  None is written; they stay listed as hazards with a note.
- **`Type()` of the pull request messages.** Each returns a constant
  name; no property reads it.
- **Width.** The comment key and counter use base 2 and 3 digits instead
  of base 256 and 8 bytes. The code's arithmetic is the same at any width.
- **Malformed cursors.** The pager takes a cursor as the integer it
  decodes to; a client key shorter than 8 bytes would panic in
  `GetIssueIDFromBytes`.
- **Message handlers of comments and pull requests.** They are not under
  `src/`; UpdateComment and DeleteComment are modelled from the spec.

## 5. Plan for later sittings

1. **Larger instances** of repository_all (three ids) once the state
   space allows it.
2. **User-side lookups.** User repository lists can hold an id twice
   after UpdateRepository, which the organization side cannot; a user
   query over the list would expose it.
