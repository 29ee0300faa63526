----------------------------- MODULE Pagination -----------------------------
(***************************************************************************)
(* PaginateAllOrganizationRepository (keeper/grpc_query_organization.go): *)
(* pages over an organization's Repositories, an id list embedded in the   *)
(* organization record, in offset/limit mode or from a key cursor, and a   *)
(* client that asks for a first page and then follows the returned         *)
(* NextKey, as OrganizationRepositoryAll is meant to be used.              *)
(*                                                                         *)
(* Positions are Go's 0-based indexes; the i-th element of the list in Go  *)
(* is lst[i + 1] here.  Keys are the uint64 the 8-byte key decodes to.     *)
(***************************************************************************)
EXTENDS Naturals, Sequences, SequencesExt

CONSTANTS
    MaxLength,     \* bound on the length of the organization's list
    Limits,        \* the PageRequest.Limit values a client may send
    DefaultLimit,  \* DefaultLimit, used when Limit is 0
    NoKey,         \* a nil key (no Key in the request, no NextKey in a page)
    NoTotal        \* a page response without Total

ASSUME /\ MaxLength \in Nat
       /\ Limits \subseteq Nat /\ 0 \in Limits
       /\ DefaultLimit \in Nat \ {0}

VARIABLES
    list,       \* organization.Repositories at the time of the queries
    limit,      \* the Limit the client sends on every page
    cursor,     \* the NextKey of the last page
    collected,  \* the repositories the client has received, in order
    phase       \* "idle", "paging", "done" or "failed"

vars == <<list, limit, cursor, collected, phase>>

Positions == 0 .. MaxLength + 1

\* The outcome of one call: "error" for the returned error, "panic" for an
\* index out of range (the query handler aborts).
Page(status, items, nextKey, total) ==
    [status |-> status, items |-> items, nextKey |-> nextKey, total |-> total]

\* The key-cursor loop: for i := key; i <= total; i++ { if count == limit
\* { nextKey = i; break }; ... repositories[i] ...; count++ }.
RECURSIVE KeyWalk(_, _, _, _, _)
KeyWalk(lst, lim, i, count, items) ==
    IF i > Len(lst) THEN Page("ok", items, NoKey, NoTotal)
    ELSE IF count = lim THEN Page("ok", items, i, NoTotal)
    ELSE IF i >= Len(lst) THEN Page("panic", items, NoKey, NoTotal)
    ELSE KeyWalk(lst, lim, i + 1, count + 1, Append(items, lst[i + 1]))

\* Mutant: the key loop starts at 0 instead of the decoded key.
PaginateIgnoringKey(lst, req) ==
    LET lim == IF req.limit = 0 THEN DefaultLimit ELSE req.limit
        countTotal == req.countTotal \/ req.limit = 0
        end == req.offset + lim
        total == Len(lst)
    IN
    IF req.offset > 0 /\ req.key # NoKey THEN Page("error", <<>>, NoKey, NoTotal)
    ELSE IF req.key # NoKey THEN KeyWalk(lst, lim, 0, 0, <<>>)
    ELSE Page("ok", SubSeq(lst, req.offset + 1, IF end < total THEN end ELSE total),
              IF end < total THEN end ELSE NoKey,
              IF countTotal THEN total ELSE NoTotal)

\* Mutant: the offset loop tests i <= end, so it never reaches the branch
\* that sets NextKey and returns one item too many.
PaginateWindowOffByOne(lst, req) ==
    LET lim == IF req.limit = 0 THEN DefaultLimit ELSE req.limit
        countTotal == req.countTotal \/ req.limit = 0
        end == req.offset + lim
        total == Len(lst)
    IN
    IF req.offset > 0 /\ req.key # NoKey THEN Page("error", <<>>, NoKey, NoTotal)
    ELSE IF req.key # NoKey THEN KeyWalk(lst, lim, req.key, 0, <<>>)
    ELSE Page("ok", SubSeq(lst, req.offset + 1, IF end + 1 < total THEN end + 1 ELSE total),
              NoKey,
              IF countTotal THEN total ELSE NoTotal)

\* Mutant: a zero Limit is used as is instead of DefaultLimit.
PaginateNoDefaultLimit(lst, req) ==
    LET lim == req.limit
        countTotal == req.countTotal \/ req.limit = 0
        end == req.offset + lim
        total == Len(lst)
    IN
    IF req.offset > 0 /\ req.key # NoKey THEN Page("error", <<>>, NoKey, NoTotal)
    ELSE IF req.key # NoKey THEN KeyWalk(lst, lim, req.key, 0, <<>>)
    ELSE Page("ok", SubSeq(lst, req.offset + 1, IF end < total THEN end ELSE total),
              IF end < total THEN end ELSE NoKey,
              IF countTotal THEN total ELSE NoTotal)

PaginateAllOrganizationRepository(lst, req) ==
    LET lim == IF req.limit = 0 THEN DefaultLimit ELSE req.limit
        countTotal == req.countTotal \/ req.limit = 0
        end == req.offset + lim
        total == Len(lst)
    IN
    IF req.offset > 0 /\ req.key # NoKey THEN Page("error", <<>>, NoKey, NoTotal)
    ELSE IF req.key # NoKey THEN KeyWalk(lst, lim, req.key, 0, <<>>)
    \* for i := offset; i < total; i++ { if i < end { item } else if
    \* i == end { nextKey = i; break } }
    ELSE Page("ok", SubSeq(lst, req.offset + 1, IF end < total THEN end ELSE total),
              IF end < total THEN end ELSE NoKey,
              IF countTotal THEN total ELSE NoTotal)

-----------------------------------------------------------------------------
(* The client                                                              *)

\* Apply one page to the client: keep the items, follow NextKey if any.
Receive(page) ==
    /\ collected' = collected \o page.items
    /\ cursor' = page.nextKey
    /\ phase' = CASE page.status = "panic" -> "failed"
                  [] page.nextKey = NoKey  -> "done"
                  [] OTHER                 -> "paging"

FirstPage(l, ct) ==
    /\ phase = "idle"
    /\ limit' = l
    /\ Receive(PaginateAllOrganizationRepository(list,
                 [offset |-> 0, key |-> NoKey, limit |-> l, countTotal |-> ct]))
    /\ UNCHANGED list

\* The next page, requested with the returned NextKey as Key.
NextPageByKey ==
    /\ phase = "paging"
    /\ Receive(PaginateAllOrganizationRepository(list,
                 [offset |-> 0, key |-> cursor, limit |-> limit, countTotal |-> FALSE]))
    /\ UNCHANGED <<list, limit>>

\* The next page, requested with the returned NextKey as Offset.
NextPageByOffset ==
    /\ phase = "paging"
    /\ Receive(PaginateAllOrganizationRepository(list,
                 [offset |-> cursor, key |-> NoKey, limit |-> limit, countTotal |-> FALSE]))
    /\ UNCHANGED <<list, limit>>

\* The list holds distinct repository ids, appended in creation order.
Init ==
    /\ list \in {[i \in 1 .. n |-> i] : n \in 0 .. MaxLength}
    /\ limit = 0
    /\ cursor = NoKey
    /\ collected = <<>>
    /\ phase = "idle"

Next ==
    \/ \E l \in Limits, ct \in BOOLEAN : FirstPage(l, ct)
    \/ NextPageByKey
    \/ NextPageByOffset

Spec == Init /\ [][Next]_vars

-----------------------------------------------------------------------------
(* Properties                                                              *)

TypeOK ==
    /\ list \in Seq(1 .. MaxLength) /\ Len(list) <= MaxLength
    /\ limit \in Limits
    /\ cursor \in Positions \cup {NoKey}
    /\ collected \in Seq(1 .. MaxLength) /\ Len(collected) <= MaxLength
    /\ phase \in {"idle", "paging", "done", "failed"}

(* Whatever way the client follows NextKey, it receives the repositories  *)
(* in list order, each once: what it has collected is a prefix of the     *)
(* list, and once no NextKey is returned it has the whole list.           *)
CollectedInOrder ==
    /\ IsPrefix(collected, list)
    /\ phase = "done" => collected = list

(* Following NextKey as a Key cursor never makes the query fail (spec 4.5  *)
(* and 8: repeated cursor-following returns exactly K items; a key at or  *)
(* past the end returns zero items and no NextKey).                        *)
CursorPagingNeverFails == phase # "failed"

=============================================================================
