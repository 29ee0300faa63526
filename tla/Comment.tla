------------------------------- MODULE Comment -------------------------------
(***************************************************************************)
(* The comment keeper (x/gitopia/keeper/comment.go): the comment counter, *)
(* kept under CommentCountKey as the decimal text of a uint64, and the     *)
(* comments, kept under the 8-byte big-endian encoding of their id.        *)
(*                                                                         *)
(* The keeper functions are called by the comment message handlers, which  *)
(* are not part of this source tree; CreateComment calls AppendComment,    *)
(* and UpdateComment and DeleteComment are modelled from spec 4.2 (a      *)
(* caller checks HasComment and the owner before GetComment).             *)
(*                                                                         *)
(* The width of the encoding is a parameter: KeyBytes digits of base       *)
(* ByteBase (8 bytes of base 256 in the code), and the counter wraps at    *)
(* ByteBase^KeyBytes as the uint64 does at 2^64.                           *)
(***************************************************************************)
EXTENDS Naturals, Sequences, FiniteSets, SequencesExt

CONSTANTS
    Users,     \* addresses that create, edit and delete comments
    Bodies,    \* comment bodies a message may carry
    ByteBase,  \* values of one byte of a key (256)
    KeyBytes,  \* bytes of a key (8)
    Nil        \* an absent counter key (store.Get returns nil)

ASSUME /\ ByteBase \in Nat /\ ByteBase >= 2
       /\ KeyBytes \in Nat \ {0}
       /\ Nil \notin Seq(0 .. 9)

Modulus == ByteBase ^ KeyBytes
Ids == 0 .. Modulus - 1
Keys == [1 .. KeyBytes -> 0 .. ByteBase - 1]

\* A comment as proto-decoded, with the fields the properties tell apart;
\* the zero Comment is what unmarshalling an absent (nil) value yields.
CommentRecord == [Creator : Users \cup {""}, Id : Ids, Body : Bodies \cup {""}]
ZeroComment == [Creator |-> "", Id |-> 0, Body |-> ""]

VARIABLES
    countValue,    \* the bytes under CommentCountKey, or Nil
    commentStore   \* key bytes -> comment, the comment prefix store

vars == <<countValue, commentStore>>

-----------------------------------------------------------------------------
(* Encodings                                                               *)

\* strconv.FormatUint(n, 10): the decimal digits of n, most significant
\* first.
RECURSIVE FormatUint(_)
FormatUint(n) == IF n < 10 THEN <<n>> ELSE Append(FormatUint(n \div 10), n % 10)

\* strconv.ParseUint(s, 10, 64) of a string of digits.
ParseUint(s) == FoldLeft(LAMBDA acc, d : acc * 10 + d, 0, s)

\* Mutant: the key is written least significant byte first.
GetCommentIDBytesLittleEndian(id) ==
    [i \in 1 .. KeyBytes |-> (id \div ByteBase ^ (i - 1)) % ByteBase]

\* Mutant: the key buffer is one byte too long (make([]byte, 9)).
GetCommentIDBytesWide(id) ==
    [i \in 0 .. KeyBytes |-> (id \div ByteBase ^ (KeyBytes - i)) % ByteBase]

\* binary.BigEndian.PutUint64: most significant byte first.
GetCommentIDBytes(id) ==
    [i \in 1 .. KeyBytes |-> (id \div ByteBase ^ (KeyBytes - i)) % ByteBase]

\* binary.BigEndian.Uint64.
GetCommentIDFromBytes(bz) ==
    FoldLeft(LAMBDA acc, b : acc * ByteBase + b, 0, bz)

\* The order the store iterates keys in: bytewise lexicographic.
KeyLess(a, b) ==
    \E i \in 1 .. KeyBytes : /\ \A j \in 1 .. i - 1 : a[j] = b[j]
                             /\ a[i] < b[i]

-----------------------------------------------------------------------------
(* Keeper functions                                                        *)

\* GetCommentCount: 0 when the key is absent, else the parsed text (the
\* panic on a parse error cannot happen for text SetCommentCount wrote).
GetCommentCount ==
    IF countValue = Nil THEN 0 ELSE ParseUint(countValue)

SetCommentCount(count) == countValue' = FormatUint(count)

HasComment(id) == GetCommentIDBytes(id) \in DOMAIN commentStore

\* MustUnmarshalBinaryBare of store.Get: the zero Comment for an absent key.
GetComment(id) ==
    IF HasComment(id) THEN commentStore[GetCommentIDBytes(id)] ELSE ZeroComment

GetCommentOwner(id) == GetComment(id).Creator

\* store.Set under the comment's own Id: an unconditional upsert.
SetComment(comment) ==
    commentStore' = (GetCommentIDBytes(comment.Id) :> comment) @@ commentStore

RemoveComment(id) ==
    commentStore' = [k \in DOMAIN commentStore \ {GetCommentIDBytes(id)} |->
                       commentStore[k]]

\* GetAllComment: the prefix iterator, in key order (the i-th key is the
\* one with i - 1 keys below it).
GetAllComment ==
    LET keys == DOMAIN commentStore
        rank(k) == Cardinality({j \in keys : KeyLess(j, k)})
    IN  [i \in 1 .. Cardinality(keys) |->
            commentStore[CHOOSE k \in keys : rank(k) = i - 1]]

\* Mutant: the count is written back without the increment.
AppendCommentNoIncrement(creator, body) ==
    LET count == GetCommentCount IN
    /\ SetComment([Creator |-> creator, Id |-> count, Body |-> body])
    /\ SetCommentCount(count)

\* AppendComment: the comment gets the current count as Id, is stored
\* under that id, and count + 1 (uint64 arithmetic) is written back.
AppendComment(creator, body) ==
    LET count == GetCommentCount IN
    /\ SetComment([Creator |-> creator, Id |-> count, Body |-> body])
    /\ SetCommentCount((count + 1) % Modulus)

-----------------------------------------------------------------------------
(* Callers                                                                 *)

\* Read, modify and write back, after the existence and owner checks.
UpdateComment(creator, id, body) ==
    /\ HasComment(id)
    /\ GetCommentOwner(id) = creator
    /\ SetComment([GetComment(id) EXCEPT !.Body = body])
    /\ UNCHANGED countValue

DeleteComment(creator, id) ==
    /\ HasComment(id)
    /\ GetCommentOwner(id) = creator
    /\ RemoveComment(id)
    /\ UNCHANGED countValue

Init ==
    /\ countValue = Nil
    /\ commentStore = <<>>

Next ==
    \/ \E c \in Users, b \in Bodies : AppendComment(c, b)
    \/ \E c \in Users, id \in Ids, b \in Bodies : UpdateComment(c, id, b)
    \/ \E c \in Users, id \in Ids : DeleteComment(c, id)

Spec == Init /\ [][Next]_vars

-----------------------------------------------------------------------------
(* Properties                                                              *)

TypeOK ==
    /\ countValue = Nil \/ countValue \in Seq(0 .. 9)
    /\ GetCommentCount \in Ids
    /\ DOMAIN commentStore \subseteq Keys
    /\ \A k \in DOMAIN commentStore : commentStore[k] \in CommentRecord

(* GetAllComment lists the comments in increasing id order, each under the *)
(* key of its own Id (spec 4.2: the big-endian key fixes the scan order to *)
(* numeric id order, which pagination over comments relies on).            *)
ListAllInIdOrder ==
    LET all == GetAllComment IN
    \A i \in 1 .. Len(all) :
        /\ GetCommentIDBytes(all[i].Id) \in DOMAIN commentStore
        /\ commentStore[GetCommentIDBytes(all[i].Id)] = all[i]
        /\ i > 1 => all[i - 1].Id < all[i].Id

(* The keeper implements the comment log: AppendComment hands out the     *)
(* counter's value and never reuses an id, an edit keeps the creator and   *)
(* touches only its comment, a delete removes only its comment.            *)
Log == INSTANCE CommentLog
          WITH LogCreators <- Users, LogBodies <- Bodies,
               log <- [id \in {GetCommentIDFromBytes(k) : k \in DOMAIN commentStore} |->
                         [creator |-> GetComment(id).Creator,
                          body |-> GetComment(id).Body]],
               nextId <- GetCommentCount
CommentRefinement == Log!Spec

=============================================================================
