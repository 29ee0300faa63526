------------------------------- MODULE Rewards -------------------------------
(***************************************************************************)
(* The rewards module's CreateReward handler                               *)
(* (x/rewards/keeper/msg_server_rewards.go) over the reward store, keyed  *)
(* by recipient.  Only the evaluator named in the module parameters may    *)
(* create a reward, and a recipient has at most one.  GetReward and        *)
(* SetReward (an upsert under the recipient key) are generated keeper     *)
(* code outside this source tree and are modelled from spec 4.2.           *)
(***************************************************************************)
EXTENDS Naturals, TLC

CONSTANTS
    Accounts,   \* addresses that sign messages and receive rewards
    Evaluator,  \* Params.EvaluatorAddress
    Amounts     \* reward amounts a message may carry

ASSUME Evaluator \in Accounts

VARIABLE rewards  \* recipient -> [Creator, Recipient, Amount]

RewardRecord == [Creator : Accounts, Recipient : Accounts, Amount : Amounts]

\* GetReward's isFound.
HasReward(recipient) == recipient \in DOMAIN rewards

\* Mutant: the reward is indexed by its creator.
SetRewardByCreator(reward) == rewards' = (reward.Creator :> reward) @@ rewards

\* SetReward: store.Set under the recipient key.
SetReward(reward) == rewards' = (reward.Recipient :> reward) @@ rewards

CreateReward(creator, recipient, amount) ==
    /\ creator = Evaluator
    /\ ~HasReward(recipient)
    /\ SetReward([Creator |-> creator, Recipient |-> recipient, Amount |-> amount])

Init == rewards = <<>>

Next == \E c, r \in Accounts, a \in Amounts : CreateReward(c, r, a)

Spec == Init /\ [][Next]_rewards

-----------------------------------------------------------------------------
(* Properties                                                              *)

(* Every stored reward is a record of the message's fields and sits under *)
(* the key of its own recipient: CreateReward's existence check and       *)
(* SetReward's write use the same key (msg.Recipient).                    *)
TypeOK ==
    /\ DOMAIN rewards \subseteq Accounts
    /\ \A r \in DOMAIN rewards : rewards[r] \in RewardRecord
                               /\ rewards[r].Recipient = r

=============================================================================
