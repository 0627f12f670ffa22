----------------------------- MODULE NonceBatch -----------------------------
(***************************************************************************)
(* The nonce-sequenced batch helpers: AccountsManager.deriveNewAccounts    *)
(* (util/accounts.ts) and StateInitializer.setWhitelistAdmins /            *)
(* setWhitelistManagers (util/state.ts), each sending one transaction per  *)
(* entry from a single signer.                                             *)
(*                                                                         *)
(* The helper reads the signer's accountNextIndex once, then, in one       *)
(* synchronous map over the entries, starts signAndSend(..., {nonce:       *)
(* nonce++}, cb) for every entry (deriveNewAccounts skips zero balances)   *)
(* and awaits Promise.all.  The transactions reach the node in any order;  *)
(* the pool keeps a transaction Future until every lower nonce of the      *)
(* signer is ready or included, and a block includes the signer's          *)
(* transactions in nonce order.  Every status notification runs the       *)
(* proceed_tx_result of TxResult.                                          *)
(***************************************************************************)
EXTENDS TxResult, FiniteSets

CONSTANTS
    Helper,      \* "deriveNewAccounts" or "setWhitelistAdmins"
    Balances,    \* the entries of the batch, in order (a balance each)
    StartNonce   \* the signer's nonce on chain when the batch starts

ASSUME HelperAssumption == Helper \in {"deriveNewAccounts", "setWhitelistAdmins"}
ASSUME BalancesAssumption == Balances \in Seq(Nat) /\ Tx = DOMAIN Balances
ASSUME StartNonceAssumption == StartNonce \in Nat

VARIABLES
    chainNonce,  \* node: the signer's account nonce on chain
    pc,          \* helper: "idle", "awaiting", "returned" or "threw"
    base,        \* helper: the accountNextIndex it read
    dispatched,  \* helper: the entries it sent
    nonceOf      \* helper: the nonce signed into each sent entry

batchVars == <<chainNonce, pc, base, dispatched, nonceOf>>
allVars == <<vars, batchVars>>

-----------------------------------------------------------------------------
(* The entries the map skips: `if(balance == 0n) return;` in              *)
(* deriveNewAccounts; setWhitelistAdmins sends every entry.               *)
Skipped(i) == Helper = "deriveNewAccounts" /\ Balances[i] = 0

(* Mutation: nonce++ runs before the zero-balance check.                   *)
NonceAfter_before_skip(b) == [i \in 0..Len(Balances) |-> b + i]

(* The entries among 1..i that the map sends.                              *)
SentUpTo(i) == {j \in 1..i : ~Skipped(j)}

(* The value of the local `nonce`, started at b, after the map has        *)
(* visited entries 1..i: nonce++ runs for an entry exactly when it is      *)
(* sent, so it has run once per sent entry among them.                     *)
NonceAfter(b) == [i \in 0..Len(Balances) |-> b + Cardinality(SentUpTo(i))]

(* The statuses of a transaction in the ready queue of the pool.          *)
ReadyPool == {"Ready", "Broadcast"}

(* system_accountNextIndex: the chain nonce, advanced past every ready     *)
(* pool transaction of the signer that continues the sequence.             *)
NextIndex ==
    LET ready == {nonceOf[i] : i \in {j \in dispatched : status[j] \in ReadyPool}}
        gaps  == {n \in chainNonce..(chainNonce + Len(Balances)) : n \notin ready}
    IN  CHOOSE n \in gaps : \A m \in gaps : n <= m

-----------------------------------------------------------------------------
BatchInit ==
    /\ Init
    /\ chainNonce = StartNonce
    /\ pc = "idle"
    /\ base = StartNonce
    /\ dispatched = {}
    /\ nonceOf = [i \in Tx |-> 0]

(* `let nonce = (await accountNextIndex(signer)).toBigInt()` and the       *)
(* synchronous part of the map: every sent entry gets its nonce, its       *)
(* watcher (ensure_success_promise inside a new Promise, or ensure_success) *)
(* and, for deriveNewAccounts, its pending outer promise.                  *)
Dispatch ==
    /\ pc = "idle"
    /\ LET b    == NextIndex
           sent == {i \in Tx : ~Skipped(i)}
           m    == IF Helper = "deriveNewAccounts" THEN "promise" ELSE "fire"
       IN  /\ base' = b
           /\ dispatched' = sent
           /\ nonceOf' = [i \in Tx |-> IF i \in sent THEN NonceAfter(b)[i - 1] ELSE 0]
           /\ mode' = [i \in Tx |-> IF i \in sent THEN m ELSE "none"]
           /\ promise' = [i \in Tx |-> IF i \in sent /\ m = "promise"
                                       THEN "pending" ELSE "none"]
    /\ pc' = "awaiting"
    /\ UNCHANGED <<nodeVars, chainNonce, subscribed, unsubCalls,
                   successCalls, failureCalls, thrown>>

(* The signed transaction reaches the pool (transactions started by one   *)
(* map arrive in any order): it is Ready if it continues the signer's     *)
(* sequence, else Future.  The first status resolves signAndSend with the *)
(* unsub function; both statuses classify as Pending.                      *)
Import(i) ==
    /\ i \in dispatched
    /\ status[i] = "Unsent"
    /\ status' = [status EXCEPT ![i] = IF nonceOf[i] = NextIndex
                                       THEN "Ready" ELSE "Future"]
    /\ subscribed' = [subscribed EXCEPT ![i] = TRUE]
    /\ UNCHANGED <<exec, reorgs, mode, unsubCalls, successCalls,
                   failureCalls, promise, thrown, batchVars>>

(* A Future transaction whose predecessor is now ready becomes Ready.      *)
Promote(i) ==
    /\ status[i] = "Future"
    /\ nonceOf[i] = NextIndex
    /\ Notify(i, "Ready", "none")
    /\ UNCHANGED <<reorgs, batchVars>>

(* The pool gossips a ready transaction to its peers.                     *)
Broadcast(i) ==
    /\ NodeBroadcast(i)
    /\ UNCHANGED batchVars

(* A block includes the ready transaction carrying the chain nonce.       *)
Include(i) ==
    /\ status[i] \in ReadyPool
    /\ nonceOf[i] = chainNonce
    /\ \E e \in ExecOutcomes : Notify(i, "InBlock", e)
    /\ chainNonce' = chainNonce + 1
    /\ UNCHANGED <<reorgs, pc, base, dispatched, nonceOf>>

Finalize(i) ==
    /\ NodeFinalize(i)
    /\ UNCHANGED batchVars

(* Mutation: deriveNewAccounts waits for every outer promise to resolve   *)
(* and ignores rejections.                                                 *)
Return_ignoring_rejection ==
    /\ pc = "awaiting"
    /\ IF Helper = "deriveNewAccounts"
       THEN \A i \in dispatched : promise[i] = "resolved"
       ELSE \A i \in dispatched : status[i] # "Unsent"
    /\ pc' = "returned"
    /\ UNCHANGED <<vars, chainNonce, base, dispatched, nonceOf>>

(* Mutation: deriveNewAccounts awaits Promise.allSettled, returning once   *)
(* every outer promise has settled either way.                             *)
Return_all_settled ==
    /\ pc = "awaiting"
    /\ IF Helper = "deriveNewAccounts"
       THEN \A i \in dispatched : promise[i] \in {"resolved", "rejected"}
       ELSE \A i \in dispatched : status[i] # "Unsent"
    /\ pc' = "returned"
    /\ UNCHANGED <<vars, chainNonce, base, dispatched, nonceOf>>

(* `await Promise.all(...)` in deriveNewAccounts: it resolves when every  *)
(* outer promise has resolved and rejects at the first rejection.  In      *)
(* setWhitelistAdmins the awaited promises are the signAndSend calls,      *)
(* which resolve at the first status of each transaction.                  *)
Return ==
    /\ pc = "awaiting"
    /\ IF Helper = "deriveNewAccounts"
       THEN \/ /\ \A i \in dispatched : promise[i] = "resolved"
               /\ pc' = "returned"
            \/ /\ \E i \in dispatched : promise[i] = "rejected"
               /\ pc' = "threw"
       ELSE /\ \A i \in dispatched : status[i] # "Unsent"
            /\ pc' = "returned"
    /\ UNCHANGED <<vars, chainNonce, base, dispatched, nonceOf>>

NodeBatchStep(i) ==
    Import(i) \/ Promote(i) \/ Broadcast(i) \/ Include(i) \/ Finalize(i)

BatchNext ==
    \/ Dispatch
    \/ Return
    \/ \E i \in Tx : NodeBatchStep(i)

(* The node keeps importing, promoting, including and finalizing; the     *)
(* event loop runs the helper's continuation once it is enabled.           *)
BatchSpec ==
    /\ BatchInit /\ [][BatchNext]_allVars
    /\ WF_allVars(Dispatch) /\ WF_allVars(Return)
    /\ \A i \in Tx : WF_allVars(NodeBatchStep(i))

-----------------------------------------------------------------------------
BatchTypeOK ==
    /\ TypeOK
    /\ chainNonce \in Nat
    /\ pc \in {"idle", "awaiting", "returned", "threw"}
    /\ base \in Nat
    /\ dispatched \subseteq Tx
    /\ nonceOf \in [Tx -> Nat]

(* Spec 4.4 and 8: the batch sends exactly the non-skipped entries, with  *)
(* the nonces base, base+1, ... in entry order and no gap, so that no     *)
(* transaction of the batch waits in Future for a nonce nobody sends.      *)
NoncesContiguous ==
    pc # "idle" =>
        /\ dispatched = {i \in Tx : ~Skipped(i)}
        /\ {nonceOf[i] : i \in dispatched} =
               base..(base + Cardinality(dispatched) - 1)
        /\ \A i, j \in dispatched : i < j => nonceOf[i] < nonceOf[j]

(* Spec 4.4: the helper returns only once every transaction it sent has   *)
(* reached its outcome, and it reports every outcome.                      *)
BatchAwaitsAll ==
    pc \in {"returned", "threw"} => \A i \in dispatched : Settled(i)

(* Statuses of a transaction in a block.                                   *)
InChain == {"InBlock", "Finalized"}

(* Spec 4.4: deriveNewAccounts hands back the new accounts only once they  *)
(* are funded: a normal return, rather than the throw of a rejected        *)
(* Promise.all, means every sudo(setBalance) it sent is in a block and     *)
(* executed successfully, although members may fail and arrive in any      *)
(* order.                                                                  *)
FundedOnReturn ==
    Helper = "deriveNewAccounts" /\ pc = "returned" =>
        \A i \in dispatched : status[i] \in InChain /\ exec[i] = "ok"

(* The helper's await ends: every transaction of the batch is included in *)
(* turn although they reach the pool in any order.                         *)
BatchReturns == <>(pc \in {"returned", "threw"})
=============================================================================
