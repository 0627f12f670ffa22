------------------------------ MODULE Scenario ------------------------------
(***************************************************************************)
(* The "transferFrom works" test of refungible/transfer.test.ts, from the *)
(* point where deriveNewAccounts has returned: six transactions from three *)
(* signers, each watched by the helpers of TxResult and each sent once the *)
(* test's await on the previous one has returned.                          *)
(*                                                                         *)
(*   addAdmin       root   setWhitelistAdmins     ensure_success           *)
(*   addInvestors   alice  setWhitelistInvestors  ensure_success           *)
(*   initCollection alice  createCollection       ensure_success_promise   *)
(*   createItem     alice  createItem             ensure_success_promise   *)
(*   setAllowance   alice  (test body)            ensure_success           *)
(*   transferFrom   bob    (test body)            ensure_success_promise   *)
(*                                                                         *)
(* An await on a signAndSend that uses ensure_success returns as soon as   *)
(* the pool has accepted the transaction; an await on a helper built on    *)
(* ensure_success_promise returns once the transaction is InBlock with     *)
(* ExtrinsicSuccess.  The node includes one signer's transactions in nonce *)
(* order (defaultTxOptions leaves the nonce to the node) and different     *)
(* signers' transactions in any order.  A transaction whose prerequisite   *)
(* (the state the test set up for it) is not yet on chain executes with a  *)
(* module error; one whose prerequisite is there executes with any of      *)
(* ExecOutcomes, since it may still fail for reasons of its own.           *)
(***************************************************************************)
EXTENDS TxResult

VARIABLES
    pc,        \* test: index in Plan of the next transaction to send
    verdict,   \* test: "running", "passed", "failed" or "timedOut"
    raced      \* history: transactions executed before their prerequisite

testVars == <<pc, verdict, raced>>
allVars == <<vars, testVars>>

Plan == <<"addAdmin", "addInvestors", "initCollection", "createItem",
          "setAllowance", "transferFrom">>

(* The transactions are the steps of the test.                            *)
ASSUME StepsAssumption == Tx = {Plan[i] : i \in 1..Len(Plan)}

Signer == [addAdmin |-> "root", addInvestors |-> "alice",
           initCollection |-> "alice", createItem |-> "alice",
           setAllowance |-> "alice", transferFrom |-> "bob"]

(* The callback each transaction is sent with.                             *)
Mode == [addAdmin |-> "fire", addInvestors |-> "fire",
         initCollection |-> "promise", createItem |-> "promise",
         setAllowance |-> "fire", transferFrom |-> "promise"]

(* The on-chain state a transaction needs, by the transaction creating it: *)
(* alice adds investors as a whitelist admin, an item goes into the new    *)
(* collection, the allowance is set on the new item, and bob spends it.    *)
Prerequisite == [addInvestors |-> "addAdmin", createItem |-> "initCollection",
                 setAllowance |-> "createItem", transferFrom |-> "setAllowance"]

Included == {"InBlock", "Finalized"}

Position(k) == CHOOSE i \in 1..Len(Plan) : Plan[i] = k

(* The state k needs is on chain: its prerequisite executed successfully.  *)
PrerequisiteMet(k) ==
    k \notin DOMAIN Prerequisite \/ exec[Prerequisite[k]] = "ok"

(* The chain outcomes of executing k now.                                  *)
ExecutionResults(k) ==
    IF PrerequisiteMet(k) THEN ExecOutcomes ELSE {"module"}

-----------------------------------------------------------------------------
ScenarioInit ==
    /\ Init
    /\ pc = 1
    /\ verdict = "running"
    /\ raced = {}

(* Mutation: the test goes on after a promise-mode helper has only been   *)
(* submitted, as if its promise were not awaited.                          *)
AwaitedOnSubmission(k) == status[k] # "Unsent"

(* What `await` on the step k waits for.                                   *)
Awaited(k) ==
    IF Mode[k] = "fire" THEN status[k] # "Unsent" ELSE promise[k] = "resolved"

(* The test body sends its next transaction once its await on the         *)
(* previous one has returned.                                              *)
Send ==
    /\ verdict = "running"
    /\ pc <= Len(Plan)
    /\ pc > 1 => Awaited(Plan[pc - 1])
    /\ Submit(Plan[pc], Mode[Plan[pc]])
    /\ pc' = pc + 1
    /\ UNCHANGED <<verdict, raced>>

(* How mocha ends the test: the promise it returned settles through the   *)
(* transferFrom callback's resolve or reject; a rejected helper promise    *)
(* throws inside the test's async executor, so that promise never settles  *)
(* and the test times out.  An error thrown from a status callback never  *)
(* reaches the test: @polkadot/api runs each callback through nextTick,   *)
(* which catches and logs it.                                              *)
Conclude ==
    /\ verdict = "running"
    /\ \/ /\ promise[Plan[Len(Plan)]] = "resolved"
          /\ verdict' = "passed"
       \/ /\ promise[Plan[Len(Plan)]] = "rejected"
          /\ verdict' = "failed"
       \/ /\ \E i \in 1..(Len(Plan) - 1) : promise[Plan[i]] = "rejected"
          /\ verdict' = "timedOut"
    /\ UNCHANGED <<vars, pc, raced>>

(* The pool makes an accepted transaction ready.                           *)
Accept(k) ==
    /\ NodeReady(k)
    /\ UNCHANGED testVars

(* A block includes k after every earlier transaction of its signer, and  *)
(* k executes against the chain state at that point.                       *)
Include(k) ==
    /\ status[k] = "Ready"
    /\ \A i \in 1..(Position(k) - 1) :
           Signer[Plan[i]] = Signer[k] => status[Plan[i]] \in Included
    /\ \E e \in ExecutionResults(k) : Notify(k, "InBlock", e)
    /\ raced' = IF PrerequisiteMet(k) THEN raced ELSE raced \cup {k}
    /\ UNCHANGED <<reorgs, pc, verdict>>

Finalize(k) ==
    /\ NodeFinalize(k)
    /\ UNCHANGED testVars

ScenarioNext ==
    \/ Send
    \/ Conclude
    \/ \E k \in Tx : Accept(k) \/ Include(k) \/ Finalize(k)

ScenarioSpec == ScenarioInit /\ [][ScenarioNext]_allVars

-----------------------------------------------------------------------------
ScenarioTypeOK ==
    /\ TypeOK
    /\ pc \in 1..(Len(Plan) + 1)
    /\ verdict \in {"running", "passed", "failed", "timedOut"}
    /\ raced \subseteq Tx

(* No transaction executes before the state it needs.                     *)
RanAfterPrerequisite(k) == k \notin raced

(* A transaction the test sends after awaiting a helper built on           *)
(* ensure_success_promise (createItem after createCollection, the          *)
(* allowance after createItem) never runs ahead of what that helper        *)
(* created, whatever the order of blocks.                                  *)
AwaitedPrerequisitesFirst ==
    \A k \in DOMAIN Prerequisite :
        Mode[Prerequisite[k]] = "promise" => RanAfterPrerequisite(k)

(* A transaction the test sends after awaiting an ensure_success          *)
(* signAndSend (alice's addInvestors after root's addAdmin through         *)
(* setWhitelistAdmins, bob's transferFrom after alice's setAllowance)      *)
(* never runs ahead of it: the test is written as if that await ordered    *)
(* them.                                                                   *)
FireModePrerequisitesFirst ==
    \A k \in DOMAIN Prerequisite :
        Mode[Prerequisite[k]] = "fire" => RanAfterPrerequisite(k)

TransferChain == {"initCollection", "createItem", "setAllowance", "transferFrom"}

(* What a passing test does show: the transfer it checks succeeded, and so *)
(* did every step of the chain whose state the transfer needs (the two     *)
(* promise-mode helpers and alice's setAllowance), whatever the order of   *)
(* blocks across the three signers.                                        *)
PassedMeansChainOk ==
    verdict = "passed" => \A k \in TransferChain : exec[k] = "ok"
=============================================================================
