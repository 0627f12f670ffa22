--------------------------- MODULE ScenarioProofs ---------------------------
(***************************************************************************)
(* Proofs about the "transferFrom works" scenario, for every set of        *)
(* execution outcomes, pool faults and reorg bound the ASSUMEs allow.      *)
(***************************************************************************)
EXTENDS Scenario, TxResultProofs, TLAPS

Sent(k) == status[k] # "Unsent"

(* The statuses the scenario's node can give a transaction.                *)
ScenarioStatus == {"Unsent", "Submitted", "Ready", "InBlock", "Finalized"}

(* What holds of each transaction: how its helper was attached, that it   *)
(* is watched until its block, that a resolved promise means success and  *)
(* that a fire-mode failure left an error behind, and that a signer's     *)
(* transactions are included in the order the test sent them.             *)
TxInv(k) ==
    /\ status[k] \in ScenarioStatus
    /\ status[k] = "Unsent" =>
           /\ exec[k] = "none" /\ promise[k] = "none" /\ thrown[k] = <<>>
           /\ successCalls[k] = 0 /\ failureCalls[k] = 0
    /\ Sent(k) => mode[k] = Mode[k]
    /\ status[k] \in {"Submitted", "Ready"} =>
           /\ subscribed[k] /\ exec[k] = "none"
           /\ promise[k] = IF Mode[k] = "promise" THEN "pending" ELSE "none"
           /\ thrown[k] = <<>>
    /\ status[k] \in Included => exec[k] \in ExecOutcomes \cup {"module"}
    /\ promise[k] = "resolved" => exec[k] = "ok"
    /\ mode[k] = "fire" /\ status[k] \in Included /\ exec[k] # "ok" =>
           thrown[k] # <<>>
    /\ status[k] \in Included =>
           \A i \in 1..(Position(k) - 1) :
               Signer[Plan[i]] = Signer[k] => status[Plan[i]] \in Included

(* The test awaited the step before each step it sent.                     *)
AwaitedInv == \A p \in 2..Len(Plan) : Sent(Plan[p]) => Awaited(Plan[p - 1])

(* The inductive invariant: the per-transaction facts, that a success      *)
(* implies its prerequisite's, and that a sent step's predecessor has been *)
(* awaited as the test awaits it.                                          *)
SInv ==
    /\ ScenarioTypeOK
    /\ \A k \in Tx : TxInv(k)
    /\ \A k \in DOMAIN Prerequisite :
           exec[k] = "ok" => exec[Prerequisite[k]] = "ok"
    /\ AwaitedInv
    /\ AwaitedPrerequisitesFirst
    /\ PassedMeansChainOk
-----------------------------------------------------------------------------
(* The data of the test: its six steps, in order, and their signers,      *)
(* callbacks and prerequisites.                                            *)
LEMMA PlanFacts ==
    /\ Len(Plan) = 6
    /\ Plan[1] = "addAdmin" /\ Plan[2] = "addInvestors"
    /\ Plan[3] = "initCollection" /\ Plan[4] = "createItem"
    /\ Plan[5] = "setAllowance" /\ Plan[6] = "transferFrom"
    /\ Tx = {"addAdmin", "addInvestors", "initCollection", "createItem",
             "setAllowance", "transferFrom"}
    /\ DOMAIN Prerequisite = {"addInvestors", "createItem", "setAllowance",
                              "transferFrom"}
    /\ Prerequisite["addInvestors"] = "addAdmin"
    /\ Prerequisite["createItem"] = "initCollection"
    /\ Prerequisite["setAllowance"] = "createItem"
    /\ Prerequisite["transferFrom"] = "setAllowance"
    /\ Mode["addAdmin"] = "fire" /\ Mode["addInvestors"] = "fire"
    /\ Mode["initCollection"] = "promise" /\ Mode["createItem"] = "promise"
    /\ Mode["setAllowance"] = "fire" /\ Mode["transferFrom"] = "promise"
    /\ Signer["addInvestors"] = "alice" /\ Signer["initCollection"] = "alice"
  <1>1. Len(Plan) = 6 /\ Plan[1] = "addAdmin" /\ Plan[2] = "addInvestors"
        /\ Plan[3] = "initCollection" /\ Plan[4] = "createItem"
        /\ Plan[5] = "setAllowance" /\ Plan[6] = "transferFrom"
    BY DEF Plan
  <1>2. Tx = {"addAdmin", "addInvestors", "initCollection", "createItem",
              "setAllowance", "transferFrom"}
    <2>1. {Plan[i] : i \in 1..6} = {"addAdmin", "addInvestors", "initCollection",
                                    "createItem", "setAllowance", "transferFrom"}
      BY <1>1
    <2>2. QED
      BY <1>1, <2>1, StepsAssumption
  <1>3. QED
    BY <1>1, <1>2 DEF Prerequisite, Mode, Signer

(* Every transaction has a place in the plan.                              *)
LEMMA PositionFacts ==
    ASSUME NEW k \in Tx
    PROVE  /\ Position(k) \in 1..Len(Plan)
           /\ Plan[Position(k)] = k
  <1>1. \E i \in 1..Len(Plan) : Plan[i] = k
    BY StepsAssumption
  <1>2. QED
    BY <1>1 DEF Position

(* How proceed_tx_result classifies what the node sends: a notification   *)
(* before inclusion is Pending; an included one is Success for "ok",       *)
(* Failed with a module error for "module", Failed with another error for *)
(* "other", and Unexpected without marker events.                          *)
LEMMA NotificationCases ==
    ASSUME NEW s, NEW e
    PROVE  /\ s \notin Included => get_tx_status(Notification(s, e)) = "Pending"
           /\ s \in Included /\ e = "ok" =>
                  get_tx_status(Notification(s, e)) = "Success"
           /\ s \in Included /\ e = "module" =>
                  /\ get_tx_status(Notification(s, e)) = "Failed"
                  /\ parse_error(Notification(s, e)) = "moduleError"
           /\ s \in Included /\ e = "other" =>
                  /\ get_tx_status(Notification(s, e)) = "Failed"
                  /\ parse_error(Notification(s, e)) = "unexpectedError"
           /\ s \in Included /\ e = "unmarked" =>
                  get_tx_status(Notification(s, e)) = "Unexpected"
  BY DEF Notification, get_tx_status, is_tx_completed, isError,
         extrinsic_failed_event_emitted, extrinsic_success_event_emitted,
         parse_error, Included

(* The client's variables, typed as the callback's lemmas need them.      *)
ClientTypes ==
    /\ subscribed \in [Tx -> BOOLEAN]
    /\ unsubCalls \in [Tx -> Nat]
    /\ successCalls \in [Tx -> Nat]
    /\ failureCalls \in [Tx -> Nat]
    /\ promise \in [Tx -> PromiseState]
    /\ thrown \in [Tx -> Seq(Errors)]

LEMMA ClientTypesOK == TypeOK => ClientTypes
  BY DEF TypeOK, ClientTypes

(* A callback run on a notification before inclusion changes nothing.     *)
LEMMA DeliverPending ==
    ASSUME NEW t, NEW s, NEW e, s \notin Included,
           Deliver(t, Notification(s, e))
    PROVE  UNCHANGED clientVars
  <1>1. get_tx_status(Notification(s, e)) = "Pending"
    BY NotificationCases
  <1>2. QED
    BY <1>1, Zenon DEF Deliver, proceed_tx_result

(* What one callback run on an included notification does to the          *)
(* transaction it is about: the others are left alone, a promise resolves  *)
(* only on "ok", a resolved promise and a thrown error stay, and a         *)
(* fire-mode watcher that is still subscribed throws on any failure.       *)
LEMMA DeliverIncluded ==
    ASSUME ClientTypes, NEW t \in Tx, NEW s \in Included, NEW e \in Exec,
           Deliver(t, Notification(s, e))
    PROVE  /\ \A u \in Tx \ {t} :
                  /\ subscribed'[u] = subscribed[u]
                  /\ successCalls'[u] = successCalls[u]
                  /\ failureCalls'[u] = failureCalls[u]
                  /\ promise'[u] = promise[u]
                  /\ thrown'[u] = thrown[u]
           /\ promise'[t] = "resolved" => promise[t] = "resolved" \/ e = "ok"
           /\ promise[t] = "resolved" => promise'[t] = "resolved"
           /\ thrown[t] # <<>> => thrown'[t] # <<>>
           /\ subscribed[t] /\ mode[t] = "fire" /\ e # "ok" => thrown'[t] # <<>>
  <1> DEFINE r == Notification(s, e)
  <1> USE DEF ClientTypes
  <1>1. CASE ~subscribed[t]
    BY <1>1 DEF Deliver, clientVars
  <1>2. CASE subscribed[t] /\ e = "ok"
    <2>1. unsub(t) /\ onSuccess(t)
      <3>1. get_tx_status(r) = "Success"
        BY <1>2, NotificationCases
      <3>2. proceed_tx_result(t, r)
        BY <1>2 DEF Deliver
      <3>3. QED
        BY <1>2, <3>1, <3>2, NotificationCases, Zenon DEF proceed_tx_result
    <2>2. QED
      BY <1>2, <2>1 DEF unsub, onSuccess, Settle
  <1>3. CASE subscribed[t] /\ e = "module"
    <2>1. unsub(t) /\ onFailed(t, "moduleError")
      <3>1. get_tx_status(r) = "Failed"
        BY <1>3, NotificationCases
      <3>2. proceed_tx_result(t, r)
        BY <1>3 DEF Deliver
      <3>3. QED
        BY <1>3, <3>1, <3>2, NotificationCases, Zenon DEF proceed_tx_result
    <2>2. QED
      BY <1>3, <2>1 DEF unsub, onFailed, Settle, Throw
  <1>4. CASE subscribed[t] /\ e = "other"
    <2>1. /\ unsub(t) /\ Throw(t, "unexpectedError")
          /\ UNCHANGED <<successCalls, failureCalls, promise>>
      <3>1. get_tx_status(r) = "Failed"
        BY <1>4, NotificationCases
      <3>2. proceed_tx_result(t, r)
        BY <1>4 DEF Deliver
      <3>3. QED
        BY <1>4, <3>1, <3>2, NotificationCases, Zenon DEF proceed_tx_result
    <2>2. QED
      BY <1>4, <2>1 DEF unsub, Throw
  <1>5. CASE subscribed[t] /\ e = "unmarked"
    <2>1. /\ Throw(t, "unexpectedResult")
          /\ UNCHANGED <<subscribed, unsubCalls, successCalls,
                         failureCalls, promise>>
      <3>1. get_tx_status(r) = "Unexpected"
        BY <1>5, NotificationCases
      <3>2. proceed_tx_result(t, r)
        BY <1>5 DEF Deliver
      <3>3. QED
        BY <1>5, <3>1, <3>2, NotificationCases, Zenon DEF proceed_tx_result
    <2>2. thrown' = [thrown EXCEPT ![t] = Append(thrown[t], "unexpectedResult")]
      BY <2>1 DEF Throw
    <2>3. thrown'[t] # <<>> /\ \A u \in Tx \ {t} : thrown'[u] = thrown[u]
      BY <2>2
    <2>4. /\ subscribed' = subscribed /\ successCalls' = successCalls
          /\ failureCalls' = failureCalls /\ promise' = promise
      BY <2>1
    <2>5. QED
      BY <2>3, <2>4
  <1>6. QED
    BY <1>1, <1>2, <1>3, <1>4, <1>5 DEF Exec

-----------------------------------------------------------------------------
(* The steps before a transaction in the plan are transactions.            *)
LEMMA EarlierSteps ==
    ASSUME NEW u \in Tx
    PROVE  \A i \in 1..(Position(u) - 1) : Plan[i] \in Tx
  <1>1. Position(u) \in 1..Len(Plan)
    BY PositionFacts
  <1>2. \A i \in 1..Len(Plan) : Plan[i] \in Tx
    BY StepsAssumption
  <1>3. QED
    BY <1>1, <1>2

(* A transaction's facts carry over a step that leaves it alone and keeps *)
(* every included transaction included.                                    *)
LEMMA TxInvFrame ==
    ASSUME NEW u \in Tx, TxInv(u),
           status'[u] = status[u], exec'[u] = exec[u], mode'[u] = mode[u],
           subscribed'[u] = subscribed[u], promise'[u] = promise[u],
           thrown'[u] = thrown[u], successCalls'[u] = successCalls[u],
           failureCalls'[u] = failureCalls[u],
           \A x \in Tx : status[x] \in Included => status'[x] \in Included
    PROVE  TxInv(u)'
  <1>1. \A i \in 1..(Position(u) - 1) : Plan[i] \in Tx
    BY EarlierSteps
  <1>2. QED
    BY <1>1 DEF TxInv, Sent

(* What the test awaited stays awaited: a sent transaction is never unsent *)
(* again and a resolved promise stays resolved.                            *)
LEMMA AwaitedStable ==
    ASSUME NEW j, Awaited(j),
           status[j] # "Unsent" => status'[j] # "Unsent",
           promise[j] = "resolved" => promise'[j] = "resolved"
    PROVE  Awaited(j)'
  BY DEF Awaited

LEMMA AwaitedInvStable ==
    ASSUME AwaitedInv,
           \A j \in Tx : status[j] # "Unsent" => status'[j] # "Unsent",
           \A j \in Tx : promise[j] = "resolved" => promise'[j] = "resolved",
           \A j \in Tx : status'[j] # "Unsent" => status[j] # "Unsent"
    PROVE  AwaitedInv'
  <1> SUFFICES ASSUME NEW p \in 2..Len(Plan), Sent(Plan[p])'
               PROVE  Awaited(Plan[p - 1])'
    BY DEF AwaitedInv
  <1>1. Plan[p] \in Tx /\ Plan[p - 1] \in Tx
    BY PlanFacts
  <1>2. Awaited(Plan[p - 1])
    BY <1>1 DEF AwaitedInv, Sent
  <1>3. QED
    BY <1>1, <1>2, AwaitedStable

-----------------------------------------------------------------------------
(* The argument for PassedMeansChainOk: when the transferFrom promise has  *)
(* resolved, transferFrom succeeded, and so did the chain of prerequisites *)
(* down to initCollection.                                                 *)
LEMMA PassedChain ==
    ASSUME \A k \in Tx : TxInv(k),
           \A k \in DOMAIN Prerequisite :
               exec[k] = "ok" => exec[Prerequisite[k]] = "ok",
           promise["transferFrom"] = "resolved"
    PROVE  \A k \in TransferChain : exec[k] = "ok"
  <1>1. exec["transferFrom"] = "ok"
    BY PlanFacts DEF TxInv
  <1>2. exec["setAllowance"] = "ok" /\ exec["createItem"] = "ok"
        /\ exec["initCollection"] = "ok"
    BY <1>1, PlanFacts
  <1>3. QED
    BY <1>1, <1>2 DEF TransferChain

(* The initial state satisfies the inductive invariant.                    *)
LEMMA SInvInit == ScenarioInit => SInv
  <1> SUFFICES ASSUME ScenarioInit PROVE SInv
    OBVIOUS
  <1>1. ScenarioTypeOK
    BY ReorgAssumption
       DEF ScenarioInit, Init, ScenarioTypeOK, TypeOK, Status, PromiseState, Exec
  <1>2. \A k \in Tx : TxInv(k)
    BY DEF ScenarioInit, Init, TxInv, Sent, ScenarioStatus, Included
  <1>3. \A k \in DOMAIN Prerequisite : exec[k] = "ok" => exec[Prerequisite[k]] = "ok"
    BY PlanFacts DEF ScenarioInit, Init
  <1>4. AwaitedInv
    BY PlanFacts DEF ScenarioInit, Init, AwaitedInv, Sent
  <1>5. AwaitedPrerequisitesFirst /\ PassedMeansChainOk
    BY DEF ScenarioInit, AwaitedPrerequisitesFirst, PassedMeansChainOk,
           RanAfterPrerequisite
  <1>6. QED
    BY <1>1, <1>2, <1>3, <1>4, <1>5 DEF SInv

-----------------------------------------------------------------------------
(* The node's variables, typed as the step lemmas need them.               *)
NodeTypes ==
    /\ status \in [Tx -> Status]
    /\ exec \in [Tx -> Exec \cup {"none"}]
    /\ mode \in [Tx -> {"none", "fire", "promise"}]

LEMMA NodeTypesOK == TypeOK => NodeTypes
  BY DEF TypeOK, NodeTypes

(* Sending the next step keeps the invariant: the step was unsent, is now *)
(* watched as its helper attaches it, and the step before it had been      *)
(* awaited.                                                                *)
LEMMA SendPreserves ==
    ASSUME SInv, Send
    PROVE  SInv'
  <1>0. /\ TypeOK /\ ClientTypes /\ NodeTypes /\ \A k \in Tx : TxInv(k)
        /\ AwaitedInv
    BY ClientTypesOK, NodeTypesOK DEF SInv, ScenarioTypeOK
  <1>a. pc \in 1..6 /\ Plan[pc] \in Tx
    BY PlanFacts DEF Send, SInv, ScenarioTypeOK
  <1> PICK t \in Tx : t = Plan[pc]
    BY <1>a
  <1>1. pc \in 1..6 /\ t \in Tx
    BY <1>a
  <1>2. Submit(t, Mode[t]) /\ Mode[t] \in {"fire", "promise"}
    BY <1>1, PlanFacts DEF Send
  <1>3. status[t] = "Unsent"
    BY <1>2 DEF Submit
  <1>4. TypeOK'
    BY <1>0, <1>1, <1>2, TypeInvariance DEF Next
  <1>5. ScenarioTypeOK'
    BY <1>1, <1>4, PlanFacts DEF Send, SInv, ScenarioTypeOK
  <1>6. TxInv(t)'
    <2>1. /\ status'[t] = "Submitted" /\ mode'[t] = Mode[t]
          /\ subscribed'[t] /\ exec'[t] = "none"
          /\ promise'[t] = IF Mode[t] = "promise" THEN "pending" ELSE "none"
          /\ thrown'[t] = <<>>
      BY <1>0, <1>1, <1>2, <1>3 DEF Submit, TxInv, ClientTypes, NodeTypes
    <2>2. QED
      BY <2>1 DEF TxInv, Sent, ScenarioStatus, Included
  <1>7. \A u \in Tx \ {t} :
            /\ status'[u] = status[u] /\ exec'[u] = exec[u] /\ mode'[u] = mode[u]
            /\ subscribed'[u] = subscribed[u] /\ promise'[u] = promise[u]
            /\ thrown'[u] = thrown[u] /\ successCalls'[u] = successCalls[u]
            /\ failureCalls'[u] = failureCalls[u]
    <2>1. /\ status' = [status EXCEPT ![t] = "Submitted"]
          /\ mode' = [mode EXCEPT ![t] = Mode[t]]
          /\ subscribed' = [subscribed EXCEPT ![t] = TRUE]
          /\ promise' = [promise EXCEPT ![t] = IF Mode[t] = "promise"
                                              THEN "pending" ELSE "none"]
          /\ UNCHANGED <<exec, thrown, successCalls, failureCalls>>
      BY <1>2 DEF Submit
    <2>2. /\ DOMAIN status = Tx /\ DOMAIN mode = Tx
          /\ DOMAIN subscribed = Tx /\ DOMAIN promise = Tx
      BY <1>0 DEF ClientTypes, NodeTypes
    <2>3. \A u \in Tx \ {t} : status'[u] = status[u] /\ mode'[u] = mode[u]
      BY <2>1, <2>2, Zenon
    <2>4. \A u \in Tx \ {t} : subscribed'[u] = subscribed[u]
      BY <2>1, <2>2, Zenon
    <2>5. \A u \in Tx \ {t} : promise'[u] = promise[u]
      BY <2>1, <2>2, Zenon
    <2>6. /\ exec' = exec /\ thrown' = thrown
          /\ successCalls' = successCalls /\ failureCalls' = failureCalls
      BY <2>1
    <2>7. QED
      BY <2>3, <2>4, <2>5, <2>6, Zenon
  <1>8. \A x \in Tx : status[x] \in Included => status'[x] \in Included
    BY <1>3, <1>7 DEF Included
  <1>9. \A k \in Tx : TxInv(k)'
    BY <1>0, <1>6, <1>7, <1>8, TxInvFrame
  <1>10. AwaitedInv'
    <2> SUFFICES ASSUME NEW p \in 2..Len(Plan), Sent(Plan[p])'
                 PROVE  Awaited(Plan[p - 1])'
      BY DEF AwaitedInv
    <2>1. Plan[p] \in Tx /\ Plan[p - 1] \in Tx /\ p - 1 \in 1..6
      BY PlanFacts
    <2>2. Awaited(Plan[p - 1])
      <3>1. CASE Plan[p] = t
        <4>1. p = pc
          BY <1>1, <3>1, PlanFacts
        <4>2. QED
          BY <4>1 DEF Send
      <3>2. CASE Plan[p] # t
        BY <1>0, <1>7, <2>1, <3>2 DEF AwaitedInv, Sent
      <3>3. QED
        BY <3>1, <3>2
    <2>3. Plan[p - 1] # t
      <3>1. CASE Mode[Plan[p - 1]] = "fire"
        BY <2>2, <3>1, <1>3 DEF Awaited
      <3>2. CASE Mode[Plan[p - 1]] # "fire"
        <4>1. promise[Plan[p - 1]] = "resolved"
          BY <2>2, <3>2 DEF Awaited
        <4>2. QED
          BY <4>1, <1>0, <1>1, <1>3 DEF TxInv
      <3>3. QED
        BY <3>1, <3>2
    <2>4. QED
      BY <2>1, <2>2, <2>3, <1>7, AwaitedStable
  <1>11. exec' = exec /\ raced' = raced /\ verdict' = verdict
    BY <1>2 DEF Submit, Send
  <1>12. QED
    BY <1>5, <1>9, <1>10, <1>11
       DEF SInv, AwaitedPrerequisitesFirst, PassedMeansChainOk, RanAfterPrerequisite
(* Ending the test keeps the invariant: the test passes only when the     *)
(* transferFrom promise has resolved, which is the hypothesis of           *)
(* PassedChain.                                                            *)
LEMMA ConcludePreserves ==
    ASSUME SInv, Conclude
    PROVE  SInv'
  <1>1. /\ status' = status /\ exec' = exec /\ reorgs' = reorgs
        /\ mode' = mode /\ subscribed' = subscribed /\ unsubCalls' = unsubCalls
        /\ successCalls' = successCalls /\ failureCalls' = failureCalls
        /\ promise' = promise /\ thrown' = thrown /\ pc' = pc /\ raced' = raced
    BY DEF Conclude, vars, nodeVars, clientVars
  <1>2. verdict' \in {"passed", "failed", "timedOut"}
    BY DEF Conclude
  <1>3. verdict' = "passed" => promise["transferFrom"] = "resolved"
    BY PlanFacts DEF Conclude
  <1>4. PassedMeansChainOk'
    BY <1>1, <1>3, PassedChain DEF SInv, PassedMeansChainOk
  <1>5. ScenarioTypeOK'
    BY <1>1, <1>2 DEF SInv, ScenarioTypeOK, TypeOK
  <1>6. (\A k \in Tx : TxInv(k))'
    BY <1>1 DEF SInv, TxInv, Sent, Position
  <1>7. QED
    BY <1>1, <1>4, <1>5, <1>6
       DEF SInv, AwaitedInv, Awaited, Sent, AwaitedPrerequisitesFirst,
           RanAfterPrerequisite

(* The pool accepting a transaction keeps the invariant: Ready is not an   *)
(* included status, so the callback does nothing.                          *)
LEMMA AcceptPreserves ==
    ASSUME SInv, NEW k \in Tx, Accept(k)
    PROVE  SInv'
  <1>0. /\ TypeOK /\ ClientTypes /\ NodeTypes /\ \A x \in Tx : TxInv(x)
        /\ AwaitedInv
    BY ClientTypesOK, NodeTypesOK DEF SInv, ScenarioTypeOK
  <1>1. /\ status[k] = "Submitted"
        /\ status' = [status EXCEPT ![k] = "Ready"]
        /\ exec' = [exec EXCEPT ![k] = "none"]
        /\ UNCHANGED <<mode, reorgs, pc, verdict, raced>>
        /\ Deliver(k, Notification("Ready", "none"))
    BY DEF Accept, NodeReady, Notify, testVars
  <1>2. UNCHANGED clientVars
    BY <1>1, DeliverPending DEF Included
  <1>3. /\ subscribed' = subscribed /\ unsubCalls' = unsubCalls
        /\ successCalls' = successCalls /\ failureCalls' = failureCalls
        /\ promise' = promise /\ thrown' = thrown
    BY <1>2 DEF clientVars
  <1>4. exec[k] = "none"
    BY <1>0, <1>1 DEF TxInv
  <1>5. exec' = exec
    BY <1>0, <1>4, <1>1 DEF NodeTypes
  <1>6. TypeOK'
    BY <1>0, <1>1, TypeInvariance DEF Next, NodeStep, Accept
  <1>7. ScenarioTypeOK'
    BY <1>6, <1>1 DEF SInv, ScenarioTypeOK
  <1>8. \A u \in Tx \ {k} : status'[u] = status[u]
    BY <1>0, <1>1 DEF NodeTypes
  <1>9. \A x \in Tx : status[x] \in Included => status'[x] \in Included
    BY <1>1, <1>8 DEF Included
  <1>10. TxInv(k)'
    <2>1. status'[k] = "Ready"
      BY <1>0, <1>1 DEF NodeTypes
    <2>2. QED
      BY <2>1, <1>0, <1>1, <1>3, <1>5 DEF TxInv, Sent, ScenarioStatus, Included
  <1>11. \A x \in Tx : TxInv(x)'
    BY <1>0, <1>1, <1>3, <1>5, <1>8, <1>9, <1>10, TxInvFrame
  <1>12. \A j \in Tx : (status[j] # "Unsent" <=> status'[j] # "Unsent")
    BY <1>1, <1>8, <1>0 DEF NodeTypes
  <1>13. AwaitedInv'
    BY <1>0, <1>3, <1>12, AwaitedInvStable
  <1>14. QED
    BY <1>1, <1>5, <1>7, <1>11, <1>13
       DEF SInv, AwaitedPrerequisitesFirst, PassedMeansChainOk, RanAfterPrerequisite

(* Each prerequisite is the step just before the transaction needing it.  *)
LEMMA PrerequisiteIsPrevious ==
    ASSUME NEW k \in DOMAIN Prerequisite
    PROVE  /\ k \in Tx
           /\ Position(k) \in 2..Len(Plan)
           /\ Plan[Position(k) - 1] = Prerequisite[k]
  <1>1. k \in Tx
    BY PlanFacts
  <1>2. Position(k) \in 1..Len(Plan) /\ Plan[Position(k)] = k
    BY <1>1, PositionFacts
  <1>3. QED
    BY <1>1, <1>2, PlanFacts

(* Including a ready transaction keeps the invariant.  It executes with    *)
(* success only once its prerequisite has, and a prerequisite the test     *)
(* awaited through a promise has executed with success, as its promise     *)
(* resolved; the transaction was watched, so its callback resolves the     *)
(* promise only on success and throws on any fire-mode failure.            *)
LEMMA IncludePreserves ==
    ASSUME SInv, NEW k \in Tx, Include(k)
    PROVE  SInv'
  <1>0. /\ TypeOK /\ ClientTypes /\ NodeTypes /\ \A x \in Tx : TxInv(x)
        /\ AwaitedInv
    BY ClientTypesOK, NodeTypesOK DEF SInv, ScenarioTypeOK
  <1>a. /\ status[k] = "Ready" /\ exec[k] = "none" /\ subscribed[k]
        /\ mode[k] = Mode[k] /\ promise[k] \in {"pending", "none"}
    BY <1>0 DEF Include, TxInv, Sent
  <1>p. PICK e \in ExecutionResults(k) : Notify(k, "InBlock", e)
    BY DEF Include
  <1>1. /\ e \in ExecOutcomes \cup {"module"} /\ e \in Exec
        /\ (e = "ok" => PrerequisiteMet(k))
    BY <1>p, ExecAssumption DEF ExecutionResults, Exec
  <1>2. /\ status' = [status EXCEPT ![k] = "InBlock"]
        /\ exec' = [exec EXCEPT ![k] = e]
        /\ mode' = mode
        /\ Deliver(k, Notification("InBlock", e))
    BY <1>p DEF Notify
  <1>3. /\ status'[k] = "InBlock" /\ exec'[k] = e
        /\ \A u \in Tx \ {k} : status'[u] = status[u] /\ exec'[u] = exec[u]
    BY <1>0, <1>2 DEF NodeTypes
  <1>4. /\ \A u \in Tx \ {k} :
              /\ subscribed'[u] = subscribed[u]
              /\ successCalls'[u] = successCalls[u]
              /\ failureCalls'[u] = failureCalls[u]
              /\ promise'[u] = promise[u]
              /\ thrown'[u] = thrown[u]
        /\ promise'[k] = "resolved" => promise[k] = "resolved" \/ e = "ok"
        /\ promise[k] = "resolved" => promise'[k] = "resolved"
        /\ subscribed[k] /\ mode[k] = "fire" /\ e # "ok" => thrown'[k] # <<>>
    BY <1>0, <1>1, <1>2, DeliverIncluded DEF Included
  <1>5. UNCHANGED <<reorgs, pc, verdict>>
        /\ raced' = IF PrerequisiteMet(k) THEN raced ELSE raced \cup {k}
    BY DEF Include
  <1>6. ScenarioTypeOK'
    <2>1. /\ status' \in [Tx -> Status]
          /\ exec' \in [Tx -> Exec \cup {"none"}]
          /\ mode' = mode
          /\ subscribed' \in [Tx -> BOOLEAN]
          /\ unsubCalls' \in [Tx -> Nat]
          /\ successCalls' \in [Tx -> Nat]
          /\ failureCalls' \in [Tx -> Nat]
          /\ promise' \in [Tx -> PromiseState]
          /\ thrown' \in [Tx -> Seq(Errors)]
      <3>1. "InBlock" \in Status
        BY DEF Status
      <3>2. QED
        BY <1>0, <1>1, <1>p, <3>1, NotifyTypeOK
    <2>2. TypeOK'
      BY <2>1, <1>0, <1>5 DEF TypeOK
    <2>3. QED
      BY <2>2, <1>5 DEF SInv, ScenarioTypeOK
  <1>7. \A x \in Tx : status[x] \in Included => status'[x] \in Included
    BY <1>3, <1>a DEF Included
  <1>8. TxInv(k)'
    <2>1. \A i \in 1..(Position(k) - 1) :
              Signer[Plan[i]] = Signer[k] => status'[Plan[i]] \in Included
      BY <1>7, EarlierSteps DEF Include
    <2>2. promise'[k] = "resolved" => e = "ok"
      BY <1>a, <1>4
    <2>3. mode'[k] = "fire" /\ e # "ok" => thrown'[k] # <<>>
      BY <1>a, <1>2, <1>4
    <2>4. QED
      BY <1>1, <1>2, <1>3, <1>a, <2>1, <2>2, <2>3
         DEF TxInv, Sent, ScenarioStatus, Included
  <1>9. \A x \in Tx : TxInv(x)'
    BY <1>0, <1>2, <1>3, <1>4, <1>7, <1>8, TxInvFrame
  <1>10. \A j \in DOMAIN Prerequisite :
             exec'[j] = "ok" => exec'[Prerequisite[j]] = "ok"
    <2> SUFFICES ASSUME NEW j \in DOMAIN Prerequisite, exec'[j] = "ok"
                 PROVE  exec'[Prerequisite[j]] = "ok"
      OBVIOUS
    <2>1. j \in Tx /\ Prerequisite[j] \in Tx /\ Prerequisite[j] # j
      BY PlanFacts
    <2>2. CASE j = k
      BY <2>1, <2>2, <1>1, <1>3 DEF PrerequisiteMet
    <2>3. CASE j # k
      <3>1. exec[Prerequisite[j]] = "ok"
        BY <2>1, <2>3, <1>3 DEF SInv
      <3>2. Prerequisite[j] # k
        BY <3>1, <1>a
      <3>3. QED
        BY <2>1, <3>1, <3>2, <1>3
    <2>4. QED
      BY <2>2, <2>3
  <1>11. AwaitedInv'
    <2>1. \A j \in Tx : (status[j] # "Unsent" <=> status'[j] # "Unsent")
      BY <1>3, <1>a
    <2>2. \A j \in Tx : promise[j] = "resolved" => promise'[j] = "resolved"
      BY <1>4
    <2>3. QED
      BY <1>0, <2>1, <2>2, AwaitedInvStable
  <1>12. AwaitedPrerequisitesFirst'
    <2> SUFFICES ASSUME NEW j \in DOMAIN Prerequisite,
                        Mode[Prerequisite[j]] = "promise"
                 PROVE  j \notin raced'
      BY DEF AwaitedPrerequisitesFirst, RanAfterPrerequisite
    <2>1. j \notin raced
      BY DEF SInv, AwaitedPrerequisitesFirst, RanAfterPrerequisite
    <2>2. CASE j = k
      <3>1. Position(k) \in 2..Len(Plan)
            /\ Plan[Position(k) - 1] = Prerequisite[k]
            /\ Plan[Position(k)] = k
        BY <2>2, PrerequisiteIsPrevious, PositionFacts
      <3>2. Awaited(Prerequisite[k])
        BY <3>1, <1>0, <1>a DEF AwaitedInv, Sent
      <3>3. Prerequisite[k] \in Tx
        BY <2>2, PlanFacts
      <3>4. exec[Prerequisite[k]] = "ok"
        BY <2>2, <3>2, <3>3, <1>0 DEF Awaited, TxInv
      <3>5. QED
        BY <2>1, <2>2, <3>4, <1>5 DEF PrerequisiteMet
    <2>3. CASE j # k
      BY <2>1, <2>3, <1>5
    <2>4. QED
      BY <2>2, <2>3
  <1>13. PassedMeansChainOk'
    <2> SUFFICES ASSUME verdict = "passed" PROVE \A j \in TransferChain : exec'[j] = "ok"
      BY <1>5 DEF PassedMeansChainOk
    <2>1. \A j \in TransferChain : exec[j] = "ok"
      BY DEF SInv, PassedMeansChainOk
    <2>2. k \notin TransferChain
      BY <1>a, <2>1
    <2>3. TransferChain \subseteq Tx
      BY PlanFacts DEF TransferChain
    <2>4. QED
      BY <1>3, <2>1, <2>2, <2>3
  <1>14. QED
    BY <1>6, <1>9, <1>10, <1>11, <1>12, <1>13 DEF SInv

(* Finalizing an included transaction keeps the invariant: its result is   *)
(* the one it had in its block, and its callback, run again, cannot resolve *)
(* a promise on a failure nor take back an error.                          *)
LEMMA FinalizePreserves ==
    ASSUME SInv, NEW k \in Tx, Finalize(k)
    PROVE  SInv'
  <1>0. /\ TypeOK /\ ClientTypes /\ NodeTypes /\ \A x \in Tx : TxInv(x)
        /\ AwaitedInv
    BY ClientTypesOK, NodeTypesOK DEF SInv, ScenarioTypeOK
  <1>1. /\ status[k] = "InBlock"
        /\ status' = [status EXCEPT ![k] = "Finalized"]
        /\ exec' = [exec EXCEPT ![k] = exec[k]]
        /\ mode' = mode
        /\ Deliver(k, Notification("Finalized", exec[k]))
        /\ UNCHANGED <<reorgs, pc, verdict, raced>>
    BY DEF Finalize, NodeFinalize, Notify, testVars
  <1>2. exec[k] \in ExecOutcomes \cup {"module"} /\ exec[k] \in Exec
    BY <1>0, <1>1, ExecAssumption DEF TxInv, Included, Exec
  <1>3. exec' = exec
    BY <1>0, <1>1 DEF NodeTypes
  <1>4. /\ status'[k] = "Finalized"
        /\ \A u \in Tx \ {k} : status'[u] = status[u]
    BY <1>0, <1>1 DEF NodeTypes
  <1>5. /\ \A u \in Tx \ {k} :
              /\ subscribed'[u] = subscribed[u]
              /\ successCalls'[u] = successCalls[u]
              /\ failureCalls'[u] = failureCalls[u]
              /\ promise'[u] = promise[u]
              /\ thrown'[u] = thrown[u]
        /\ promise'[k] = "resolved" =>
               promise[k] = "resolved" \/ exec[k] = "ok"
        /\ promise[k] = "resolved" => promise'[k] = "resolved"
        /\ thrown[k] # <<>> => thrown'[k] # <<>>
    BY <1>0, <1>1, <1>2, DeliverIncluded DEF Included
  <1>6. TypeOK'
    BY <1>0, <1>1, TypeInvariance DEF Next, NodeStep, Finalize
  <1>7. ScenarioTypeOK'
    BY <1>6, <1>1 DEF SInv, ScenarioTypeOK
  <1>8. \A x \in Tx : status[x] \in Included => status'[x] \in Included
    BY <1>1, <1>4 DEF Included
  <1>9. TxInv(k)'
    <2>1. promise'[k] = "resolved" => exec'[k] = "ok"
      BY <1>0, <1>3, <1>5 DEF TxInv
    <2>2. mode'[k] = "fire" /\ exec'[k] # "ok" => thrown'[k] # <<>>
      BY <1>0, <1>1, <1>3, <1>5 DEF TxInv, Included
    <2>3. \A i \in 1..(Position(k) - 1) :
              Signer[Plan[i]] = Signer[k] => status'[Plan[i]] \in Included
      BY <1>0, <1>1, <1>8, EarlierSteps DEF TxInv, Included
    <2>4. QED
      BY <1>0, <1>1, <1>2, <1>3, <1>4, <2>1, <2>2, <2>3
         DEF TxInv, Sent, ScenarioStatus, Included
  <1>10. \A x \in Tx : TxInv(x)'
    BY <1>0, <1>1, <1>3, <1>4, <1>5, <1>8, <1>9, TxInvFrame
  <1>11. AwaitedInv'
    <2>1. \A j \in Tx : (status[j] # "Unsent" <=> status'[j] # "Unsent")
      BY <1>1, <1>4
    <2>2. \A j \in Tx : promise[j] = "resolved" => promise'[j] = "resolved"
      BY <1>5
    <2>3. QED
      BY <1>0, <2>1, <2>2, AwaitedInvStable
  <1>12. QED
    BY <1>1, <1>3, <1>7, <1>10, <1>11
       DEF SInv, AwaitedPrerequisitesFirst, PassedMeansChainOk, RanAfterPrerequisite

(* A step that changes nothing keeps the invariant.                        *)
LEMMA StutterPreserves ==
    ASSUME SInv, UNCHANGED allVars
    PROVE  SInv'
  <1>1. /\ status' = status /\ exec' = exec /\ reorgs' = reorgs
        /\ mode' = mode /\ subscribed' = subscribed /\ unsubCalls' = unsubCalls
        /\ successCalls' = successCalls /\ failureCalls' = failureCalls
        /\ promise' = promise /\ thrown' = thrown /\ pc' = pc
        /\ verdict' = verdict /\ raced' = raced
    BY DEF allVars, vars, nodeVars, clientVars, testVars
  <1>2. QED
    BY <1>1 DEF SInv, ScenarioTypeOK, TypeOK, TxInv, Sent, Position,
                AwaitedInv, Awaited, AwaitedPrerequisitesFirst,
                RanAfterPrerequisite, PassedMeansChainOk

(* Every step of the scenario keeps the inductive invariant.               *)
LEMMA SInvStep == SInv /\ [ScenarioNext]_allVars => SInv'
  <1> SUFFICES ASSUME SInv, [ScenarioNext]_allVars PROVE SInv'
    OBVIOUS
  <1>1. CASE Send
    BY <1>1, SendPreserves
  <1>2. CASE Conclude
    BY <1>2, ConcludePreserves
  <1>3. ASSUME NEW k \in Tx, Accept(k) PROVE SInv'
    BY <1>3, AcceptPreserves
  <1>4. ASSUME NEW k \in Tx, Include(k) PROVE SInv'
    BY <1>4, IncludePreserves
  <1>5. ASSUME NEW k \in Tx, Finalize(k) PROVE SInv'
    BY <1>5, FinalizePreserves
  <1>6. CASE UNCHANGED allVars
    BY <1>6, StutterPreserves
  <1>7. QED
    BY <1>1, <1>2, <1>3, <1>4, <1>5, <1>6 DEF ScenarioNext

-----------------------------------------------------------------------------
(* The transactions the test sends after awaiting a promise-mode helper    *)
(* (createItem after createCollection, setAllowance after createItem)      *)
(* never execute before what that helper created, in every behaviour of    *)
(* the scenario, whatever outcomes, pool faults and reorg bound it runs    *)
(* with.                                                                   *)
THEOREM AwaitedPrerequisitesFirstHolds == ScenarioSpec => []AwaitedPrerequisitesFirst
  <1>1. SInv => AwaitedPrerequisitesFirst
    BY DEF SInv
  <1>2. QED
    BY <1>1, SInvInit, SInvStep, PTL DEF ScenarioSpec

(* A test run that ends "passed" had its transfer and every step whose    *)
(* state the transfer needs execute with success, whatever the order of    *)
(* blocks across the three signers (the fire-mode whitelist steps are not  *)
(* covered: run verdict shows the test passing after one failed).          *)
THEOREM PassedMeansChainOkHolds == ScenarioSpec => []PassedMeansChainOk
  <1>1. SInv => PassedMeansChainOk
    BY DEF SInv
  <1>2. QED
    BY <1>1, SInvInit, SInvStep, PTL DEF ScenarioSpec

(* The scenario's variables keep their types.                              *)
THEOREM ScenarioTypeCorrect == ScenarioSpec => []ScenarioTypeOK
  <1>1. SInv => ScenarioTypeOK
    BY DEF SInv
  <1>2. QED
    BY <1>1, SInvInit, SInvStep, PTL DEF ScenarioSpec
=============================================================================
