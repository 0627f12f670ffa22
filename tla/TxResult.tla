------------------------------ MODULE TxResult ------------------------------
(***************************************************************************)
(* The transaction submission-and-confirmation helpers of                  *)
(* src/api-tests/src/util/txResult.ts, driven by the status stream that a  *)
(* node sends for every watched extrinsic.                                 *)
(*                                                                         *)
(* A caller submits a transaction with signAndSend(tx, options, cb), where *)
(* cb is ensure_success (fire-and-report) or ensure_success_promise        *)
(* (resolve an outer promise).  The node then pushes SubmittableResult     *)
(* notifications; each one runs proceed_tx_result to completion (the host  *)
(* is single-threaded), which classifies it with get_tx_status and, on a   *)
(* terminal classification, calls unsub() and then onSuccess or onFailed.  *)
(*                                                                         *)
(* The node is the environment: its actions move a transaction through the *)
(* substrate ExtrinsicStatus lifecycle and, in the same step, deliver the  *)
(* resulting notification to the callback if the client is still          *)
(* subscribed (an rxjs unsubscribe stops delivery at once).                *)
(***************************************************************************)
EXTENDS Naturals, Sequences

CONSTANTS
    Tx,            \* the submitted transactions
    ExecOutcomes,  \* how an included transaction can execute
    PoolFaults,    \* the pool-level failures the node may report
    MaxReorgs      \* bound on retractions of a transaction's block

(* Execution result of a transaction in the block that includes it:        *)
(* "ok" emits system.ExtrinsicSuccess; "module" and "other" emit           *)
(* system.ExtrinsicFailed with a module / a non-module DispatchError;       *)
(* "unmarked" emits neither marker (the spec's protocol inconsistency).    *)
Exec == {"ok", "module", "other", "unmarked"}

ASSUME ExecAssumption == ExecOutcomes \subseteq Exec /\ ExecOutcomes # {}
ASSUME FaultAssumption ==
    PoolFaults \subseteq {"Invalid", "Dropped", "Usurped", "FinalityTimeout"}
ASSUME ReorgAssumption == MaxReorgs \in Nat

(* Node-side status of a transaction.  "Unsent" precedes signAndSend and   *)
(* "Submitted" is accepted by the pool with no notification sent yet; the  *)
(* others are the ExtrinsicStatus variants.                                *)
Status == {"Unsent", "Submitted", "Future", "Ready", "Broadcast", "InBlock",
           "Retracted", "Finalized", "FinalityTimeout",
           "Invalid", "Dropped", "Usurped"}

(* Errors the helpers raise: the decoded "<section>.<name>" of a module    *)
(* error, and the two Error strings thrown by get_tx_status and           *)
(* parse_error.                                                            *)
Errors == {"moduleError", "unexpectedResult", "unexpectedError"}

PromiseState == {"none", "pending", "resolved", "rejected"}

VARIABLES
    status,        \* node: ExtrinsicStatus of each transaction
    exec,          \* node: execution result in the including block
    reorgs,        \* node: retractions so far
    mode,          \* caller: which helper watches the transaction
    subscribed,    \* client: unsub() not yet called
    unsubCalls,    \* client: calls of unsub()
    successCalls,  \* client: calls of onSuccess
    failureCalls,  \* client: calls of onFailed
    promise,       \* caller: the outer promise of ensure_success_promise
    thrown         \* client: errors thrown to the ambient handler

nodeVars == <<status, exec, reorgs>>
clientVars == <<subscribed, unsubCalls, successCalls, failureCalls,
                promise, thrown>>
vars == <<nodeVars, mode, clientVars>>

-----------------------------------------------------------------------------
(* A SubmittableResult, reduced to what the helpers read: the status, the  *)
(* methods of the extrinsic's events (only fetched for InBlock and         *)
(* Finalized) and the kind of its dispatchError (taken by the library from *)
(* the ExtrinsicFailed event).                                             *)
Notification(s, e) ==
    LET included == s \in {"InBlock", "Finalized"}
    IN  [status        |-> s,
         events        |-> IF ~included THEN {}
                           ELSE CASE e = "ok"                -> {"ExtrinsicSuccess"}
                                  [] e \in {"module", "other"} -> {"ExtrinsicFailed"}
                                  [] e = "unmarked"          -> {},
         dispatchError |-> IF included /\ e \in {"module", "other"}
                           THEN e ELSE "none"]

(* SubmittableResult.isError of @polkadot/api: the status is Dropped,      *)
(* FinalityTimeout, Invalid or Usurped.                                    *)
isError(r) == r.status \in {"Dropped", "FinalityTimeout", "Invalid", "Usurped"}

is_tx_completed(r) == r.status \in {"InBlock", "Finalized"}

extrinsic_success_event_emitted(r) == "ExtrinsicSuccess" \in r.events

(* Mutation: the failure filter looks for the wrong method name.          *)
failed_filter_wrong_method(r) == "ExtrinsicSuccess" \in r.events

extrinsic_failed_event_emitted(r) == "ExtrinsicFailed" \in r.events

(* TxStatus of a notification; "Unexpected" is the Error thrown for a      *)
(* completed result with neither marker event.                            *)
get_tx_status(r) ==
    IF ~is_tx_completed(r) THEN "Pending"
    ELSE IF isError(r) \/ extrinsic_failed_event_emitted(r) THEN "Failed"
    ELSE IF extrinsic_success_event_emitted(r) THEN "Success"
    ELSE "Unexpected"

(* The Error returned for a module error, or the one thrown otherwise.     *)
parse_error(r) ==
    IF r.dispatchError = "module" THEN "moduleError" ELSE "unexpectedError"

Throw(t, err) == thrown' = [thrown EXCEPT ![t] = Append(@, err)]

(* A JavaScript promise settles once; later resolve/reject are ignored.    *)
Settle(t, outcome) ==
    promise' = [promise EXCEPT ![t] = IF @ = "pending" THEN outcome ELSE @]

(* The onSuccess / onFailed continuations each helper passes in:           *)
(* ensure_success keeps the defaults (no-op, throw e), ensure_success_     *)
(* promise resolves or rejects the outer promise.                          *)
onSuccess(t) ==
    /\ successCalls' = [successCalls EXCEPT ![t] = @ + 1]
    /\ IF mode[t] = "promise" THEN Settle(t, "resolved")
                              ELSE UNCHANGED promise
    /\ UNCHANGED <<failureCalls, thrown>>

(* Mutation: ensure_success_promise passes resolve where reject belongs.   *)
onFailed_resolves(t, err) ==
    /\ failureCalls' = [failureCalls EXCEPT ![t] = @ + 1]
    /\ IF mode[t] = "promise" THEN Settle(t, "resolved") /\ UNCHANGED thrown
                              ELSE Throw(t, err) /\ UNCHANGED promise
    /\ UNCHANGED successCalls

onFailed(t, err) ==
    /\ failureCalls' = [failureCalls EXCEPT ![t] = @ + 1]
    /\ IF mode[t] = "promise" THEN Settle(t, "rejected") /\ UNCHANGED thrown
                              ELSE Throw(t, err) /\ UNCHANGED promise
    /\ UNCHANGED successCalls

unsub(t) ==
    /\ subscribed' = [subscribed EXCEPT ![t] = FALSE]
    /\ unsubCalls' = [unsubCalls EXCEPT ![t] = @ + 1]

(* Mutation: the Success branch forgets unsub().                           *)
proceed_without_unsub(t, r) ==
    LET txStatus == get_tx_status(r) IN
    CASE txStatus = "Pending" -> UNCHANGED clientVars
      [] txStatus = "Unexpected" ->
            /\ Throw(t, "unexpectedResult")
            /\ UNCHANGED <<subscribed, unsubCalls, successCalls,
                           failureCalls, promise>>
      [] txStatus = "Success" ->
            onSuccess(t) /\ UNCHANGED <<subscribed, unsubCalls>>
      [] txStatus = "Failed" ->
            /\ unsub(t)
            /\ IF parse_error(r) = "moduleError"
               THEN onFailed(t, "moduleError")
               ELSE /\ Throw(t, "unexpectedError")
                    /\ UNCHANGED <<successCalls, failureCalls, promise>>

(* Mutation: the Failed branch unsubscribes a second time when the error  *)
(* is a module error.                                                      *)
proceed_double_unsub(t, r) ==
    LET txStatus == get_tx_status(r) IN
    CASE txStatus = "Pending" -> UNCHANGED clientVars
      [] txStatus = "Unexpected" ->
            /\ Throw(t, "unexpectedResult")
            /\ UNCHANGED <<subscribed, unsubCalls, successCalls,
                           failureCalls, promise>>
      [] txStatus = "Success" -> unsub(t) /\ onSuccess(t)
      [] txStatus = "Failed" ->
            /\ IF parse_error(r) = "moduleError"
               THEN /\ subscribed' = [subscribed EXCEPT ![t] = FALSE]
                    /\ unsubCalls' = [unsubCalls EXCEPT ![t] = @ + 2]
                    /\ onFailed(t, "moduleError")
               ELSE /\ unsub(t)
                    /\ Throw(t, "unexpectedError")
                    /\ UNCHANGED <<successCalls, failureCalls, promise>>

(* Mutation: onFailed receives result.dispatchError instead of             *)
(* parse_error(result).                                                    *)
proceed_raw_dispatch_error(t, r) ==
    LET txStatus == get_tx_status(r) IN
    CASE txStatus = "Pending" -> UNCHANGED clientVars
      [] txStatus = "Unexpected" ->
            /\ Throw(t, "unexpectedResult")
            /\ UNCHANGED <<subscribed, unsubCalls, successCalls,
                           failureCalls, promise>>
      [] txStatus = "Success" -> unsub(t) /\ onSuccess(t)
      [] txStatus = "Failed" -> unsub(t) /\ onFailed(t, r.dispatchError)

(* One run of the status callback on notification r.                       *)
proceed_tx_result(t, r) ==
    LET txStatus == get_tx_status(r) IN
    CASE txStatus = "Pending" ->
            UNCHANGED clientVars
      [] txStatus = "Unexpected" ->
            /\ Throw(t, "unexpectedResult")
            /\ UNCHANGED <<subscribed, unsubCalls, successCalls,
                           failureCalls, promise>>
      [] txStatus = "Success" ->
            unsub(t) /\ onSuccess(t)
      [] txStatus = "Failed" ->
            /\ unsub(t)
            /\ IF parse_error(r) = "moduleError"
               THEN onFailed(t, "moduleError")
               ELSE /\ Throw(t, "unexpectedError")
                    /\ UNCHANGED <<successCalls, failureCalls, promise>>

(* The provider invokes the callback only while the client is subscribed. *)
Deliver(t, r) ==
    IF subscribed[t] THEN proceed_tx_result(t, r) ELSE UNCHANGED clientVars

-----------------------------------------------------------------------------
Init ==
    /\ status = [t \in Tx |-> "Unsent"]
    /\ exec = [t \in Tx |-> "none"]
    /\ reorgs = [t \in Tx |-> 0]
    /\ mode = [t \in Tx |-> "none"]
    /\ subscribed = [t \in Tx |-> FALSE]
    /\ unsubCalls = [t \in Tx |-> 0]
    /\ successCalls = [t \in Tx |-> 0]
    /\ failureCalls = [t \in Tx |-> 0]
    /\ promise = [t \in Tx |-> "none"]
    /\ thrown = [t \in Tx |-> <<>>]

(* signAndSend(tx, options, result => ensure_success(result, unsub)) or    *)
(* the same with ensure_success_promise(result, unsub, {resolve, reject})  *)
(* inside new Promise(...): the pool accepts the transaction and the       *)
(* callback is attached.                                                   *)
Submit(t, m) ==
    /\ status[t] = "Unsent"
    /\ status' = [status EXCEPT ![t] = "Submitted"]
    /\ mode' = [mode EXCEPT ![t] = m]
    /\ subscribed' = [subscribed EXCEPT ![t] = TRUE]
    /\ promise' = [promise EXCEPT ![t] = IF m = "promise" THEN "pending" ELSE "none"]
    /\ UNCHANGED <<exec, reorgs, unsubCalls, successCalls, failureCalls, thrown>>

(* The node moves t to status s with execution result e and notifies.     *)
Notify(t, s, e) ==
    /\ status' = [status EXCEPT ![t] = s]
    /\ exec' = [exec EXCEPT ![t] = e]
    /\ Deliver(t, Notification(s, e))
    /\ UNCHANGED mode

NodeReady(t) ==
    /\ status[t] = "Submitted"
    /\ Notify(t, "Ready", "none")
    /\ UNCHANGED reorgs

NodeBroadcast(t) ==
    /\ status[t] = "Ready"
    /\ Notify(t, "Broadcast", "none")
    /\ UNCHANGED reorgs

(* Inclusion, first or after a retraction; the result may differ between   *)
(* blocks since the state the transaction runs against differs.            *)
NodeInBlock(t) ==
    /\ status[t] \in {"Ready", "Broadcast", "Retracted"}
    /\ \E e \in ExecOutcomes : Notify(t, "InBlock", e)
    /\ UNCHANGED reorgs

NodeRetract(t) ==
    /\ status[t] = "InBlock"
    /\ reorgs[t] < MaxReorgs
    /\ Notify(t, "Retracted", "none")
    /\ reorgs' = [reorgs EXCEPT ![t] = @ + 1]

NodeFinalize(t) ==
    /\ status[t] = "InBlock"
    /\ Notify(t, "Finalized", exec[t])
    /\ UNCHANGED reorgs

(* Pool-level failures: Invalid, Dropped and Usurped before inclusion,     *)
(* FinalityTimeout after it.                                               *)
NodeFault(t) ==
    \E f \in PoolFaults :
        /\ IF f = "FinalityTimeout" THEN status[t] = "InBlock"
           ELSE status[t] \in {"Ready", "Broadcast", "Retracted"}
        /\ Notify(t, f, "none")
        /\ UNCHANGED reorgs

NodeStep(t) ==
    \/ NodeReady(t)
    \/ NodeBroadcast(t)
    \/ NodeInBlock(t)
    \/ NodeRetract(t)
    \/ NodeFinalize(t)
    \/ NodeFault(t)

Next ==
    \E t \in Tx :
        \/ \E m \in {"fire", "promise"} : Submit(t, m)
        \/ NodeStep(t)

(* The provider keeps sending a watched transaction's notifications until *)
(* a final status (the spec's assumption on the provider).  Submitting is *)
(* the caller's choice and carries no fairness.                            *)
Spec == Init /\ [][Next]_vars /\ \A t \in Tx : WF_vars(NodeStep(t))

-----------------------------------------------------------------------------
TypeOK ==
    /\ status \in [Tx -> Status]
    /\ exec \in [Tx -> Exec \cup {"none"}]
    /\ reorgs \in [Tx -> 0..MaxReorgs]
    /\ mode \in [Tx -> {"none", "fire", "promise"}]
    /\ subscribed \in [Tx -> BOOLEAN]
    /\ unsubCalls \in [Tx -> Nat]
    /\ successCalls \in [Tx -> Nat]
    /\ failureCalls \in [Tx -> Nat]
    /\ promise \in [Tx -> PromiseState]
    /\ thrown \in [Tx -> Seq(Errors)]

(* Idempotent terminal handling (spec 4.3): whatever further notifications *)
(* the node sends (Finalized after InBlock, a re-inclusion after a         *)
(* retraction), proceed_tx_result calls unsub() at most once and at most  *)
(* one of onSuccess / onFailed, once.                                      *)
AtMostOnce ==
    \A t \in Tx :
        /\ unsubCalls[t] <= 1
        /\ successCalls[t] + failureCalls[t] <= 1

(* What the caller observes as the end of its wait: the outer promise      *)
(* settled, or for ensure_success the success path ran or an error reached *)
(* the ambient handler.                                                    *)
Settled(t) ==
    IF mode[t] = "promise" THEN promise[t] \in {"resolved", "rejected"}
    ELSE successCalls[t] + failureCalls[t] + Len(thrown[t]) > 0

(* Every submitted transaction's wait ends (spec 3, 7: every kind of       *)
(* outcome is resolved exactly once per submission; a Pending-forever     *)
(* stream is a defect).                                                    *)
EverySubmissionSettled ==
    \A t \in Tx : (status[t] # "Unsent") ~> Settled(t)

(* The outcome reported to the caller is the outcome the transaction has  *)
(* once its block is finalized.                                            *)
ReportedOutcomeFinal ==
    \A t \in Tx :
        status[t] = "Finalized" =>
            /\ successCalls[t] > 0 => exec[t] = "ok"
            /\ failureCalls[t] > 0 => exec[t] # "ok"

-----------------------------------------------------------------------------
(* The refinement mapping onto Completion: a transaction is watched from   *)
(* signAndSend until unsub(), and what it reported is the continuation     *)
(* that ran.                                                               *)
watchPhase ==
    [t \in Tx |-> IF status[t] = "Unsent" THEN "idle"
                  ELSE IF subscribed[t] THEN "watching" ELSE "closed"]

reportedOutcome ==
    [t \in Tx |-> IF successCalls[t] > 0 THEN "success"
                  ELSE IF failureCalls[t] > 0 THEN "failure" ELSE "none"]

Abstract == INSTANCE Completion WITH phase <- watchPhase, outcome <- reportedOutcome

(* The helpers implement the Completion Controller of spec 4.3: every     *)
(* notification either leaves the watch and the report alone or closes    *)
(* the watch, calling unsub() and reporting at most one outcome in the    *)
(* same callback, after which nothing the node sends changes the report.  *)
CompletionRefinement == Abstract!CSpec
=============================================================================
