------------------------- MODULE TxResultRefinement -------------------------
(***************************************************************************)
(* Proof that the helpers of txResult.ts implement the Completion          *)
(* Controller of spec 4.3 under the mapping watchPhase / reportedOutcome   *)
(* of TxResult, for every instance of the constants.  It rests on the      *)
(* invariant IInv of TxResultProofs: a subscribed transaction has had no   *)
(* unsub() and no continuation, so the callback that unsubscribes is the  *)
(* one that reports.                                                       *)
(***************************************************************************)
EXTENDS TxResultProofs

mapped == <<watchPhase, reportedOutcome>>

(* The part of TypeOK the mapping reads.                                   *)
MappedTypes ==
    /\ subscribed \in [Tx -> BOOLEAN]
    /\ successCalls \in [Tx -> Nat]
    /\ failureCalls \in [Tx -> Nat]

LEMMA MappedTypesOK == TypeOK => MappedTypes
  BY DEF TypeOK, MappedTypes

(* Before anything is sent there is no subscription and no call.          *)
LEMMA OnceInvEmpty ==
    ASSUME status = [t \in Tx |-> "Unsent"],
           subscribed = [t \in Tx |-> FALSE],
           unsubCalls = [t \in Tx |-> 0],
           successCalls = [t \in Tx |-> 0],
           failureCalls = [t \in Tx |-> 0]
    PROVE  OnceInv
  <1> SUFFICES ASSUME NEW t \in Tx PROVE OnceInv!(t)
    BY DEF OnceInv
  <1>1. /\ status[t] = "Unsent" /\ subscribed[t] = FALSE
        /\ unsubCalls[t] = 0 /\ successCalls[t] = 0 /\ failureCalls[t] = 0
    BY Zenon
  <1>2. QED
    BY <1>1

(* A step that keeps whether each transaction is Unsent, its subscription *)
(* and both continuation counters leaves the abstract state alone.         *)
LEMMA MappingStutter ==
    ASSUME MappedTypes,
           \A u \in Tx : status'[u] = "Unsent" <=> status[u] = "Unsent",
           UNCHANGED <<subscribed, successCalls, failureCalls>>
    PROVE  UNCHANGED mapped
  <1>1. watchPhase' = watchPhase
    BY DEF watchPhase
  <1>2. reportedOutcome' = reportedOutcome
    BY DEF reportedOutcome
  <1>3. QED
    BY <1>1, <1>2 DEF mapped

(* A callback that unsubscribes a watched transaction with no report yet  *)
(* and sets each continuation counter to at most one, not both, is a      *)
(* Close of the abstract controller.                                      *)
LEMMA MappingClose ==
    ASSUME MappedTypes, NEW t \in Tx,
           status[t] # "Unsent", subscribed[t],
           successCalls[t] = 0, failureCalls[t] = 0,
           \A u \in Tx : status'[u] = "Unsent" <=> status[u] = "Unsent",
           subscribed' = [subscribed EXCEPT ![t] = FALSE],
           \/ successCalls'[t] = 1 /\ failureCalls'[t] = 0
           \/ successCalls'[t] = 0 /\ failureCalls'[t] = 1
           \/ successCalls'[t] = 0 /\ failureCalls'[t] = 0,
           \A u \in Tx \ {t} : /\ successCalls'[u] = successCalls[u]
                              /\ failureCalls'[u] = failureCalls[u]
    PROVE  Abstract!Close(t)
  <1> DEFINE rep == IF successCalls'[t] = 1 THEN "success"
                    ELSE IF failureCalls'[t] = 1 THEN "failure" ELSE "none"
  <1>1. watchPhase[t] = "watching"
    BY DEF watchPhase
  <1>2. watchPhase' = [watchPhase EXCEPT ![t] = "closed"]
    <2>1. ASSUME NEW u \in Tx
          PROVE  watchPhase'[u] = [watchPhase EXCEPT ![t] = "closed"][u]
      <3>1. CASE u = t
        BY <3>1 DEF watchPhase, MappedTypes
      <3>2. CASE u # t
        BY <3>2 DEF watchPhase, MappedTypes
      <3>3. QED
        BY <3>1, <3>2
    <2>2. QED
      BY <2>1, Zenon DEF watchPhase
  <1>3. reportedOutcome' = [reportedOutcome EXCEPT ![t] = rep]
    <2>1. ASSUME NEW u \in Tx
          PROVE  reportedOutcome'[u] = [reportedOutcome EXCEPT ![t] = rep][u]
      <3>1. CASE u = t
        BY <3>1 DEF reportedOutcome
      <3>2. CASE u # t
        BY <3>2 DEF reportedOutcome
      <3>3. QED
        BY <3>1, <3>2
    <2>2. QED
      BY <2>1, Zenon DEF reportedOutcome
  <1>4. rep \in Abstract!Reports
    BY DEF Abstract!Reports
  <1>5. QED
    BY <1>1, <1>2, <1>3, <1>4, Zenon DEF Abstract!Close

(* One run of the status callback on a transaction that has been sent,    *)
(* together with a node step that keeps every transaction's Unsent-ness,   *)
(* is a Close of that transaction or leaves the abstract state alone.      *)
LEMMA DeliverRefines ==
    ASSUME TypeOK, OnceInv, NEW t \in Tx, status[t] # "Unsent",
           \A u \in Tx : status'[u] = "Unsent" <=> status[u] = "Unsent",
           NEW r, Deliver(t, r)
    PROVE  Abstract!Close(t) \/ UNCHANGED mapped
  <1>0. MappedTypes
    BY MappedTypesOK
  <1>1. CASE ~subscribed[t]
    BY <1>0, <1>1, MappingStutter DEF Deliver, clientVars
  <1>2. CASE subscribed[t]
    <2>1. proceed_tx_result(t, r)
      BY <1>2 DEF Deliver
    <2>2. unsubCalls[t] = 0 /\ successCalls[t] + failureCalls[t] <= unsubCalls[t]
      BY <1>2, Zenon DEF OnceInv
    <2>3. successCalls[t] = 0 /\ failureCalls[t] = 0
      BY <1>0, <2>2 DEF MappedTypes
    <2>4. CASE UNCHANGED clientVars
      BY <1>0, <2>4, MappingStutter DEF clientVars
    <2>5. CASE /\ Throw(t, "unexpectedResult")
               /\ UNCHANGED <<subscribed, unsubCalls, successCalls,
                              failureCalls, promise>>
      BY <1>0, <2>5, MappingStutter
    <2>6. CASE unsub(t) /\ onSuccess(t)
      <3>0. successCalls' = [successCalls EXCEPT ![t] = @ + 1]
            /\ failureCalls' = failureCalls
        BY <2>6 DEF onSuccess
      <3>1. /\ successCalls'[t] = 1 /\ failureCalls'[t] = 0
            /\ \A u \in Tx \ {t} : /\ successCalls'[u] = successCalls[u]
                                  /\ failureCalls'[u] = failureCalls[u]
        BY <1>0, <2>3, <3>0 DEF MappedTypes
      <3>2. subscribed' = [subscribed EXCEPT ![t] = FALSE]
        BY <2>6 DEF unsub
      <3>3. QED
        BY <1>0, <1>2, <2>3, <3>1, <3>2, MappingClose, Zenon
    <2>7. CASE unsub(t) /\ onFailed(t, "moduleError")
      <3>0. failureCalls' = [failureCalls EXCEPT ![t] = @ + 1]
            /\ successCalls' = successCalls
        BY <2>7 DEF onFailed
      <3>1. /\ successCalls'[t] = 0 /\ failureCalls'[t] = 1
            /\ \A u \in Tx \ {t} : /\ successCalls'[u] = successCalls[u]
                                  /\ failureCalls'[u] = failureCalls[u]
        BY <1>0, <2>3, <3>0 DEF MappedTypes
      <3>2. subscribed' = [subscribed EXCEPT ![t] = FALSE]
        BY <2>7 DEF unsub
      <3>3. QED
        BY <1>0, <1>2, <2>3, <3>1, <3>2, MappingClose, Zenon
    <2>8. CASE /\ unsub(t) /\ Throw(t, "unexpectedError")
               /\ UNCHANGED <<successCalls, failureCalls, promise>>
      <3>1. /\ successCalls'[t] = 0 /\ failureCalls'[t] = 0
            /\ \A u \in Tx \ {t} : /\ successCalls'[u] = successCalls[u]
                                  /\ failureCalls'[u] = failureCalls[u]
        BY <1>0, <2>3, <2>8 DEF MappedTypes
      <3>2. subscribed' = [subscribed EXCEPT ![t] = FALSE]
        BY <2>8 DEF unsub
      <3>3. QED
        BY <1>0, <1>2, <2>3, <3>1, <3>2, MappingClose, Zenon
    <2>9. QED
      BY <2>1, <2>4, <2>5, <2>6, <2>7, <2>8, ProceedBranches
  <1>3. QED
    BY <1>1, <1>2

(* A node step on a sent transaction refines a Close or a stutter.        *)
LEMMA NotifyRefines ==
    ASSUME TypeOK, OnceInv, NEW t \in Tx, status[t] # "Unsent",
           NEW s \in Status \ {"Unsent"}, NEW e, Notify(t, s, e)
    PROVE  [Abstract!CNext]_mapped
  <1>1. \A u \in Tx : status'[u] = "Unsent" <=> status[u] = "Unsent"
    BY DEF Notify, TypeOK
  <1>2. Abstract!Close(t) \/ UNCHANGED mapped
    BY <1>1, DeliverRefines DEF Notify
  <1>3. QED
    BY <1>2 DEF Abstract!CNext

(* signAndSend starts the watch.                                           *)
LEMMA SubmitRefines ==
    ASSUME TypeOK, NEW t \in Tx, NEW m, Submit(t, m)
    PROVE  Abstract!Watch(t)
  <1>1. watchPhase[t] = "idle"
    BY DEF Submit, watchPhase
  <1>0. status \in [Tx -> Status] /\ subscribed \in [Tx -> BOOLEAN]
    BY DEF TypeOK
  <1>2. watchPhase' = [watchPhase EXCEPT ![t] = "watching"]
    <2>1. ASSUME NEW u \in Tx
          PROVE  watchPhase'[u] = [watchPhase EXCEPT ![t] = "watching"][u]
      <3>1. CASE u = t
        BY <1>0, <3>1 DEF Submit, watchPhase
      <3>2. CASE u # t
        BY <1>0, <3>2 DEF Submit, watchPhase
      <3>3. QED
        BY <3>1, <3>2
    <2>2. QED
      BY <2>1, Zenon DEF watchPhase
  <1>3. reportedOutcome' = reportedOutcome
    BY DEF Submit, reportedOutcome
  <1>4. QED
    BY <1>1, <1>2, <1>3 DEF Abstract!Watch

(* Every step of the helpers and the node is a step of the abstract       *)
(* controller or leaves it alone.                                          *)
LEMMA StepRefines == IInv /\ [Next]_vars => [Abstract!CNext]_mapped
  <1> SUFFICES ASSUME TypeOK, OnceInv, [Next]_vars PROVE [Abstract!CNext]_mapped
    BY DEF IInv
  <1>1. ASSUME NEW t \in Tx, NEW m \in {"fire", "promise"}, Submit(t, m)
        PROVE  [Abstract!CNext]_mapped
    BY <1>1, SubmitRefines DEF Abstract!CNext
  <1>2. ASSUME NEW t \in Tx, NodeStep(t) PROVE [Abstract!CNext]_mapped
    <2> USE DEF Status
    <2>1. CASE NodeReady(t)
      BY <2>1, NotifyRefines DEF NodeReady
    <2>2. CASE NodeBroadcast(t)
      BY <2>2, NotifyRefines DEF NodeBroadcast
    <2>3. CASE NodeInBlock(t)
      BY <2>3, NotifyRefines DEF NodeInBlock
    <2>4. CASE NodeRetract(t)
      BY <2>4, NotifyRefines DEF NodeRetract
    <2>5. CASE NodeFinalize(t)
      BY <2>5, NotifyRefines DEF NodeFinalize
    <2>6. CASE NodeFault(t)
      <3>1. PICK f \in PoolFaults :
              /\ IF f = "FinalityTimeout" THEN status[t] = "InBlock"
                 ELSE status[t] \in {"Ready", "Broadcast", "Retracted"}
              /\ Notify(t, f, "none")
        BY <2>6 DEF NodeFault
      <3>2. f \in Status \ {"Unsent"} /\ status[t] # "Unsent"
        BY <3>1, FaultAssumption
      <3>3. QED
        BY <3>1, <3>2, NotifyRefines
    <2>7. QED
      BY <1>2, <2>1, <2>2, <2>3, <2>4, <2>5, <2>6 DEF NodeStep
  <1>3. CASE UNCHANGED vars
    <2>1. UNCHANGED <<status, subscribed, successCalls, failureCalls>>
      BY <1>3 DEF vars, nodeVars, clientVars
    <2>2. QED
      BY <2>1, MappingStutter, MappedTypesOK
  <1>4. QED
    BY <1>1, <1>2, <1>3 DEF Next

(* The helpers of txResult.ts implement the Completion Controller: every  *)
(* behaviour of TxResult, for every instance, maps to a behaviour of       *)
(* Completion in which each submission is watched, then closed once with   *)
(* at most one report that never changes.                                  *)
THEOREM Refinement == Spec => CompletionRefinement
  <1>1. Init => IInv
    BY ReorgAssumption DEF Init, IInv, TypeOK, OnceInv, Status, PromiseState, Exec
  <1>2. Init => Abstract!CInit
    BY DEF Init, Abstract!CInit, watchPhase, reportedOutcome
  <1>3. Spec => []IInv
    BY <1>1, OnceInvariance, PTL DEF Spec
  <1>4. [][Next]_vars /\ []IInv => [][Abstract!CNext]_mapped
    BY StepRefines, PTL
  <1>5. QED
    BY <1>2, <1>3, <1>4, PTL
       DEF Spec, CompletionRefinement, Abstract!CSpec, Abstract!cvars, mapped
=============================================================================
