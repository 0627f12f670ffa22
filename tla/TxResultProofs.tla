--------------------------- MODULE TxResultProofs ---------------------------
(***************************************************************************)
(* Proofs about TxResult for every set of transactions, every set of       *)
(* execution outcomes and pool faults, and every bound on retractions.     *)
(***************************************************************************)
EXTENDS TxResult, TLAPS

(* The strengthening of AtMostOnce that is inductive: a transaction not   *)
(* yet sent has no subscription and no calls; while subscribed, unsub()   *)
(* and the continuations have not run; unsub() runs at most once and every *)
(* call of onSuccess or onFailed follows a call of unsub().               *)
OnceInv ==
    \A t \in Tx :
        /\ status[t] = "Unsent" => ~subscribed[t] /\ unsubCalls[t] = 0
        /\ subscribed[t] => unsubCalls[t] = 0
        /\ unsubCalls[t] <= 1
        /\ successCalls[t] + failureCalls[t] <= unsubCalls[t]

IInv == TypeOK /\ OnceInv

-----------------------------------------------------------------------------
(* A notification the node sends is a record with a status, a set of      *)
(* event methods and a dispatch error kind.                                *)
LEMMA NotificationFields ==
    ASSUME NEW s, NEW e
    PROVE  /\ Notification(s, e).status = s
           /\ Notification(s, e).dispatchError \in {"none", "module", "other"}
  BY DEF Notification

(* get_tx_status yields one of its four values.                            *)
LEMMA TxStatusCases ==
    ASSUME NEW r
    PROVE  get_tx_status(r) \in {"Pending", "Unexpected", "Success", "Failed"}
  BY DEF get_tx_status

(* Appending one of the helpers' errors keeps thrown typed.               *)
LEMMA ThrowTypeOK ==
    ASSUME thrown \in [Tx -> Seq(Errors)], NEW t \in Tx, NEW err \in Errors,
           Throw(t, err)
    PROVE  thrown' \in [Tx -> Seq(Errors)]
  BY DEF Throw

(* Settling keeps the outer promise in its states.                        *)
LEMMA SettleTypeOK ==
    ASSUME promise \in [Tx -> PromiseState], NEW t \in Tx,
           NEW o \in {"resolved", "rejected"}, Settle(t, o)
    PROVE  promise' \in [Tx -> PromiseState]
  BY DEF Settle, PromiseState

(* The four branches of proceed_tx_result, one per TxStatus.              *)
LEMMA ProceedBranches ==
    ASSUME NEW t, NEW r, proceed_tx_result(t, r)
    PROVE  \/ UNCHANGED clientVars
           \/ /\ Throw(t, "unexpectedResult")
              /\ UNCHANGED <<subscribed, unsubCalls, successCalls,
                             failureCalls, promise>>
           \/ unsub(t) /\ onSuccess(t)
           \/ unsub(t) /\ onFailed(t, "moduleError")
           \/ /\ unsub(t) /\ Throw(t, "unexpectedError")
              /\ UNCHANGED <<successCalls, failureCalls, promise>>
  <1> DEFINE st == get_tx_status(r)
  <1>1. CASE st = "Pending"
    BY <1>1 DEF proceed_tx_result
  <1>2. CASE st = "Unexpected"
    BY <1>2 DEF proceed_tx_result
  <1>3. CASE st = "Success"
    BY <1>3 DEF proceed_tx_result
  <1>4. CASE st = "Failed"
    BY <1>4 DEF proceed_tx_result
  <1>5. QED
    BY <1>1, <1>2, <1>3, <1>4, TxStatusCases

(* One run of the status callback keeps the client's variables typed.     *)
LEMMA DeliverTypeOK ==
    ASSUME TypeOK, NEW t \in Tx, NEW r, Deliver(t, r)
    PROVE  /\ subscribed' \in [Tx -> BOOLEAN]
           /\ unsubCalls' \in [Tx -> Nat]
           /\ successCalls' \in [Tx -> Nat]
           /\ failureCalls' \in [Tx -> Nat]
           /\ promise' \in [Tx -> PromiseState]
           /\ thrown' \in [Tx -> Seq(Errors)]
  <1>1. CASE ~subscribed[t]
    BY <1>1 DEF Deliver, clientVars, TypeOK
  <1>2. CASE subscribed[t]
    <2>1. proceed_tx_result(t, r)
      BY <1>2 DEF Deliver
    <2> USE DEF TypeOK
    <2>2. CASE UNCHANGED clientVars
      BY <2>2 DEF clientVars
    <2>3. CASE /\ Throw(t, "unexpectedResult")
               /\ UNCHANGED <<subscribed, unsubCalls, successCalls,
                              failureCalls, promise>>
      BY <2>3, ThrowTypeOK DEF Errors
    <2>4. CASE unsub(t) /\ onSuccess(t)
      <3>1. promise' \in [Tx -> PromiseState]
        BY <2>4, SettleTypeOK DEF onSuccess
      <3>2. successCalls' = [successCalls EXCEPT ![t] = @ + 1]
            /\ failureCalls' = failureCalls /\ thrown' = thrown
        BY <2>4 DEF onSuccess
      <3>3. QED
        BY <2>4, <3>1, <3>2 DEF unsub
    <2>5. CASE unsub(t) /\ onFailed(t, "moduleError")
      <3>1. promise' \in [Tx -> PromiseState] /\ thrown' \in [Tx -> Seq(Errors)]
        BY <2>5, SettleTypeOK, ThrowTypeOK DEF onFailed, Errors
      <3>2. failureCalls' = [failureCalls EXCEPT ![t] = @ + 1]
            /\ successCalls' = successCalls
        BY <2>5 DEF onFailed
      <3>3. QED
        BY <2>5, <3>1, <3>2 DEF unsub
    <2>6. CASE /\ unsub(t) /\ Throw(t, "unexpectedError")
               /\ UNCHANGED <<successCalls, failureCalls, promise>>
      BY <2>6, ThrowTypeOK DEF unsub, Errors
    <2>7. QED
      BY <2>1, <2>2, <2>3, <2>4, <2>5, <2>6, ProceedBranches
  <1>3. QED
    BY <1>1, <1>2

(* A node step moves t to a status s and a result e and runs the callback. *)
LEMMA NotifyTypeOK ==
    ASSUME TypeOK, NEW t \in Tx, NEW s \in Status, NEW e \in Exec \cup {"none"},
           Notify(t, s, e)
    PROVE  /\ status' \in [Tx -> Status]
           /\ exec' \in [Tx -> Exec \cup {"none"}]
           /\ mode' = mode
           /\ subscribed' \in [Tx -> BOOLEAN]
           /\ unsubCalls' \in [Tx -> Nat]
           /\ successCalls' \in [Tx -> Nat]
           /\ failureCalls' \in [Tx -> Nat]
           /\ promise' \in [Tx -> PromiseState]
           /\ thrown' \in [Tx -> Seq(Errors)]
  BY DeliverTypeOK DEF Notify, TypeOK

-----------------------------------------------------------------------------
(* Every step of the specification keeps TypeOK.                          *)
LEMMA TypeInvariance == TypeOK /\ [Next]_vars => TypeOK'
  <1> SUFFICES ASSUME TypeOK, [Next]_vars PROVE TypeOK'
    OBVIOUS
  <1>1. ASSUME NEW t \in Tx, NEW m \in {"fire", "promise"}, Submit(t, m)
        PROVE  TypeOK'
    BY <1>1 DEF Submit, TypeOK, Status, PromiseState
  <1>2. ASSUME NEW t \in Tx, NodeStep(t) PROVE TypeOK'
    <2> USE DEF TypeOK, Status
    <2>1. CASE NodeReady(t)
      BY <2>1, NotifyTypeOK DEF NodeReady
    <2>2. CASE NodeBroadcast(t)
      BY <2>2, NotifyTypeOK DEF NodeBroadcast
    <2>3. CASE NodeInBlock(t)
      BY <2>3, NotifyTypeOK, ExecAssumption DEF NodeInBlock
    <2>4. CASE NodeRetract(t)
      <3>1. reorgs' \in [Tx -> 0..MaxReorgs]
        BY <2>4, ReorgAssumption DEF NodeRetract
      <3>2. QED
        BY <2>4, <3>1, NotifyTypeOK DEF NodeRetract
    <2>5. CASE NodeFinalize(t)
      <3>1. exec[t] \in Exec \cup {"none"}
        OBVIOUS
      <3>2. QED
        BY <2>5, <3>1, NotifyTypeOK DEF NodeFinalize
    <2>6. CASE NodeFault(t)
      <3>1. PICK f \in PoolFaults :
              /\ Notify(t, f, "none")
              /\ UNCHANGED reorgs
        BY <2>6 DEF NodeFault
      <3>2. f \in Status
        BY FaultAssumption
      <3>3. QED
        BY <3>1, <3>2, NotifyTypeOK
    <2>7. QED
      BY <1>2, <2>1, <2>2, <2>3, <2>4, <2>5, <2>6 DEF NodeStep
  <1>3. CASE UNCHANGED vars
    BY <1>3 DEF vars, nodeVars, clientVars, TypeOK
  <1>4. QED
    BY <1>1, <1>2, <1>3 DEF Next

(* Type correctness of the controller and of the node's status stream.     *)
THEOREM TypeCorrect == Spec => []TypeOK
  <1>1. Init => TypeOK
    BY ReorgAssumption DEF Init, TypeOK, Status, PromiseState, Exec
  <1>2. QED
    BY <1>1, TypeInvariance, PTL DEF Spec

-----------------------------------------------------------------------------
(* One run of the status callback on a subscribed transaction t calls     *)
(* unsub() before either continuation, and on any other transaction it     *)
(* changes nothing.                                                        *)
LEMMA DeliverOnce ==
    ASSUME TypeOK, OnceInv, NEW t \in Tx, NEW r, Deliver(t, r)
    PROVE  \A u \in Tx :
               /\ subscribed'[u] => unsubCalls'[u] = 0
               /\ unsubCalls'[u] <= 1
               /\ successCalls'[u] + failureCalls'[u] <= unsubCalls'[u]
               /\ ~subscribed[u] => /\ subscribed'[u] = subscribed[u]
                                    /\ unsubCalls'[u] = unsubCalls[u]
  <1> SUFFICES ASSUME NEW u \in Tx
               PROVE  /\ subscribed'[u] => unsubCalls'[u] = 0
                      /\ unsubCalls'[u] <= 1
                      /\ successCalls'[u] + failureCalls'[u] <= unsubCalls'[u]
                      /\ ~subscribed[u] => /\ subscribed'[u] = subscribed[u]
                                           /\ unsubCalls'[u] = unsubCalls[u]
    OBVIOUS
  <1>0. /\ subscribed \in [Tx -> BOOLEAN]
        /\ unsubCalls \in [Tx -> Nat]
        /\ successCalls \in [Tx -> Nat]
        /\ failureCalls \in [Tx -> Nat]
    BY DEF TypeOK
  <1>1. OnceInv!(u)
    BY DEF OnceInv
  <1>2. CASE ~subscribed[t]
    BY <1>0, <1>1, <1>2 DEF Deliver, clientVars
  <1>3. CASE subscribed[t]
    <2>1. proceed_tx_result(t, r)
      BY <1>3 DEF Deliver
    <2>2. unsubCalls[t] = 0 /\ successCalls[t] + failureCalls[t] = 0
      <3>1. unsubCalls[t] = 0 /\ successCalls[t] + failureCalls[t] <= unsubCalls[t]
        BY <1>3, Zenon DEF OnceInv
      <3>2. QED
        BY <1>0, <3>1
    <2>3. CASE UNCHANGED clientVars
      BY <1>1, <2>3 DEF clientVars
    <2>4. CASE /\ Throw(t, "unexpectedResult")
               /\ UNCHANGED <<subscribed, unsubCalls, successCalls,
                              failureCalls, promise>>
      BY <1>1, <2>4
    <2>5. CASE unsub(t) /\ onSuccess(t)
      <3>1. successCalls' = [successCalls EXCEPT ![t] = @ + 1]
            /\ failureCalls' = failureCalls
        BY <2>5 DEF onSuccess
      <3>2. CASE u = t
        BY <1>0, <2>2, <2>5, <3>1, <3>2, <1>3 DEF unsub
      <3>3. CASE u # t
        BY <1>0, <1>1, <2>5, <3>1, <3>3 DEF unsub
      <3>4. QED
        BY <3>2, <3>3
    <2>6. CASE unsub(t) /\ onFailed(t, "moduleError")
      <3>1. failureCalls' = [failureCalls EXCEPT ![t] = @ + 1]
            /\ successCalls' = successCalls
        BY <2>6 DEF onFailed
      <3>2. CASE u = t
        BY <1>0, <2>2, <2>6, <3>1, <3>2, <1>3 DEF unsub
      <3>3. CASE u # t
        BY <1>0, <1>1, <2>6, <3>1, <3>3 DEF unsub
      <3>4. QED
        BY <3>2, <3>3
    <2>7. CASE /\ unsub(t) /\ Throw(t, "unexpectedError")
               /\ UNCHANGED <<successCalls, failureCalls, promise>>
      <3>2. CASE u = t
        BY <1>0, <2>2, <2>7, <3>2, <1>3 DEF unsub
      <3>3. CASE u # t
        BY <1>0, <1>1, <2>7, <3>3 DEF unsub
      <3>4. QED
        BY <3>2, <3>3
    <2>8. QED
      BY <2>1, <2>3, <2>4, <2>5, <2>6, <2>7, ProceedBranches
  <1>4. QED
    BY <1>2, <1>3

(* A node step leaves a transaction Unsent only if it was, and then runs  *)
(* the callback.                                                           *)
LEMMA NotifyOnce ==
    ASSUME TypeOK, OnceInv, NEW t \in Tx, status[t] # "Unsent",
           NEW s \in Status \ {"Unsent"}, NEW e, Notify(t, s, e)
    PROVE  OnceInv'
  <1> SUFFICES ASSUME NEW u \in Tx PROVE OnceInv!(u)'
    BY DEF OnceInv
  <1>1. status'[u] = "Unsent" => status[u] = "Unsent"
    BY DEF Notify, TypeOK
  <1>2. Deliver(t, Notification(s, e))
    BY DEF Notify
  <1>3. QED
    BY <1>1, <1>2, DeliverOnce DEF OnceInv

(* The strengthening holds initially and is kept by every step.           *)
LEMMA OnceInvariance == IInv /\ [Next]_vars => IInv'
  <1> SUFFICES ASSUME TypeOK, OnceInv, [Next]_vars PROVE IInv'
    BY DEF IInv
  <1>1. TypeOK'
    BY TypeInvariance
  <1>2. ASSUME NEW t \in Tx, NEW m \in {"fire", "promise"}, Submit(t, m)
        PROVE  OnceInv'
    BY <1>2 DEF Submit, OnceInv, TypeOK
  <1>3. ASSUME NEW t \in Tx, NodeStep(t) PROVE OnceInv'
    <2> USE DEF Status
    <2>1. CASE NodeReady(t)
      BY <2>1, NotifyOnce DEF NodeReady
    <2>2. CASE NodeBroadcast(t)
      BY <2>2, NotifyOnce DEF NodeBroadcast
    <2>3. CASE NodeInBlock(t)
      BY <2>3, NotifyOnce DEF NodeInBlock
    <2>4. CASE NodeRetract(t)
      BY <2>4, NotifyOnce DEF NodeRetract
    <2>5. CASE NodeFinalize(t)
      BY <2>5, NotifyOnce DEF NodeFinalize
    <2>6. CASE NodeFault(t)
      <3>1. PICK f \in PoolFaults :
              /\ IF f = "FinalityTimeout" THEN status[t] = "InBlock"
                 ELSE status[t] \in {"Ready", "Broadcast", "Retracted"}
              /\ Notify(t, f, "none")
        BY <2>6 DEF NodeFault
      <3>2. f \in Status \ {"Unsent"} /\ status[t] # "Unsent"
        BY <3>1, FaultAssumption
      <3>3. QED
        BY <3>1, <3>2, NotifyOnce
    <2>7. QED
      BY <1>3, <2>1, <2>2, <2>3, <2>4, <2>5, <2>6 DEF NodeStep
  <1>4. ASSUME UNCHANGED vars PROVE OnceInv'
    <2>1. UNCHANGED <<status, subscribed, unsubCalls, successCalls, failureCalls>>
      BY <1>4 DEF vars, nodeVars, clientVars
    <2>2. QED
      BY <2>1, Zenon DEF OnceInv
  <1>5. QED
    BY <1>1, <1>2, <1>3, <1>4 DEF Next, IInv

(* Idempotent terminal handling: in every behaviour, for every set of     *)
(* transactions, outcomes, pool faults and retraction bound, unsub() runs  *)
(* at most once per transaction and at most one continuation runs, once.   *)
THEOREM AtMostOnceHolds == Spec => []AtMostOnce
  <1>1. Init => IInv
    BY ReorgAssumption DEF Init, IInv, TypeOK, OnceInv, Status, PromiseState, Exec
  <1>2. IInv => AtMostOnce
    <2> SUFFICES ASSUME IInv, NEW t \in Tx
                 PROVE  /\ unsubCalls[t] <= 1
                        /\ successCalls[t] + failureCalls[t] <= 1
      BY DEF AtMostOnce
    <2>1. unsubCalls[t] \in Nat /\ successCalls[t] \in Nat /\ failureCalls[t] \in Nat
      BY DEF IInv, TypeOK
    <2>2. QED
      BY <2>1 DEF IInv, OnceInv
  <1>3. QED
    BY <1>1, <1>2, OnceInvariance, PTL DEF Spec
=============================================================================
