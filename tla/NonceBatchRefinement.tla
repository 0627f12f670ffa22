------------------------ MODULE NonceBatchRefinement ------------------------
(***************************************************************************)
(* Proof that the nonce-sequenced batch helpers of accounts.ts keep the    *)
(* promise of the Completion Controller (spec 4.3) for every transaction   *)
(* of the batch, under the mapping watchPhase / reportedOutcome of         *)
(* TxResult.  The batch differs from the controller alone in how a        *)
(* transaction starts: it is signed with a nonce it was given and reaches *)
(* the pool as Ready or Future (Import), and only the transaction with the *)
(* chain nonce is included.  The invariant is NInv of NonceBatchProofs    *)
(* with OnceInv of TxResultProofs.                                         *)
(***************************************************************************)
EXTENDS NonceBatchProofs, TxResultRefinement, TLAPS

RInv == NInv /\ OnceInv

LEMMA RInvInit == BatchInit => RInv
  <1> SUFFICES ASSUME BatchInit PROVE RInv
    OBVIOUS
  <1>1. NInv
    BY NInvInit
  <1>2. OnceInv
    BY OnceInvEmpty DEF BatchInit, Init
  <1>3. QED
    BY <1>1, <1>2 DEF RInv

(* The first status of a transaction of the batch subscribes it and runs  *)
(* no callback, so the subscription it opens has had no unsub().           *)
LEMMA ImportOnce ==
    ASSUME TypeOK, OnceInv, NEW i \in Tx, Import(i)
    PROVE  OnceInv'
  BY DEF Import, OnceInv, TypeOK

(* The first status of a transaction of the batch starts its watch.        *)
LEMMA ImportRefines ==
    ASSUME TypeOK, NEW i \in Tx, Import(i)
    PROVE  Abstract!Watch(i)
  <1>0. status \in [Tx -> Status] /\ subscribed \in [Tx -> BOOLEAN]
    BY DEF TypeOK
  <1>1. watchPhase[i] = "idle"
    BY DEF Import, watchPhase
  <1>2. watchPhase' = [watchPhase EXCEPT ![i] = "watching"]
    <2>1. ASSUME NEW u \in Tx
          PROVE  watchPhase'[u] = [watchPhase EXCEPT ![i] = "watching"][u]
      <3>1. CASE u = i
        BY <1>0, <3>1 DEF Import, watchPhase
      <3>2. CASE u # i
        BY <1>0, <3>2 DEF Import, watchPhase
      <3>3. QED
        BY <3>1, <3>2
    <2>2. QED
      BY <2>1, Zenon DEF watchPhase
  <1>3. reportedOutcome' = reportedOutcome
    BY DEF Import, reportedOutcome
  <1>4. QED
    BY <1>1, <1>2, <1>3 DEF Abstract!Watch

(* The node steps of the batch on a transaction are notifications of a    *)
(* status other than Unsent to a transaction already in the pool.          *)
LEMMA BatchNotifies ==
    ASSUME NEW i \in Tx, NodeBatchStep(i), ~Import(i)
    PROVE  /\ status[i] # "Unsent"
           /\ \E s \in Status \ {"Unsent"} : \E e : Notify(i, s, e)
  <1> USE DEF Status
  <1>1. CASE Promote(i)
    BY <1>1 DEF Promote
  <1>2. CASE Broadcast(i)
    BY <1>2 DEF Broadcast, NodeBroadcast
  <1>3. CASE Include(i)
    <2>1. PICK e \in ExecOutcomes : Notify(i, "InBlock", e)
      BY <1>3 DEF Include
    <2>2. QED
      BY <1>3, <2>1 DEF Include, ReadyPool
  <1>4. CASE Finalize(i)
    BY <1>4 DEF Finalize, NodeFinalize
  <1>5. QED
    BY <1>1, <1>2, <1>3, <1>4 DEF NodeBatchStep

(* Dispatch and Return touch neither the pool nor the callbacks.           *)
LEMMA HelperFrame ==
    ASSUME Dispatch \/ Return \/ UNCHANGED allVars
    PROVE  UNCHANGED <<status, subscribed, unsubCalls, successCalls, failureCalls>>
  BY DEF Dispatch, Return, allVars, vars, nodeVars, clientVars

LEMMA RInvStep == RInv /\ [BatchNext]_allVars => RInv'
  <1> SUFFICES ASSUME NInv, OnceInv, [BatchNext]_allVars PROVE RInv'
    BY DEF RInv
  <1>0. TypeOK
    BY DEF NInv, BatchTypeOK
  <1>1. NInv'
    BY NInvStep
  <1>2. CASE Dispatch \/ Return \/ UNCHANGED allVars
    <2>1. UNCHANGED <<status, subscribed, unsubCalls, successCalls, failureCalls>>
      BY <1>2, HelperFrame
    <2>2. QED
      BY <1>1, <2>1, Zenon DEF RInv, OnceInv
  <1>3. ASSUME NEW i \in Tx, NodeBatchStep(i) PROVE RInv'
    <2>1. CASE Import(i)
      BY <1>0, <1>1, <2>1, ImportOnce DEF RInv
    <2>2. CASE ~Import(i)
      <3>0. PICK s \in Status \ {"Unsent"} : \E e : Notify(i, s, e)
        BY <1>3, <2>2, BatchNotifies
      <3>1. PICK e : Notify(i, s, e)
        BY <3>0
      <3>2. status[i] # "Unsent"
        BY <1>3, <2>2, BatchNotifies
      <3>3. QED
        BY <1>0, <1>1, <3>1, <3>2, NotifyOnce DEF RInv
    <2>3. QED
      BY <2>1, <2>2
  <1>4. QED
    BY <1>2, <1>3 DEF BatchNext

(* Every step of the batch is a step of the abstract controller or leaves *)
(* it alone.                                                               *)
LEMMA BatchStepRefines == RInv /\ [BatchNext]_allVars => [Abstract!CNext]_mapped
  <1> SUFFICES ASSUME NInv, OnceInv, [BatchNext]_allVars
               PROVE  [Abstract!CNext]_mapped
    BY DEF RInv
  <1>0. TypeOK
    BY DEF NInv, BatchTypeOK
  <1>1. CASE Dispatch \/ Return \/ UNCHANGED allVars
    <2>1. UNCHANGED <<status, subscribed, successCalls, failureCalls>>
      BY <1>1, HelperFrame
    <2>2. QED
      BY <1>0, <2>1, MappingStutter, MappedTypesOK
  <1>2. ASSUME NEW i \in Tx, NodeBatchStep(i) PROVE [Abstract!CNext]_mapped
    <2>1. CASE Import(i)
      BY <1>0, <2>1, ImportRefines DEF Abstract!CNext
    <2>2. CASE ~Import(i)
      <3>0. PICK s \in Status \ {"Unsent"} : \E e : Notify(i, s, e)
        BY <1>2, <2>2, BatchNotifies
      <3>1. PICK e : Notify(i, s, e)
        BY <3>0
      <3>2. status[i] # "Unsent"
        BY <1>2, <2>2, BatchNotifies
      <3>3. QED
        BY <1>0, <3>1, <3>2, NotifyRefines
    <2>3. QED
      BY <2>1, <2>2
  <1>3. QED
    BY <1>1, <1>2 DEF BatchNext

-----------------------------------------------------------------------------
(* The batch helpers deriveNewAccounts and setWhitelistAdmins keep the     *)
(* Completion Controller's promise for every transaction they send, for   *)
(* every batch, start nonce and node parameters: each transaction is      *)
(* watched from its first pool status, then closed once with at most one  *)
(* report that never changes, whatever order the pool imports them in.    *)
THEOREM BatchRefinement == BatchSpec => CompletionRefinement
  <1>1. BatchInit => Abstract!CInit
    BY DEF BatchInit, Init, Abstract!CInit, watchPhase, reportedOutcome
  <1>2. BatchSpec => []RInv
    BY RInvInit, RInvStep, PTL DEF BatchSpec
  <1>3. [][BatchNext]_allVars /\ []RInv => [][Abstract!CNext]_mapped
    BY BatchStepRefines, PTL
  <1>4. QED
    BY <1>1, <1>2, <1>3, PTL
       DEF BatchSpec, CompletionRefinement, Abstract!CSpec, Abstract!cvars, mapped
=============================================================================
