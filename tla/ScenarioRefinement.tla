------------------------- MODULE ScenarioRefinement -------------------------
(***************************************************************************)
(* Proof that the "transferFrom works" scenario keeps the promise of the   *)
(* Completion Controller (spec 4.3) for each of its six transactions,     *)
(* under the mapping watchPhase / reportedOutcome of TxResult.  In the     *)
(* scenario a transaction may execute against a state its prerequisite    *)
(* has not yet made (a module error the chain alone would not give); the  *)
(* controller's promise does not depend on the result.  The invariant is   *)
(* SInv of ScenarioProofs with OnceInv of TxResultProofs.                  *)
(***************************************************************************)
EXTENDS ScenarioProofs, TxResultRefinement, TLAPS

ScInv == SInv /\ OnceInv

LEMMA ScInvInit == ScenarioInit => ScInv
  <1> SUFFICES ASSUME ScenarioInit PROVE ScInv
    OBVIOUS
  <1>1. SInv
    BY SInvInit
  <1>2. OnceInv
    BY OnceInvEmpty DEF ScenarioInit, Init
  <1>3. QED
    BY <1>1, <1>2 DEF ScInv

(* The test sends the step at pc, a member of Tx, with signAndSend.       *)
LEMMA SendSubmits ==
    ASSUME ScenarioTypeOK, Send
    PROVE  /\ Plan[pc] \in Tx
           /\ Submit(Plan[pc], Mode[Plan[pc]])
  <1>1. pc \in 1..Len(Plan)
    BY DEF Send, ScenarioTypeOK
  <1>2. QED
    BY <1>1, StepsAssumption DEF Send

(* The node steps of the scenario are notifications of a status other     *)
(* than Unsent to a transaction already in the pool.                       *)
LEMMA ScenarioNotifies ==
    ASSUME NEW k \in Tx, Accept(k) \/ Include(k) \/ Finalize(k)
    PROVE  /\ status[k] # "Unsent"
           /\ \E s \in Status \ {"Unsent"} : \E e : Notify(k, s, e)
  <1> USE DEF Status
  <1>1. CASE Accept(k)
    BY <1>1 DEF Accept, NodeReady
  <1>2. CASE Include(k)
    <2>1. PICK e \in ExecutionResults(k) : Notify(k, "InBlock", e)
      BY <1>2 DEF Include
    <2>2. QED
      BY <1>2, <2>1 DEF Include
  <1>3. CASE Finalize(k)
    BY <1>3 DEF Finalize, NodeFinalize
  <1>4. QED
    BY <1>1, <1>2, <1>3

(* The test's verdict touches neither the pool nor the callbacks.          *)
LEMMA ConcludeFrame ==
    ASSUME Conclude \/ UNCHANGED allVars
    PROVE  UNCHANGED <<status, subscribed, unsubCalls, successCalls, failureCalls>>
  BY DEF Conclude, allVars, vars, nodeVars, clientVars

LEMMA ScInvStep == ScInv /\ [ScenarioNext]_allVars => ScInv'
  <1> SUFFICES ASSUME SInv, OnceInv, [ScenarioNext]_allVars PROVE ScInv'
    BY DEF ScInv
  <1>0. TypeOK /\ ScenarioTypeOK
    BY DEF SInv, ScenarioTypeOK
  <1>1. SInv'
    BY SInvStep
  <1>2. CASE Send
    <2>1. Plan[pc] \in Tx /\ Submit(Plan[pc], Mode[Plan[pc]])
      BY <1>0, <1>2, SendSubmits
    <2>2. OnceInv'
      BY <1>0, <2>1 DEF Submit, OnceInv, TypeOK
    <2>3. QED
      BY <1>1, <2>2 DEF ScInv
  <1>3. CASE Conclude \/ UNCHANGED allVars
    <2>1. UNCHANGED <<status, subscribed, unsubCalls, successCalls, failureCalls>>
      BY <1>3, ConcludeFrame
    <2>2. QED
      BY <1>1, <2>1, Zenon DEF ScInv, OnceInv
  <1>4. ASSUME NEW k \in Tx, Accept(k) \/ Include(k) \/ Finalize(k)
        PROVE  ScInv'
    <2>0. PICK s \in Status \ {"Unsent"} : \E e : Notify(k, s, e)
      BY <1>4, ScenarioNotifies
    <2>1. PICK e : Notify(k, s, e)
      BY <2>0
    <2>2. status[k] # "Unsent"
      BY <1>4, ScenarioNotifies
    <2>3. QED
      BY <1>0, <1>1, <2>1, <2>2, NotifyOnce DEF ScInv
  <1>5. QED
    BY <1>2, <1>3, <1>4 DEF ScenarioNext

(* Every step of the scenario is a step of the abstract controller or     *)
(* leaves it alone.                                                        *)
LEMMA ScenarioStepRefines ==
    ScInv /\ [ScenarioNext]_allVars => [Abstract!CNext]_mapped
  <1> SUFFICES ASSUME SInv, OnceInv, [ScenarioNext]_allVars
               PROVE  [Abstract!CNext]_mapped
    BY DEF ScInv
  <1>0. TypeOK /\ ScenarioTypeOK
    BY DEF SInv, ScenarioTypeOK
  <1>1. CASE Send
    <2>1. Plan[pc] \in Tx /\ Submit(Plan[pc], Mode[Plan[pc]])
      BY <1>0, <1>1, SendSubmits
    <2>2. QED
      BY <1>0, <2>1, SubmitRefines DEF Abstract!CNext
  <1>2. CASE Conclude \/ UNCHANGED allVars
    <2>1. UNCHANGED <<status, subscribed, successCalls, failureCalls>>
      BY <1>2, ConcludeFrame
    <2>2. QED
      BY <1>0, <2>1, MappingStutter, MappedTypesOK
  <1>3. ASSUME NEW k \in Tx, Accept(k) \/ Include(k) \/ Finalize(k)
        PROVE  [Abstract!CNext]_mapped
    <2>0. PICK s \in Status \ {"Unsent"} : \E e : Notify(k, s, e)
      BY <1>3, ScenarioNotifies
    <2>1. PICK e : Notify(k, s, e)
      BY <2>0
    <2>2. status[k] # "Unsent"
      BY <1>3, ScenarioNotifies
    <2>3. QED
      BY <1>0, <2>1, <2>2, NotifyRefines
  <1>4. QED
    BY <1>1, <1>2, <1>3 DEF ScenarioNext

-----------------------------------------------------------------------------
(* In the "transferFrom works" test, with each transaction executing       *)
(* against whatever state the interleaving of signers has made, every one  *)
(* of the six submissions is watched, then closed once with at most one    *)
(* report that never changes: the Completion Controller's promise holds   *)
(* inside the test as it does for the helpers alone.                       *)
THEOREM ScenarioRefinementHolds == ScenarioSpec => CompletionRefinement
  <1>1. ScenarioInit => Abstract!CInit
    BY DEF ScenarioInit, Init, Abstract!CInit, watchPhase, reportedOutcome
  <1>2. ScenarioSpec => []ScInv
    BY ScInvInit, ScInvStep, PTL DEF ScenarioSpec
  <1>3. [][ScenarioNext]_allVars /\ []ScInv => [][Abstract!CNext]_mapped
    BY ScenarioStepRefines, PTL
  <1>4. QED
    BY <1>1, <1>2, <1>3, PTL
       DEF ScenarioSpec, CompletionRefinement, Abstract!CSpec, Abstract!cvars, mapped
=============================================================================
