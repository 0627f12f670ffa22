-------------------------- MODULE NonceBatchProofs --------------------------
(***************************************************************************)
(* Proofs about the nonce-sequenced batch helpers, for every batch of      *)
(* balances, start nonce, helper and node parameters the ASSUMEs allow.    *)
(***************************************************************************)
EXTENDS NonceBatch, TxResultProofs, FiniteSetTheorems, TLAPS

(* The entries the map sends.                                              *)
Sent == {i \in Tx : ~Skipped(i)}

(* The nonces signed into the entries sent, for a read index b.            *)
Signed(b) == {NonceAfter(b)[i - 1] : i \in Sent}

(* The transactions are the entries 1..Len(Balances).                      *)
LEMMA TxFacts ==
    /\ Tx = 1..Len(Balances)
    /\ Len(Balances) \in Nat
    /\ IsFiniteSet(Tx) /\ Cardinality(Tx) = Len(Balances)
    /\ Sent \subseteq Tx /\ IsFiniteSet(Sent)
    /\ Cardinality(Sent) \in 0..Len(Balances)
  <1>1. Tx = 1..Len(Balances) /\ Len(Balances) \in Nat
    BY BalancesAssumption
  <1>2. IsFiniteSet(Tx) /\ Cardinality(Tx) = Len(Balances)
    <2>1. /\ IsFiniteSet(1..Len(Balances))
          /\ Cardinality(1..Len(Balances)) =
                 IF 1 > Len(Balances) THEN 0 ELSE Len(Balances) - 1 + 1
      BY <1>1, FS_Interval
    <2>2. QED
      BY <1>1, <2>1
  <1>3. Sent \subseteq Tx
    BY DEF Sent
  <1>4. IsFiniteSet(Sent) /\ Cardinality(Sent) <= Len(Balances)
    BY <1>2, <1>3, FS_Subset
  <1>5. Cardinality(Sent) \in Nat
    BY <1>4, FS_CardinalityType
  <1>6. QED
    BY <1>1, <1>2, <1>3, <1>4, <1>5

(* The entries sent among the first i are finitely many, all sent.         *)
LEMMA SentUpToFacts ==
    ASSUME NEW i \in 0..Len(Balances)
    PROVE  /\ SentUpTo(i) \subseteq Sent
           /\ IsFiniteSet(SentUpTo(i))
           /\ Cardinality(SentUpTo(i)) \in Nat
  <1>1. SentUpTo(i) \subseteq Sent
    BY TxFacts DEF SentUpTo, Sent
  <1>2. IsFiniteSet(SentUpTo(i))
    BY <1>1, TxFacts, FS_Subset
  <1>3. QED
    BY <1>1, <1>2, FS_CardinalityType

(* nonce++ yields a natural number.                                        *)
LEMMA NonceAfterType ==
    ASSUME NEW b \in Nat, NEW i \in 0..Len(Balances)
    PROVE  NonceAfter(b)[i] \in Nat
  BY SentUpToFacts DEF NonceAfter

(* A later entry is signed with a larger nonce.                            *)
LEMMA NonceAfterIncreasing ==
    ASSUME NEW b \in Nat, NEW i \in Sent, NEW j \in Sent, i < j
    PROVE  NonceAfter(b)[i - 1] < NonceAfter(b)[j - 1]
  <1>1. i - 1 \in 0..Len(Balances) /\ j - 1 \in 0..Len(Balances)
    BY TxFacts DEF Sent
  <1>2. SentUpTo(i - 1) \subseteq SentUpTo(j - 1)
    BY TxFacts DEF SentUpTo, Sent
  <1>3. i \in SentUpTo(j - 1) /\ i \notin SentUpTo(i - 1)
    BY TxFacts DEF SentUpTo, Sent
  <1>4. Cardinality(SentUpTo(i - 1)) < Cardinality(SentUpTo(j - 1))
    <2>1. /\ Cardinality(SentUpTo(i - 1)) <= Cardinality(SentUpTo(j - 1))
          /\ Cardinality(SentUpTo(j - 1)) = Cardinality(SentUpTo(i - 1)) =>
                 SentUpTo(j - 1) = SentUpTo(i - 1)
      BY <1>1, <1>2, SentUpToFacts, FS_Subset
    <2>2. QED
      BY <1>1, <1>3, <2>1, SentUpToFacts
  <1>5. QED
    BY <1>1, <1>4, SentUpToFacts DEF NonceAfter

(* Each sent entry is signed with a nonce in base..base+|Sent|-1: fewer    *)
(* entries than all the others sent come before it.                        *)
LEMMA NonceAfterRange ==
    ASSUME NEW b \in Nat, NEW i \in Sent
    PROVE  NonceAfter(b)[i - 1] \in b..(b + Cardinality(Sent) - 1)
  <1>1. i - 1 \in 0..Len(Balances)
    BY TxFacts DEF Sent
  <1>2. SentUpTo(i - 1) \subseteq Sent \ {i}
    BY TxFacts DEF SentUpTo, Sent
  <1>3. IsFiniteSet(Sent \ {i}) /\ Cardinality(Sent \ {i}) = Cardinality(Sent) - 1
    BY TxFacts, FS_RemoveElement
  <1>4. Cardinality(SentUpTo(i - 1)) <= Cardinality(Sent) - 1
    BY <1>2, <1>3, FS_Subset
  <1>5. QED
    BY <1>1, <1>4, SentUpToFacts, TxFacts DEF NonceAfter

(* The nonces signed are exactly base..base+|Sent|-1: the signing map is   *)
(* injective into that interval, which has as many elements as Sent.       *)
LEMMA SignedInterval ==
    ASSUME NEW b \in Nat
    PROVE  Signed(b) = b..(b + Cardinality(Sent) - 1)
  <1> DEFINE I == b..(b + Cardinality(Sent) - 1)
             g == [i \in Sent |-> NonceAfter(b)[i - 1]]
  <1> USE DEF I, g
  <1>1. g \in [Sent -> I]
    BY NonceAfterRange
  <1>2. g \in Injection(Sent, I)
    <2>1. \A i, j \in Sent : i # j => g[i] # g[j]
      <3> SUFFICES ASSUME NEW i \in Sent, NEW j \in Sent, i # j
                   PROVE  g[i] # g[j]
        OBVIOUS
      <3>1. /\ i < j \/ j < i
            /\ NonceAfter(b)[i - 1] \in Nat /\ NonceAfter(b)[j - 1] \in Nat
        <4>1. i - 1 \in 0..Len(Balances) /\ j - 1 \in 0..Len(Balances)
          BY TxFacts DEF Sent
        <4>2. QED
          BY <4>1, TxFacts, NonceAfterType
      <3>2. CASE i < j
        BY <3>1, <3>2, NonceAfterIncreasing
      <3>3. CASE j < i
        BY <3>1, <3>3, NonceAfterIncreasing
      <3>4. QED
        BY <3>1, <3>2, <3>3
    <2>2. QED
      BY <1>1, <2>1 DEF Injection, IsInjective
  <1>3. IsFiniteSet(I) /\ Cardinality(I) = Cardinality(Sent)
    <2>0. b + Cardinality(Sent) - 1 \in Int
      BY TxFacts
    <2>1. /\ IsFiniteSet(b..(b + Cardinality(Sent) - 1))
          /\ Cardinality(b..(b + Cardinality(Sent) - 1)) =
                 IF b > b + Cardinality(Sent) - 1 THEN 0
                 ELSE (b + Cardinality(Sent) - 1) - b + 1
      BY <2>0, FS_Interval
    <2>2. QED
      BY <2>1, TxFacts
  <1>4. g \in Surjection(Sent, I)
    BY <1>2, <1>3, FS_Injection
  <1>5. QED
    BY <1>1, <1>4 DEF Surjection, Signed

-----------------------------------------------------------------------------
(* system_accountNextIndex answers a natural number between the chain      *)
(* nonce and the chain nonce plus the batch size: the ready transactions    *)
(* of the batch carry at most Len(Balances) nonces, so one of the          *)
(* Len(Balances) + 1 candidates is free, and a least free one exists.      *)
LEMMA NextIndexType ==
    ASSUME chainNonce \in Nat, nonceOf \in [Tx -> Nat], dispatched \subseteq Tx
    PROVE  NextIndex \in chainNonce..(chainNonce + Len(Balances))
  <1> DEFINE Rd    == {j \in dispatched : status[j] \in ReadyPool}
             ready == {nonceOf[i] : i \in Rd}
             C     == chainNonce..(chainNonce + Len(Balances))
             gaps  == {n \in C : n \notin ready}
  <1>1. IsFiniteSet(Rd) /\ Cardinality(Rd) <= Len(Balances)
    BY TxFacts, FS_Subset
  <1>2. IsFiniteSet(ready) /\ Cardinality(ready) <= Cardinality(Rd)
    <2>1. [i \in Rd |-> nonceOf[i]] \in Surjection(Rd, ready)
      BY DEF Surjection
    <2>2. QED
      BY <1>1, <2>1, FS_Surjection
  <1>3. gaps # {}
    <2> SUFFICES ASSUME gaps = {} PROVE FALSE
      OBVIOUS
    <2>1. C \subseteq ready
      OBVIOUS
    <2>2. Cardinality(C) <= Cardinality(ready)
      BY <1>2, <2>1, FS_Subset
    <2>3. Cardinality(C) = Len(Balances) + 1
      <3>1. /\ Cardinality(C) = IF chainNonce > chainNonce + Len(Balances) THEN 0
                                ELSE (chainNonce + Len(Balances)) - chainNonce + 1
        BY TxFacts, FS_Interval
      <3>2. QED
        BY <3>1, TxFacts
    <2>4. QED
      BY <1>1, <1>2, <2>2, <2>3, TxFacts, FS_CardinalityType
  <1>4. \E n \in gaps : \A m \in gaps : n <= m
    <2>0. gaps \subseteq Nat
      BY TxFacts
    <2>a. IsWellFoundedOn(OpToRel(<, Nat), Nat)
      BY NatLessThanWellFounded
    <2>1. PICK n \in gaps : \A m \in gaps : ~(<<m, n>> \in OpToRel(<, Nat))
      BY <1>3, <2>0, <2>a, WFMin, Zenon
    <2>2. ASSUME NEW m \in gaps PROVE n <= m
      <3>1. m \in Nat /\ n \in Nat
        BY <2>0
      <3>2. m < n => <<m, n>> \in OpToRel(<, Nat)
        BY <3>1 DEF OpToRel
      <3>3. ~(<<m, n>> \in OpToRel(<, Nat))
        BY <2>1
      <3>4. ~(m < n)
        BY <3>2, <3>3, Zenon
      <3>5. QED
        BY <3>1, <3>4
    <2>3. QED
      BY <2>2
  <1>5. QED
    BY <1>4 DEF NextIndex

-----------------------------------------------------------------------------
(* What the helper fixed when it dispatched: the entries it sent and the   *)
(* nonce of each, counted from the index it read.                          *)
Dispatched ==
    pc # "idle" =>
        /\ dispatched = Sent
        /\ \A i \in Sent : nonceOf[i] = NonceAfter(base)[i - 1]

(* The inductive invariant.                                                *)
NInv == BatchTypeOK /\ Dispatched

LEMMA NInvInit == BatchInit => NInv
  BY ReorgAssumption, StartNonceAssumption
     DEF BatchInit, Init, NInv, BatchTypeOK, TypeOK, Dispatched, Status,
         PromiseState, Exec

(* Dispatching reads a natural index and signs every sent entry with the   *)
(* nonce the map's nonce++ gives it.                                       *)
LEMMA DispatchPreserves ==
    ASSUME NInv, Dispatch
    PROVE  NInv'
  <1>0. BatchTypeOK
    BY DEF NInv
  <1>1. NextIndex \in Nat
    BY <1>0, NextIndexType, TxFacts DEF BatchTypeOK
  <1>2. /\ base' = NextIndex /\ dispatched' = Sent /\ pc' = "awaiting"
        /\ nonceOf' = [i \in Tx |-> IF i \in Sent THEN NonceAfter(NextIndex)[i - 1]
                                   ELSE 0]
        /\ mode' \in [Tx -> {"none", "fire", "promise"}]
        /\ promise' \in [Tx -> PromiseState]
        /\ UNCHANGED <<nodeVars, chainNonce, subscribed, unsubCalls,
                       successCalls, failureCalls, thrown>>
    BY DEF Dispatch, Sent, PromiseState
  <1>3. nonceOf' \in [Tx -> Nat]
    <2>1. \A i \in Sent : i - 1 \in 0..Len(Balances)
      BY TxFacts DEF Sent
    <2>2. QED
      BY <1>1, <1>2, <2>1, NonceAfterType
  <1>4. BatchTypeOK'
    BY <1>0, <1>1, <1>2, <1>3, TxFacts DEF BatchTypeOK, TypeOK, nodeVars
  <1>5. Dispatched'
    BY <1>2, TxFacts DEF Dispatched
  <1>6. QED
    BY <1>4, <1>5 DEF NInv

(* Returning only moves the helper on; the batch stays as dispatched.      *)
LEMMA ReturnPreserves ==
    ASSUME NInv, Return
    PROVE  NInv'
  <1>1. /\ pc = "awaiting" /\ pc' \in {"returned", "threw"}
        /\ UNCHANGED <<vars, chainNonce, base, dispatched, nonceOf>>
    BY DEF Return
  <1>2. UNCHANGED <<status, exec, reorgs, mode, subscribed, unsubCalls,
                    successCalls, failureCalls, promise, thrown>>
    BY <1>1 DEF vars, nodeVars, clientVars
  <1>3. QED
    BY <1>1, <1>2 DEF NInv, BatchTypeOK, TypeOK, Dispatched

(* The node's steps leave the helper's variables alone, but for the chain *)
(* nonce an inclusion advances.                                            *)
LEMMA NodeBatchStepPreserves ==
    ASSUME NInv, NEW i \in Tx, NodeBatchStep(i)
    PROVE  NInv'
  <1>0. TypeOK /\ BatchTypeOK
    BY DEF NInv, BatchTypeOK
  <1>1. CASE Import(i)
    <2>1. /\ status' \in [Tx -> Status]
          /\ subscribed' \in [Tx -> BOOLEAN]
          /\ UNCHANGED <<exec, reorgs, mode, unsubCalls, successCalls,
                         failureCalls, promise, thrown, batchVars>>
      BY <1>0, <1>1 DEF Import, TypeOK, Status
    <2>2. QED
      BY <1>0, <2>1 DEF NInv, BatchTypeOK, TypeOK, Dispatched, batchVars
  <1>2. CASE Promote(i)
    <2>1. /\ status' \in [Tx -> Status]
          /\ exec' \in [Tx -> Exec \cup {"none"}]
          /\ mode' = mode
          /\ subscribed' \in [Tx -> BOOLEAN]
          /\ unsubCalls' \in [Tx -> Nat]
          /\ successCalls' \in [Tx -> Nat]
          /\ failureCalls' \in [Tx -> Nat]
          /\ promise' \in [Tx -> PromiseState]
          /\ thrown' \in [Tx -> Seq(Errors)]
      <3>1. "Ready" \in Status /\ "none" \in Exec \cup {"none"}
        BY DEF Status
      <3>2. QED
        BY <1>0, <1>2, <3>1, NotifyTypeOK DEF Promote
    <2>2. UNCHANGED <<reorgs, batchVars>>
      BY <1>2 DEF Promote
    <2>3. QED
      BY <1>0, <2>1, <2>2 DEF NInv, BatchTypeOK, TypeOK, Dispatched, batchVars
  <1>3. CASE Broadcast(i) \/ Finalize(i)
    <2>1. TypeOK'
      BY <1>0, <1>3, TypeInvariance DEF Next, NodeStep, Broadcast, Finalize
    <2>2. UNCHANGED batchVars
      BY <1>3 DEF Broadcast, Finalize
    <2>3. QED
      BY <1>0, <2>1, <2>2 DEF NInv, BatchTypeOK, Dispatched, batchVars
  <1>4. CASE Include(i)
    <2>1. PICK e \in ExecOutcomes : Notify(i, "InBlock", e)
      BY <1>4 DEF Include
    <2>2. /\ status' \in [Tx -> Status]
          /\ exec' \in [Tx -> Exec \cup {"none"}]
          /\ mode' = mode
          /\ subscribed' \in [Tx -> BOOLEAN]
          /\ unsubCalls' \in [Tx -> Nat]
          /\ successCalls' \in [Tx -> Nat]
          /\ failureCalls' \in [Tx -> Nat]
          /\ promise' \in [Tx -> PromiseState]
          /\ thrown' \in [Tx -> Seq(Errors)]
      <3>1. "InBlock" \in Status /\ e \in Exec \cup {"none"}
        BY ExecAssumption DEF Status
      <3>2. QED
        BY <1>0, <2>1, <3>1, NotifyTypeOK
    <2>3. /\ chainNonce' = chainNonce + 1
          /\ UNCHANGED <<reorgs, pc, base, dispatched, nonceOf>>
      BY <1>4 DEF Include
    <2>4. QED
      BY <1>0, <2>2, <2>3 DEF NInv, BatchTypeOK, TypeOK, Dispatched
  <1>5. QED
    BY <1>1, <1>2, <1>3, <1>4 DEF NodeBatchStep

LEMMA NInvStep == NInv /\ [BatchNext]_allVars => NInv'
  <1> SUFFICES ASSUME NInv, [BatchNext]_allVars PROVE NInv'
    OBVIOUS
  <1>1. CASE Dispatch
    BY <1>1, DispatchPreserves
  <1>2. CASE Return
    BY <1>2, ReturnPreserves
  <1>3. ASSUME NEW i \in Tx, NodeBatchStep(i) PROVE NInv'
    BY <1>3, NodeBatchStepPreserves
  <1>4. CASE UNCHANGED allVars
    BY <1>4 DEF NInv, BatchTypeOK, TypeOK, Dispatched, allVars, vars,
                nodeVars, clientVars, batchVars
  <1>5. QED
    BY <1>1, <1>2, <1>3, <1>4 DEF BatchNext

-----------------------------------------------------------------------------
(* The batch state is well typed in every behaviour: in particular the     *)
(* index system_accountNextIndex answers is always a natural number.       *)
THEOREM BatchTypeCorrect == BatchSpec => []BatchTypeOK
  <1>1. NInv => BatchTypeOK
    BY DEF NInv
  <1>2. QED
    BY <1>1, NInvInit, NInvStep, PTL DEF BatchSpec

(* For every batch of balances, start nonce and helper: once dispatched,   *)
(* the helper has sent exactly the entries with a non-zero balance (all,   *)
(* for setWhitelistAdmins), signed with the nonces base, base+1, ... in   *)
(* entry order, with no gap and no repeat.                                 *)
THEOREM NoncesContiguousHolds == BatchSpec => []NoncesContiguous
  <1>1. NInv => NoncesContiguous
    <2> SUFFICES ASSUME NInv, pc # "idle" PROVE NoncesContiguous
      BY DEF NoncesContiguous
    <2>1. /\ dispatched = Sent /\ base \in Nat
          /\ \A i \in Sent : nonceOf[i] = NonceAfter(base)[i - 1]
      BY DEF NInv, Dispatched, BatchTypeOK
    <2>2. {nonceOf[i] : i \in dispatched} = Signed(base)
      BY <2>1 DEF Signed
    <2>3. {nonceOf[i] : i \in dispatched} =
              base..(base + Cardinality(dispatched) - 1)
      BY <2>1, <2>2, SignedInterval
    <2>4. \A i, j \in dispatched : i < j => nonceOf[i] < nonceOf[j]
      BY <2>1, NonceAfterIncreasing
    <2>5. QED
      BY <2>1, <2>3, <2>4 DEF NoncesContiguous, Sent
  <1>2. QED
    BY <1>1, NInvInit, NInvStep, PTL DEF BatchSpec

-----------------------------------------------------------------------------

(* proceed_tx_result reports Success only for a notification of a block   *)
(* whose extrinsic emitted ExtrinsicSuccess, i.e. executed "ok".           *)
LEMMA SuccessMeansOk ==
    ASSUME NEW s, NEW e, s \in InChain => e \in Exec,
           get_tx_status(Notification(s, e)) = "Success"
    PROVE  s \in InChain /\ e = "ok"
  <1>1. s \in InChain
    BY DEF Notification, get_tx_status, is_tx_completed, InChain
  <1>2. CASE e \in {"module", "other"}
    BY <1>1, <1>2 DEF Notification, get_tx_status, is_tx_completed,
                      extrinsic_failed_event_emitted, InChain
  <1>3. CASE e = "unmarked"
    BY <1>1, <1>3 DEF Notification, get_tx_status, is_tx_completed, isError,
                      extrinsic_failed_event_emitted,
                      extrinsic_success_event_emitted, InChain
  <1>4. QED
    BY <1>1, <1>2, <1>3 DEF Exec

(* One run of the status callback of t touches no other outer promise,    *)
(* never takes back a resolution, and resolves only on the notification of *)
(* a block in which the extrinsic executed "ok".                           *)
LEMMA DeliverPromise ==
    ASSUME promise \in [Tx -> PromiseState], NEW t \in Tx, NEW s, NEW e,
           s \in InChain => e \in Exec,
           Deliver(t, Notification(s, e))
    PROVE  /\ \A u \in Tx \ {t} : promise'[u] = promise[u]
           /\ promise[t] = "resolved" => promise'[t] = "resolved"
           /\ promise'[t] = "resolved" =>
                  promise[t] = "resolved" \/ (s \in InChain /\ e = "ok")
  <1> DEFINE r == Notification(s, e)
             st == get_tx_status(r)
             Rejected == [promise EXCEPT ![t] = IF @ = "pending" THEN "rejected" ELSE @]
  <1>1. CASE ~subscribed[t]
    BY <1>1 DEF Deliver, clientVars
  <1>2. CASE subscribed[t]
    <2>0. proceed_tx_result(t, r)
      BY <1>2 DEF Deliver
    <2>1. CASE st = "Success"
      <3>1. onSuccess(t)
        BY <2>0, <2>1, Zenon DEF proceed_tx_result
      <3>2. promise' = IF mode[t] = "promise"
                       THEN [promise EXCEPT ![t] = IF @ = "pending" THEN "resolved"
                                                   ELSE @]
                       ELSE promise
        BY <3>1 DEF onSuccess, Settle
      <3>3. s \in InChain /\ e = "ok"
        BY <2>1, SuccessMeansOk
      <3>4. QED
        BY <3>2, <3>3
    <2>2. CASE st # "Success"
      <3>0. st \in {"Pending", "Unexpected", "Failed"}
        BY <2>2 DEF get_tx_status
      <3>1. promise' = promise \/ promise' = Rejected
        <4>1. CASE st = "Pending"
          BY <2>0, <4>1, Zenon DEF proceed_tx_result, clientVars
        <4>2. CASE st = "Unexpected"
          BY <2>0, <4>2, Zenon DEF proceed_tx_result
        <4>3. CASE st = "Failed"
          <5>1. \/ onFailed(t, "moduleError")
                \/ UNCHANGED promise
            BY <2>0, <4>3, Zenon DEF proceed_tx_result
          <5>2. QED
            BY <5>1, Zenon DEF onFailed, Settle
        <4>4. QED
          BY <3>0, <4>1, <4>2, <4>3
      <3>2. QED
        BY <3>1
    <2>3. QED
      BY <2>1, <2>2
  <1>3. QED
    BY <1>1, <1>2

(* What a normal return of deriveNewAccounts rests on: an included        *)
(* transaction carries an outcome the node can produce, a resolved outer   *)
(* promise belongs to a transaction in a block that executed "ok", and the *)
(* helper returned only once every outer promise had resolved.             *)
FundFacts ==
    /\ \A i \in Tx : status[i] \in InChain => exec[i] \in ExecOutcomes
    /\ \A i \in Tx : promise[i] = "resolved" => status[i] \in InChain /\ exec[i] = "ok"
    /\ Helper = "deriveNewAccounts" /\ pc = "returned" =>
           \A i \in dispatched : promise[i] = "resolved"

FInv == NInv /\ FundFacts

LEMMA FInvInit == BatchInit => FInv
  BY NInvInit DEF BatchInit, Init, FInv, FundFacts, InChain

(* A notification of the node that moves a transaction into a block with  *)
(* a possible outcome, or keeps it in its block with its outcome, keeps    *)
(* FundFacts while the helper does not move.                               *)
LEMMA NotifyFund ==
    ASSUME TypeOK, FundFacts, dispatched \subseteq Tx, NEW t \in Tx, NEW s, NEW e,
           s \in InChain => e \in ExecOutcomes,
           status[t] \in InChain => s \in InChain /\ e = exec[t],
           Notify(t, s, e), UNCHANGED <<pc, dispatched>>
    PROVE  FundFacts'
  <1>1. /\ status' = [status EXCEPT ![t] = s]
        /\ exec' = [exec EXCEPT ![t] = e]
        /\ Deliver(t, Notification(s, e))
    BY DEF Notify
  <1>2. /\ \A u \in Tx \ {t} : promise'[u] = promise[u]
        /\ promise[t] = "resolved" => promise'[t] = "resolved"
        /\ promise'[t] = "resolved" =>
               promise[t] = "resolved" \/ (s \in InChain /\ e = "ok")
    BY <1>1, ExecAssumption, DeliverPromise DEF TypeOK
  <1>3. \A i \in Tx : status'[i] \in InChain => exec'[i] \in ExecOutcomes
    BY <1>1 DEF TypeOK, FundFacts
  <1>4. \A i \in Tx : promise'[i] = "resolved" => status'[i] \in InChain /\ exec'[i] = "ok"
    BY <1>1, <1>2 DEF TypeOK, FundFacts
  <1>5. Helper = "deriveNewAccounts" /\ pc' = "returned" =>
            \A i \in dispatched' : promise'[i] = "resolved"
    BY <1>2 DEF FundFacts
  <1>6. QED
    BY <1>3, <1>4, <1>5 DEF FundFacts

(* Every step of the batch keeps FInv.                                     *)
LEMMA FInvStep == FInv /\ [BatchNext]_allVars => FInv'
  <1> SUFFICES ASSUME NInv, FundFacts, [BatchNext]_allVars PROVE FInv'
    BY DEF FInv
  <1>0. /\ NInv' /\ TypeOK /\ dispatched \subseteq Tx
    BY NInvStep DEF NInv, BatchTypeOK
  <1> SUFFICES FundFacts'
    BY <1>0 DEF FInv
  <1>1. CASE Dispatch
    <2>1. /\ pc' = "awaiting" /\ UNCHANGED <<status, exec>>
          /\ \A i \in Tx : promise'[i] \in {"pending", "none"}
      BY <1>1 DEF Dispatch, nodeVars
    <2>2. QED
      BY <2>1 DEF FundFacts
  <1>2. CASE Return
    <2>1. /\ UNCHANGED <<status, exec, promise, dispatched>>
          /\ Helper = "deriveNewAccounts" /\ pc' = "returned" =>
                 \A i \in dispatched : promise[i] = "resolved"
      BY <1>2 DEF Return, vars, nodeVars, clientVars
    <2>2. QED
      BY <2>1 DEF FundFacts
  <1>3. ASSUME NEW i \in Tx, NodeBatchStep(i) PROVE FundFacts'
    <2>1. CASE Import(i)
      <3>1. /\ status[i] = "Unsent"
            /\ status' = [status EXCEPT ![i] = IF nonceOf[i] = NextIndex
                                                THEN "Ready" ELSE "Future"]
            /\ UNCHANGED <<exec, promise, pc, dispatched>>
        BY <2>1 DEF Import, batchVars
      <3>2. QED
        BY <1>0, <3>1 DEF FundFacts, TypeOK, InChain
    <2>2. CASE Promote(i)
      <3>1. status[i] = "Future" /\ Notify(i, "Ready", "none")
            /\ UNCHANGED <<pc, dispatched>>
        BY <2>2 DEF Promote, batchVars
      <3>2. QED
        BY <1>0, <3>1, NotifyFund DEF InChain
    <2>3. CASE Broadcast(i)
      <3>1. status[i] = "Ready" /\ Notify(i, "Broadcast", "none")
            /\ UNCHANGED <<pc, dispatched>>
        BY <2>3 DEF Broadcast, NodeBroadcast, batchVars
      <3>2. QED
        BY <1>0, <3>1, NotifyFund DEF InChain
    <2>4. CASE Include(i)
      <3>1. PICK e \in ExecOutcomes : Notify(i, "InBlock", e)
        BY <2>4 DEF Include
      <3>2. status[i] \in ReadyPool /\ UNCHANGED <<pc, dispatched>>
        BY <2>4 DEF Include
      <3>3. QED
        BY <1>0, <3>1, <3>2, NotifyFund DEF InChain, ReadyPool
    <2>5. CASE Finalize(i)
      <3>1. /\ status[i] = "InBlock" /\ Notify(i, "Finalized", exec[i])
            /\ UNCHANGED <<pc, dispatched>>
        BY <2>5 DEF Finalize, NodeFinalize, batchVars
      <3>2. exec[i] \in ExecOutcomes
        BY <3>1 DEF FundFacts, InChain
      <3>3. QED
        BY <1>0, <3>1, <3>2, NotifyFund DEF InChain
    <2>6. QED
      BY <1>3, <2>1, <2>2, <2>3, <2>4, <2>5 DEF NodeBatchStep
  <1>4. CASE UNCHANGED allVars
    BY <1>4 DEF FundFacts, allVars, vars, nodeVars, clientVars, batchVars
  <1>5. QED
    BY <1>1, <1>2, <1>3, <1>4 DEF BatchNext

(* For every batch, start nonce and set of execution outcomes: when        *)
(* deriveNewAccounts returns normally from its await on Promise.all, every *)
(* sudo(setBalance) it sent is in a block and executed "ok".  A failed    *)
(* member rejects its outer promise, and that rejection can only make the *)
(* helper throw; a member still Ready or Future has not resolved.          *)
THEOREM FundedOnReturnHolds == BatchSpec => []FundedOnReturn
  <1>1. FInv => FundedOnReturn
    BY DEF FInv, FundFacts, FundedOnReturn, NInv, BatchTypeOK
  <1>2. QED
    BY <1>1, FInvInit, FInvStep, PTL DEF BatchSpec
=============================================================================
