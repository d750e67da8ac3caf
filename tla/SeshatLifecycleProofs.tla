------------------------ MODULE SeshatLifecycleProofs ------------------------
(***************************************************************************)
(* What SeshatLifecycle promises, and thereby everything that implements   *)
(* it, for any events and ids.                                             *)
(***************************************************************************)
EXTENDS SeshatLifecycle, TLAPS

\* Storing, showing and settling events keeps the promises.
LEMMA KeptByStored ==
  ASSUME LifecycleInv, NEW S \in SUBSET Events,
         Show(S) \/ Settle(S) \/ \E E \in SUBSET Events : Store(S, E)
  PROVE  LifecycleInv'
  <1> USE DEF LifecycleInv, NothingLost, NothingHaunts, LeavingExcused, Leaving
  <1>1. ASSUME NEW E \in SUBSET Events, Store(S, E) PROVE LifecycleInv'
    BY <1>1 DEF Store
  <1>2. CASE Show(S)
    BY <1>2 DEF Show
  <1>3. CASE Settle(S)
    BY <1>3 DEF Settle
  <1> QED
    BY <1>1, <1>2, <1>3

\* So does everything that makes events leave: an event is not hidden while it is
\* stored, unless it was stored again.
LEMMA KeptByLeaving ==
  ASSUME LifecycleInv,
         \/ \E id \in EventIds : Delete(id) \/ \E S \in SUBSET Events : Hide(id, S)
         \/ \E ids \in SUBSET EventIds : Forget(ids)
         \/ \E S \in SUBSET Events : Stray(S)
  PROVE  LifecycleInv'
  <1> USE DEF LifecycleInv, NothingLost, NothingHaunts, LeavingExcused, Leaving
  <1>1. ASSUME NEW id \in EventIds, Delete(id) PROVE LifecycleInv'
    BY <1>1 DEF Delete, SameId
  <1>2. ASSUME NEW id \in EventIds, NEW S \in SUBSET Events, Hide(id, S) PROVE LifecycleInv'
    BY <1>2 DEF Hide, SameId
  <1>3. ASSUME NEW ids \in SUBSET EventIds, Forget(ids) PROVE LifecycleInv'
    BY <1>3 DEF Forget
  <1>4. ASSUME NEW S \in SUBSET Events, Stray(S) PROVE LifecycleInv'
    BY <1>4 DEF Stray
  <1> QED
    BY <1>1, <1>2, <1>3, <1>4

\* Nothing stored is lost, nothing that was deleted stays for ever: every event is
\* found or owed unless it was stored while its id was leaving, and what is found
\* without being stored leaves or was left by a failed write.
THEOREM LifecycleKept == LifecycleSpec => []LifecycleInv
  <1>1. LifecycleInit => LifecycleInv
    BY DEF LifecycleInit, LifecycleInv, NothingLost, NothingHaunts, LeavingExcused
  <1>2. LifecycleInv /\ [LifecycleNext]_lifecycle => LifecycleInv'
    <2>1. CASE LifecycleNext
      BY <2>1, KeptByStored, KeptByLeaving DEF LifecycleNext
    <2>2. CASE UNCHANGED lifecycle
      BY <2>2 DEF lifecycle, LifecycleInv, NothingLost, NothingHaunts, LeavingExcused,
                  Leaving
    <2> QED
      BY <2>1, <2>2
  <1> QED
    BY <1>1, <1>2, PTL DEF LifecycleSpec
=============================================================================
