--------------------- MODULE InMemoryNonceBackendProofs ---------------------
(***************************************************************************)
(* Theorems about InMemoryNonceBackend for every set of ids and threads    *)
(* and every expiry: no call raises, and each takes effect at once.        *)
(***************************************************************************)
EXTENDS InMemoryNonceBackend, FiniteSetTheorems, TLAPS

Types ==
    /\ items \subseteq Ids
    /\ before \subseteq Ids
    /\ lock \in Threads \cup {Free}
    /\ pc \in [Threads -> {"idle", "enter", "done"} \cup SectionPcs]
    /\ op \in [Threads -> Atomic!Ops]
    /\ result \in [Threads -> Atomic!Results]
    /\ unseen \in [Threads -> SUBSET Ids]
    /\ expired \in [Threads -> SUBSET Ids]

\* What a purge is going to delete.
doomed(t) == Atomic!Expired(before, op[t].now)

\* How far the call of a thread that holds the lock has come, counted from the
\* entries it found.
Progress(t) ==
    /\ pc[t] \in {"put", "take", "len", "purge"} =>
          op[t].name = pc[t] /\ items = before /\ result[t] = Atomic!Nothing
    /\ pc[t] = "check" =>
          /\ op[t].name = "take"
          /\ items = before \ {op[t].id}
          /\ result[t] = [taken |-> before \cap {op[t].id}, count |-> 0]
    /\ pc[t] = "purge" =>
          /\ unseen[t] \subseteq before
          /\ expired[t] = Atomic!Expired(before \ unseen[t], op[t].now)
    /\ pc[t] = "delete" =>
          /\ op[t].name = "purge"
          /\ expired[t] \subseteq doomed(t)
          /\ items = (before \ doomed(t)) \cup expired[t]
          /\ result[t] = [taken |-> {}, count |-> Cardinality(doomed(t))]
    /\ pc[t] = "exit" =>
          /\ items = Atomic!Effect(op[t], before)
          /\ result[t] = Atomic!Reply(op[t], before)

\* A thread outside starts its next call with nothing found and no list.
Outside(t) ==
    /\ pc[t] = "enter" => result[t] = Atomic!Nothing
    /\ pc[t] \notin {"purge", "delete"} => expired[t] = {}

IInv ==
    /\ Types
    /\ OnlyHolderInside
    /\ \A t \in Threads : Progress(t) /\ Outside(t)

\* The invariant holds initially.
LEMMA InitIInv == Init => IInv
BY InMemoryAssumption
   DEF Init, IInv, Types, OnlyHolderInside, Progress, Outside, SectionPcs,
       Atomic!Ops, Atomic!Results, Atomic!Nothing

\* A set of ids has a number of members.
LEMMA Countable == \A S \in SUBSET Ids : Cardinality(S) \in Nat
BY InMemoryAssumption, FS_Subset, FS_CardinalityType

\* The atomic object counts as its implementation does.
LEMMA SameCount == \A S : Atomic!Cardinality(S) = Cardinality(S)
BY DEF Atomic!Cardinality, Cardinality

\* Every step of a thread that is not yet or no longer inside preserves it.
LEMMA OutsideStep ==
    ASSUME IInv, NEW t \in Threads,
           (\E o \in Atomic!Ops : Invoke(t, o)) \/ Acquire(t) \/ Return(t)
    PROVE  IInv'
<1> USE InMemoryAssumption DEF SectionPcs
<1>1. Types'
  <2>1. CASE \E o \in Atomic!Ops : Invoke(t, o)
    <3>1. Atomic!Nothing \in Atomic!Results
      BY DEF Atomic!Nothing, Atomic!Results
    <3> QED BY <2>1, <3>1 DEF IInv, Types, Invoke
  <2>2. CASE Acquire(t)
    <3>1. op[t].name \in SectionPcs
      BY DEF IInv, Types, Atomic!Ops
    <3>2. pc' \in [Threads -> {"idle", "enter", "done"} \cup SectionPcs]
      BY <2>2, <3>1 DEF IInv, Types, Acquire
    <3> QED BY <2>2, <3>2 DEF IInv, Types, Acquire
  <2>3. CASE Return(t)
    BY <2>3 DEF IInv, Types, Return
  <2> QED BY <2>1, <2>2, <2>3
<1>2. OnlyHolderInside'
  <2>1. CASE \E o \in Atomic!Ops : Invoke(t, o)
    BY <2>1 DEF IInv, Types, OnlyHolderInside, Invoke
  <2>2. CASE Acquire(t)
    <3>1. op[t].name \in SectionPcs
      BY DEF IInv, Types, Atomic!Ops
    <3> QED BY <2>2, <3>1 DEF IInv, Types, OnlyHolderInside, Acquire, can_acquire
  <2>3. CASE Return(t)
    BY <2>3 DEF IInv, Types, OnlyHolderInside, Return
  <2> QED BY <2>1, <2>2, <2>3
<1>3. CASE Acquire(t)
  <2>1. ASSUME NEW u \in Threads, u # t PROVE Progress(u)' /\ Outside(u)'
    <3>1. pc[u] \notin SectionPcs /\ pc'[u] = pc[u]
      BY <1>3, <2>1 DEF IInv, Types, OnlyHolderInside, Acquire, can_acquire
    <3>2. result'[u] = result[u] /\ expired'[u] = expired[u]
      BY <1>3 DEF Acquire
    <3> QED
      BY <3>1, <3>2 DEF IInv, Progress, Outside
  <2>2. Outside(t)'
    BY <1>3 DEF IInv, Types, Outside, Acquire, Atomic!Ops
  <2>3. /\ pc'[t] = op[t].name /\ op'[t] = op[t]
        /\ items' = items /\ before' = items
        /\ result'[t] = Atomic!Nothing
        /\ unseen'[t] = (IF op[t].name = "purge" THEN items ELSE {})
        /\ expired'[t] = {}
    BY <1>3 DEF IInv, Types, Outside, Acquire
  <2>4. pc'[t] \in {"put", "take", "purge", "len"}
    BY <2>3 DEF IInv, Types, Atomic!Ops
  <2>5. Atomic!Expired(items \ items, op[t].now) = {}
    BY DEF Atomic!Expired
  <2>6. Progress(t)'
    BY <2>3, <2>4, <2>5 DEF Progress
  <2> QED
    BY <1>1, <1>2, <2>1, <2>2, <2>6 DEF IInv
<1>4. CASE (\E o \in Atomic!Ops : Invoke(t, o)) \/ Return(t)
  <2>1. ASSUME NEW u \in Threads, u # t PROVE Progress(u)' /\ Outside(u)'
    <3>1. /\ pc'[u] = pc[u] /\ result'[u] = result[u] /\ op'[u] = op[u]
          /\ UNCHANGED <<items, before, unseen, expired>>
      BY <1>4, <2>1 DEF IInv, Types, Invoke, Return
    <3> QED
      BY <3>1, ZenonT(60) DEF IInv, Progress, Outside, doomed
  <2>2. pc'[t] \in {"enter", "idle"} /\ expired'[t] = {}
        /\ (pc'[t] = "enter" => result'[t] = Atomic!Nothing)
    BY <1>4 DEF IInv, Types, Outside, Invoke, Return
  <2>3. Progress(t)' /\ Outside(t)'
    BY <2>2 DEF Progress, Outside
  <2> QED
    BY <1>1, <1>2, <2>1, <2>3 DEF IInv
<1> QED
  BY <1>3, <1>4

\* So does every step inside.  The other threads are outside.
LEMMA InsideStep ==
    ASSUME IInv, NEW t \in Threads, Section(t)
    PROVE  IInv'
<1> USE InMemoryAssumption DEF SectionPcs
<1>1. lock = t
  BY DEF IInv, OnlyHolderInside, Section, put, take, take_check, len, purge_scan,
         purge_scanned, purge_delete, purge_deleted, Release
<1>2. OnlyHolderInside'
  BY DEF IInv, Types, OnlyHolderInside, Section, put, take, take_check, len,
         purge_scan, purge_scanned, purge_delete, purge_deleted, Release
<1>3. ASSUME NEW u \in Threads, u # t PROVE Progress(u)' /\ Outside(u)'
  <2>1. pc[u] \notin SectionPcs
    BY <1>1, <1>3 DEF IInv, OnlyHolderInside
  <2>2. /\ pc'[u] = pc[u] /\ result'[u] = result[u] /\ expired'[u] = expired[u]
    BY <1>3
    DEF IInv, Types, Section, put, take, take_check, len, purge_scan,
        purge_scanned, purge_delete, purge_deleted, Release
  <2> QED
    BY <2>1, <2>2 DEF IInv, Progress, Outside
<1>4. Outside(t)'
  BY DEF IInv, Types, Outside, Section, put, take, take_check, len, purge_scan,
         purge_scanned, purge_delete, purge_deleted, Release
<1>5. Types /\ op[t] \in Atomic!Ops /\ Progress(t)
  BY DEF IInv, Types
<1>6. CASE put(t)
  <2>1. pc[t] = "put" /\ pc'[t] = "exit"
    BY <1>5, <1>6 DEF Types, put
  <2>2. op[t].id \in Ids
    BY <1>5, <2>1 DEF Progress, Atomic!Ops
  <2>3. items' = Atomic!Effect(op[t], before) /\ result[t] = Atomic!Reply(op[t], before)
    BY <1>5, <1>6, <2>1 DEF Progress, put, Atomic!Effect, Atomic!Reply
  <2>4. Progress(t)'
    BY <1>6, <2>1, <2>3 DEF Progress, put
  <2>5. Types'
    BY <1>5, <1>6, <2>2 DEF Types, put
  <2> QED
    BY <1>2, <1>3, <1>4, <2>4, <2>5 DEF IInv
<1>7. CASE take(t)
  <2>1. Types'
    BY <1>5, <1>7 DEF Types, take, Atomic!Results
  <2>2. pc[t] = "take" /\ pc'[t] = "check"
    BY <1>5, <1>7 DEF Types, take
  <2>3. result'[t] = [taken |-> before \cap {op[t].id}, count |-> 0]
    <3> DEFINE found == before \cap {op[t].id}
    <3>1. result[t] = Atomic!Nothing /\ items = before
      BY <1>5, <2>2 DEF Progress
    <3>2. result'[t] = [result[t] EXCEPT !.taken = found]
      BY <1>5, <1>7, <3>1 DEF Types, take
    <3> HIDE DEF found
    <3>3. result'[t] = [taken |-> found, count |-> 0]
      BY <3>1, <3>2 DEF Atomic!Nothing
    <3> QED
      BY <3>3 DEF found
  <2>4. Progress(t)'
    BY <1>5, <1>7, <2>2, <2>3 DEF Progress, take
  <2> QED
    BY <1>2, <1>3, <1>4, <2>1, <2>4 DEF IInv
<1>8. CASE take_check(t)
  <2>1. Types'
    BY <1>5, <1>8 DEF Types, take_check, live, Atomic!Results
  <2>2. pc[t] = "check" /\ pc'[t] = "exit"
    BY <1>5, <1>8 DEF Types, take_check
  <2>3. result'[t] = [taken |-> live(before \cap {op[t].id}, op[t].now), count |-> 0]
    <3>1. result'[t] = [result[t] EXCEPT !.taken = live(@, op[t].now)]
      BY <1>5, <1>8 DEF Types, take_check
    <3>2. result[t] = [taken |-> before \cap {op[t].id}, count |-> 0]
      BY <1>5, <2>2 DEF Progress
    <3> QED
      BY <3>1, <3>2
  <2>4. items = Atomic!Effect(op[t], before) /\ result'[t] = Atomic!Reply(op[t], before)
    BY <1>5, <2>2, <2>3
    DEF Progress, live, is_expired, Atomic!Effect, Atomic!Reply, Atomic!is_expired
  <2>5. Progress(t)'
    BY <1>8, <2>2, <2>4 DEF Progress, take_check
  <2> QED
    BY <1>2, <1>3, <1>4, <2>1, <2>5 DEF IInv
<1>9. CASE len(t)
  <2>1. Types'
    BY <1>5, <1>9, Countable DEF Types, len, Atomic!Results
  <2>2. pc[t] = "len" /\ pc'[t] = "exit"
    BY <1>5, <1>9 DEF Types, len
  <2>3. result'[t] = [taken |-> {}, count |-> Cardinality(before)]
    <3>1. result'[t] = [result[t] EXCEPT !.count = Cardinality(items)]
      BY <1>5, <1>9 DEF Types, len
    <3>2. result[t] = Atomic!Nothing /\ items = before
      BY <1>5, <2>2 DEF Progress
    <3> QED
      BY <3>1, <3>2, SMTT(30) DEF Atomic!Nothing
  <2>4. items = Atomic!Effect(op[t], before) /\ result'[t] = Atomic!Reply(op[t], before)
    <3>1. op[t].name = "len" /\ items = before
      BY <1>5, <2>2 DEF Progress
    <3>2. Atomic!Effect(op[t], before) = before
      BY <3>1 DEF Atomic!Effect
    <3>3. Atomic!Reply(op[t], before) = [taken |-> {}, count |-> Cardinality(before)]
      BY <3>1, SameCount DEF Atomic!Reply
    <3> QED
      BY <2>3, <3>1, <3>2, <3>3
  <2>5. Progress(t)'
    BY <1>9, <2>2, <2>4 DEF Progress, len
  <2> QED
    BY <1>2, <1>3, <1>4, <2>1, <2>5 DEF IInv
<1>10. ASSUME NEW id \in Ids, purge_scan(t, id) PROVE IInv'
  <2>1. Types'
    BY <1>5, <1>10 DEF Types, purge_scan, next_entries
  <2>2. pc[t] = "purge" /\ pc'[t] = "purge"
    BY <1>5, <1>10 DEF Types, purge_scan
  <2>3. /\ id \in unseen[t]
        /\ unseen'[t] = unseen[t] \ {id}
        /\ expired'[t] = IF is_expired(id, op[t].now) THEN expired[t] \cup {id}
                         ELSE expired[t]
    BY <1>5, <1>10 DEF Types, purge_scan, next_entries
  <2>4. unseen[t] \subseteq before
        /\ expired[t] = Atomic!Expired(before \ unseen[t], op[t].now)
    BY <1>5, <2>2 DEF Progress
  <2>5. expired'[t] = Atomic!Expired(before \ unseen'[t], op[t].now)
    BY <2>3, <2>4 DEF is_expired, Atomic!Expired, Atomic!is_expired
  <2>6. Progress(t)'
    BY <1>5, <1>10, <2>2, <2>3, <2>4, <2>5 DEF Progress, purge_scan
  <2> QED
    BY <1>2, <1>3, <1>4, <2>1, <2>6 DEF IInv
<1>11. CASE purge_scanned(t)
  <2>1. Types'
    BY <1>5, <1>11, Countable DEF Types, purge_scanned, Atomic!Results
  <2>2. pc[t] = "purge" /\ pc'[t] = "delete"
    BY <1>5, <1>11 DEF Types, purge_scanned
  <2>3. expired[t] = doomed(t) /\ items = before /\ doomed(t) \subseteq before
    BY <1>5, <1>11, <2>2 DEF Progress, purge_scanned, doomed, Atomic!Expired
  <2>4. result'[t] = [taken |-> {}, count |-> Cardinality(expired[t])]
    <3>1. result'[t] = [result[t] EXCEPT !.count = Cardinality(expired[t])]
      BY <1>5, <1>11 DEF Types, purge_scanned
    <3>2. result[t] = Atomic!Nothing
      BY <1>5, <2>2 DEF Progress
    <3> QED
      BY <3>1, <3>2 DEF Atomic!Nothing
  <2>5. doomed(t)' = doomed(t)
    BY <1>11 DEF purge_scanned, doomed
  <2>6. Progress(t)'
    BY <1>5, <1>11, <2>2, <2>3, <2>4, <2>5 DEF Progress, purge_scanned
  <2> QED
    BY <1>2, <1>3, <1>4, <2>1, <2>6 DEF IInv
<1>12. ASSUME NEW id \in Ids, purge_delete(t, id) PROVE IInv'
  <2>1. Types'
    BY <1>5, <1>12 DEF Types, purge_delete
  <2>2. pc[t] = "delete" /\ pc'[t] = "delete"
    BY <1>5, <1>12 DEF Types, purge_delete
  <2>3. /\ items' = items \ {id} /\ expired'[t] = expired[t] \ {id}
        /\ id \in expired[t]
    BY <1>5, <1>12 DEF Types, purge_delete
  <2>4. doomed(t)' = doomed(t)
    BY <1>12 DEF purge_delete, doomed
  <2>5. Progress(t)'
    BY <1>5, <1>12, <2>2, <2>3, <2>4 DEF Progress, purge_delete
  <2> QED
    BY <1>2, <1>3, <1>4, <2>1, <2>5 DEF IInv
<1>13. CASE purge_deleted(t)
  <2>1. Types'
    BY <1>5, <1>13 DEF Types, purge_deleted
  <2>2. pc[t] = "delete" /\ pc'[t] = "exit"
    BY <1>5, <1>13 DEF Types, purge_deleted
  <2>3. items = Atomic!Effect(op[t], before) /\ result[t] = Atomic!Reply(op[t], before)
    <3>1. /\ op[t].name = "purge"
          /\ items = before \ Atomic!Expired(before, op[t].now)
          /\ result[t] = [taken |-> {},
                          count |-> Cardinality(Atomic!Expired(before, op[t].now))]
      BY <1>5, <1>13, <2>2 DEF Progress, purge_deleted, doomed
    <3>2. Atomic!Effect(op[t], before) = before \ Atomic!Expired(before, op[t].now)
      BY <3>1 DEF Atomic!Effect
    <3>3. Atomic!Reply(op[t], before)
             = [taken |-> {}, count |-> Cardinality(Atomic!Expired(before, op[t].now))]
      BY <3>1, SameCount DEF Atomic!Reply
    <3> QED
      BY <3>1, <3>2, <3>3
  <2>4. Progress(t)'
    BY <1>13, <2>2, <2>3 DEF Progress, purge_deleted
  <2> QED
    BY <1>2, <1>3, <1>4, <2>1, <2>4 DEF IInv
<1>14. CASE Release(t)
  <2>1. Types'
    BY <1>5, <1>14 DEF Types, Release
  <2>2. pc'[t] = "done"
    BY <1>5, <1>14 DEF Types, Release
  <2>3. Progress(t)'
    BY <2>2 DEF Progress
  <2> QED
    BY <1>2, <1>3, <1>4, <2>1, <2>3 DEF IInv
<1> QED
  BY <1>6, <1>7, <1>8, <1>9, <1>10, <1>11, <1>12, <1>13, <1>14 DEF Section

\* Every step preserves the invariant.
LEMMA NextIInv == IInv /\ [Next]_vars => IInv'
<1> SUFFICES ASSUME IInv, [Next]_vars PROVE IInv'
  OBVIOUS
<1>1. CASE UNCHANGED vars
  <2>1. Types' /\ OnlyHolderInside'
    BY <1>1 DEF vars, IInv, Types, OnlyHolderInside
  <2>2. ASSUME NEW u \in Threads PROVE Progress(u)' /\ Outside(u)'
    <3>1. Progress(u) /\ Outside(u)
      BY DEF IInv
    <3> QED
      BY <1>1, <3>1 DEF vars, Progress, Outside, doomed
  <2> QED
    BY <2>1, <2>2 DEF IInv
<1> QED
  BY <1>1, OutsideStep, InsideStep DEF Next

\* The invariant holds of every reachable state.
THEOREM Invariance == Spec => []IInv
BY InitIInv, NextIInv, PTL DEF Spec

\* Mutual exclusion: between the two ends of a `with self._lock` block there is
\* only the thread that holds the lock (store.py 65-86).
THEOREM OnlyHolderInsideHolds == Spec => []OnlyHolderInside
<1>1. IInv => OnlyHolderInside
  BY DEF IInv
<1> QED
  BY <1>1, Invariance, PTL

\* purge_expired neither finds the dict changed under its comprehension nor
\* deletes an entry that is gone (store.py 79-81).
THEOREM PurgeNeverRaisesHolds == Spec => []PurgeNeverRaises
<1>1. IInv => PurgeNeverRaises
  BY DEF IInv, Progress, PurgeNeverRaises, Atomic!Expired
<1> QED
  BY <1>1, Invariance, PTL

-----------------------------------------------------------------------------
\* Initially no call is made and nothing is held.
LEMMA InitRefines == Init => Atomic!Init
BY InMemoryAssumption
   DEF Init, Atomic!Init, itemsBar, phaseBar, resultBar, Atomic!Nothing

\* Every step is one of the atomic object: the effect and the answer of a call
\* appear when the lock is released, and all else inside changes nothing.
LEMMA NextRefines == IInv /\ [Next]_vars => [Atomic!Next]_Atomic!vars
<1> SUFFICES ASSUME IInv, [Next]_vars PROVE [Atomic!Next]_Atomic!vars
  OBVIOUS
<1> USE InMemoryAssumption DEF IInv, Types, SectionPcs, Atomic!vars
<1>1. ASSUME NEW t \in Threads, NEW o \in Atomic!Ops, Invoke(t, o)
      PROVE  Atomic!Next
  <2>1. Atomic!Invoke(t, o)
    BY <1>1 DEF Invoke, Atomic!Invoke, itemsBar, phaseBar, resultBar
  <2> QED
    BY <2>1 DEF Atomic!Next
<1>2. ASSUME NEW t \in Threads, Acquire(t) PROVE UNCHANGED Atomic!vars
  BY <1>2 DEF Acquire, can_acquire, Atomic!Ops, itemsBar, phaseBar, resultBar
<1>3. ASSUME NEW t \in Threads, Release(t) PROVE Atomic!Next
  <2>1. lock = t
    BY <1>3 DEF Release, OnlyHolderInside
  <2>2. itemsBar = before /\ itemsBar' = items
    BY <1>3, <2>1 DEF Release, itemsBar
  <2>3. items = Atomic!Effect(op[t], before) /\ result[t] = Atomic!Reply(op[t], before)
    BY <1>3 DEF Release, Progress
  <2>4. Atomic!Perform(t)
    BY <1>3, <2>2, <2>3 DEF Release, Atomic!Perform, phaseBar, resultBar
  <2> QED
    BY <2>4 DEF Atomic!Next
<1>4. ASSUME NEW t \in Threads, Section(t), ~Release(t) PROVE UNCHANGED Atomic!vars
  <2>1. lock = t /\ lock' = t /\ before' = before /\ op' = op
    BY <1>4
    DEF OnlyHolderInside, Section, put, take, take_check, len, purge_scan,
        purge_scanned, purge_delete, purge_deleted
  <2>2. \A u \in Threads :
           /\ pc'[u] \in {"idle", "done"} <=> pc[u] \in {"idle", "done"}
           /\ pc[u] \in {"idle", "done"} => pc'[u] = pc[u] /\ result'[u] = result[u]
    BY <1>4
    DEF Section, put, take, take_check, len, purge_scan, purge_scanned,
        purge_delete, purge_deleted
  <2>3. itemsBar' = itemsBar
    BY <2>1 DEF itemsBar
  <2>4. phaseBar' = phaseBar /\ resultBar' = resultBar
    BY <2>2 DEF phaseBar, resultBar
  <2> QED
    BY <2>1, <2>3, <2>4
<1>5. ASSUME NEW t \in Threads, Return(t) PROVE Atomic!Next
  <2>1. Atomic!Return(t)
    BY <1>5 DEF Return, Atomic!Return, Atomic!Nothing, itemsBar, phaseBar, resultBar
  <2> QED
    BY <2>1 DEF Atomic!Next
<1>6. CASE UNCHANGED vars
  BY <1>6 DEF vars, itemsBar, phaseBar, resultBar
<1> QED
  BY <1>1, <1>2, <1>3, <1>4, <1>5, <1>6 DEF Next

\* The locked dict is an atomic nonce backend: every interleaving of put, take,
\* purge_expired and len answers as some order of indivisible calls would
\* (store.py 44-54, "Atomically remove and return").
THEOREM ImplementsAtomicHolds == Spec => ImplementsAtomic
BY InitRefines, NextRefines, Invariance, PTL
   DEF Spec, ImplementsAtomic, Atomic!Spec
=============================================================================
