------------------------ MODULE ChallengeStoreProofs ------------------------
(***************************************************************************)
(* Theorems about ChallengeStore for every set of ids, threads and stores, *)
(* every TTL and clock bound, and both kinds of clock and backend; at the  *)
(* end, that the stores, threads and backends implement the single-use     *)
(* tokens of SingleUseToken: a challenge has one place, so taking it away  *)
(* from there ends its life.                                               *)
(***************************************************************************)
EXTENDS ChallengeStore, TLAPS

\* TypeOK holds initially.
LEMMA InitTypeOK == Init => TypeOK
BY StoreAssumption
   DEF Init, TypeOK, SelectBackend, Backends, PcValues, Outcomes, Refusals

\* Every step preserves TypeOK.
LEMMA NextTypeOK == TypeOK /\ [Next]_vars => TypeOK'
<1> SUFFICES ASSUME TypeOK, [Next]_vars PROVE TypeOK'
  OBVIOUS
<1> USE StoreAssumption DEF PcValues, Outcomes, Refusals
<1>1. CASE UNCHANGED vars
  BY <1>1 DEF TypeOK, vars, callVars
<1>2. ASSUME NEW t \in Threads, NEW s \in Stores, NEW id \in Ids,
             IssueBegin(t, s, id)
      PROVE  TypeOK'
  BY <1>2 DEF TypeOK, IssueBegin, fresh_ids, Enter
<1>3. ASSUME NEW t \in Threads, NEW s \in Stores, NEW id \in known \cup {Bogus},
             ConsumeBegin(t, s, id)
      PROVE  TypeOK'
  BY <1>3 DEF TypeOK, ConsumeBegin, Enter
<1>4. ASSUME NEW t \in Threads, NEW s \in Stores, PurgeBegin(t, s)
      PROVE  TypeOK'
  BY <1>4 DEF TypeOK, PurgeBegin, Enter
<1>5. ASSUME NEW t \in Threads, put(t) PROVE TypeOK'
  BY <1>5 DEF TypeOK, put
<1>6. ASSUME NEW t \in Threads, IssueReturn(t) PROVE TypeOK'
  BY <1>6 DEF TypeOK, IssueReturn
<1>7. ASSUME NEW t \in Threads, take(t) PROVE TypeOK'
  BY <1>7 DEF TypeOK, take, pop, returned
<1>8. ASSUME NEW t \in Threads, Answer(t) PROVE TypeOK'
  BY <1>8 DEF TypeOK, Answer, Verdict
<1>9. ASSUME NEW t \in Threads, CallEnd(t) PROVE TypeOK'
  BY <1>9 DEF TypeOK, CallEnd
<1>10. ASSUME NEW t \in Threads, purge_expired(t) PROVE TypeOK'
  BY <1>10 DEF TypeOK, purge_expired, unexpired
<1>11. ASSUME NEW s \in Stores, Restart(s) PROVE TypeOK'
  BY <1>11 DEF TypeOK, Restart, new_backend, SelectBackend, Backends
<1>12. CASE Tick
  BY <1>12 DEF TypeOK, Tick, callVars
<1>13. CASE StepBack
  BY <1>13 DEF TypeOK, StepBack, callVars
<1> QED
  BY <1>1, <1>2, <1>3, <1>4, <1>5, <1>6, <1>7, <1>8, <1>9, <1>10, <1>11,
     <1>12, <1>13
  DEF Next

\* Type correctness of every reachable state.
THEOREM TypeCorrect == Spec => []TypeOK
BY InitTypeOK, NextTypeOK, PTL DEF Spec
-----------------------------------------------------------------------------
\* A call returns a challenge only while its own clock reading is before
\* expires_at, whether or not the backend's take filters (line 133).
AcceptedBeforeExpiry ==
    \A t \in Threads : pc[t] = "accepted" => now[t] < expires_at(cid[t])

\* Why no challenge is accepted twice: each is in at most one place, and the
\* calls in progress hold what OnePlace says they hold.
IInv ==
    /\ TypeOK
    /\ OnePlace
    /\ CallsConsistent
    /\ SingleUse
    /\ AcceptedBeforeExpiry
    /\ RefusedIsGone

Parts == OnePlace /\ CallsConsistent /\ SingleUse /\ AcceptedBeforeExpiry
            /\ RefusedIsGone

\* The invariant holds initially.
LEMMA InitIInv == Init => IInv
BY InitTypeOK, StoreAssumption
   DEF Init, IInv, OnePlace, CallsConsistent, SingleUse, AcceptedBeforeExpiry,
       RefusedIsGone, OnePlaceOf, Issuing, Pending, InHand, Backends, Outcomes, Refusals

\* A step that only removes a challenge from places keeps it in one place.
LEMMA OnePlaceOfShrinks ==
    ASSUME NEW id \in Ids, OnePlaceOf(id),
           \A b \in Backends : id \in items'[b] => id \in items[b],
           \A t \in Threads :
              /\ Issuing(t, id)' => Issuing(t, id)
              /\ Pending(t, id)' => Pending(t, id)
              /\ InHand(t, id)' => InHand(t, id),
           accepts'[id] = accepts[id],
           drawn \subseteq drawn'
    PROVE  OnePlaceOf(id)'
BY DEF OnePlaceOf, Issuing, Pending, InHand

\* The same for all challenges at once.
LEMMA OnePlaceShrinks ==
    ASSUME OnePlace,
           \A b \in Backends : items'[b] \subseteq items[b],
           \A t \in Threads, id \in Ids :
              /\ Issuing(t, id)' => Issuing(t, id)
              /\ Pending(t, id)' => Pending(t, id)
              /\ InHand(t, id)' => InHand(t, id),
           accepts' = accepts,
           drawn \subseteq drawn'
    PROVE  OnePlace'
<1> SUFFICES ASSUME NEW id \in Ids PROVE OnePlaceOf(id)'
  BY DEF OnePlace
<1>1. OnePlaceOf(id)
  BY DEF OnePlace
<1> QED
  BY <1>1, OnePlaceOfShrinks DEF Issuing, Pending, InHand

\* Every step preserves the invariant.
LEMMA NextIInv == IInv /\ [Next]_vars => IInv'
<1> SUFFICES ASSUME IInv, [Next]_vars PROVE IInv'
  OBVIOUS
<1>1. TypeOK /\ TypeOK'
  BY NextTypeOK DEF IInv
<1> USE <1>1, StoreAssumption DEF TypeOK, PcValues, Outcomes, Refusals, Backends
<1>2. ASSUME NEW t \in Threads, NEW s \in Stores, NEW id \in Ids,
             IssueBegin(t, s, id)
      PROVE  Parts'
  <2>1. OnePlace'
    <3> SUFFICES ASSUME NEW i \in Ids PROVE OnePlaceOf(i)'
      BY DEF OnePlace
    <3>1. OnePlaceOf(i)
      BY DEF IInv, OnePlace
    <3>2. CASE i = id
      BY <3>1, <3>2, <1>2 DEF IInv, OnePlaceOf, CallsConsistent, Issuing, Pending, InHand, IssueBegin, fresh_ids, Enter
    <3>3. CASE i # id
      BY <3>1, <3>3, <1>2 DEF OnePlaceOf, CallsConsistent, Issuing, Pending, InHand, IssueBegin, fresh_ids, Enter
    <3> QED
      BY <3>2, <3>3
  <2>2. CallsConsistent'
    BY <1>2 DEF IInv, CallsConsistent, OnePlace, OnePlaceOf, Issuing, IssueBegin, fresh_ids, Enter
  <2>3. SingleUse'
    BY <1>2 DEF IInv, SingleUse, IssueBegin, fresh_ids, Enter
  <2>4. AcceptedBeforeExpiry'
    BY <1>2 DEF IInv, AcceptedBeforeExpiry, CallsConsistent, expires_at, IssueBegin, fresh_ids, Enter
  <2>5. RefusedIsGone'
    BY <1>2 DEF IInv, RefusedIsGone, CallsConsistent, IssueBegin, fresh_ids, Enter
  <2> QED
    BY <2>1, <2>2, <2>3, <2>4, <2>5 DEF Parts
<1>3. ASSUME NEW t \in Threads, NEW s \in Stores, NEW id \in known \cup {Bogus},
             ConsumeBegin(t, s, id)
      PROVE  Parts'
  <2>1. OnePlace'
    BY <1>3, OnePlaceShrinks DEF IInv, Issuing, Pending, InHand, ConsumeBegin, Enter
  <2>2. CallsConsistent'
    BY <1>3 DEF IInv, CallsConsistent, OnePlace, OnePlaceOf, Issuing, ConsumeBegin, Enter
  <2>3. SingleUse'
    BY <1>3 DEF IInv, SingleUse, ConsumeBegin, Enter
  <2>4. AcceptedBeforeExpiry'
    BY <1>3 DEF IInv, AcceptedBeforeExpiry, CallsConsistent, expires_at, ConsumeBegin, Enter
  <2>5. RefusedIsGone'
    BY <1>3 DEF IInv, RefusedIsGone, CallsConsistent, ConsumeBegin, Enter
  <2> QED
    BY <2>1, <2>2, <2>3, <2>4, <2>5 DEF Parts
<1>4. ASSUME NEW t \in Threads, NEW s \in Stores, PurgeBegin(t, s)
      PROVE  Parts'
  <2>1. OnePlace'
    BY <1>4, OnePlaceShrinks DEF IInv, Issuing, Pending, InHand, PurgeBegin, Enter
  <2>2. CallsConsistent'
    BY <1>4 DEF IInv, CallsConsistent, OnePlace, OnePlaceOf, Issuing, PurgeBegin, Enter
  <2>3. SingleUse'
    BY <1>4 DEF IInv, SingleUse, PurgeBegin, Enter
  <2>4. AcceptedBeforeExpiry'
    BY <1>4 DEF IInv, AcceptedBeforeExpiry, CallsConsistent, expires_at, PurgeBegin, Enter
  <2>5. RefusedIsGone'
    BY <1>4 DEF IInv, RefusedIsGone, CallsConsistent, PurgeBegin, Enter
  <2> QED
    BY <2>1, <2>2, <2>3, <2>4, <2>5 DEF Parts
<1>5. ASSUME NEW t \in Threads, put(t)
      PROVE  Parts'
  <2>1. OnePlace'
    <3> SUFFICES ASSUME NEW i \in Ids PROVE OnePlaceOf(i)'
      BY DEF OnePlace
    <3>1. OnePlaceOf(i)
      BY DEF IInv, OnePlace
    <3> QED
      BY <3>1, <1>5 DEF OnePlaceOf, IInv, CallsConsistent, Issuing, Pending, InHand, put
  <2>2. CallsConsistent'
    BY <1>5 DEF IInv, CallsConsistent, OnePlace, OnePlaceOf, Issuing, put
  <2>3. SingleUse'
    BY <1>5 DEF IInv, SingleUse, put
  <2>4. AcceptedBeforeExpiry'
    BY <1>5 DEF IInv, AcceptedBeforeExpiry, CallsConsistent, expires_at, put
  <2>5. RefusedIsGone'
    BY <1>5 DEF IInv, RefusedIsGone, CallsConsistent, put
  <2> QED
    BY <2>1, <2>2, <2>3, <2>4, <2>5 DEF Parts
<1>6. ASSUME NEW t \in Threads, IssueReturn(t)
      PROVE  Parts'
  <2>1. OnePlace'
    BY <1>6, OnePlaceShrinks DEF IInv, Issuing, Pending, InHand, IssueReturn
  <2>2. CallsConsistent'
    BY <1>6 DEF IInv, CallsConsistent, OnePlace, OnePlaceOf, Issuing, IssueReturn
  <2>3. SingleUse'
    BY <1>6 DEF IInv, SingleUse, IssueReturn
  <2>4. AcceptedBeforeExpiry'
    BY <1>6 DEF IInv, AcceptedBeforeExpiry, CallsConsistent, expires_at, IssueReturn
  <2>5. RefusedIsGone'
    BY <1>6 DEF IInv, RefusedIsGone, CallsConsistent, IssueReturn
  <2> QED
    BY <2>1, <2>2, <2>3, <2>4, <2>5 DEF Parts
<1>7. ASSUME NEW t \in Threads, take(t)
      PROVE  Parts'
  <2>1. OnePlace'
    <3> SUFFICES ASSUME NEW i \in Ids PROVE OnePlaceOf(i)'
      BY DEF OnePlace
    <3>1. OnePlaceOf(i)
      BY DEF IInv, OnePlace
    <3>2. \A u \in Threads :
             /\ Issuing(u, i)' => Issuing(u, i)
             /\ Pending(u, i)' => Pending(u, i)
      BY <1>7 DEF take, pop, returned, Issuing, Pending
    <3>3. CASE i = cid[t] /\ i \in items[backend[at[t]]]
      <4>1. \A b \in Backends : i \notin items'[b]
        BY <3>1, <3>3, <1>7 DEF take, pop, returned, OnePlaceOf
      <4>2. \A u \in Threads : InHand(u, i)' => u = t
        BY <3>1, <3>3, <1>7 DEF take, pop, returned, InHand, OnePlaceOf
      <4>3. accepts'[i] = 0 /\ i \in drawn'
        BY <3>1, <3>3, <1>7 DEF take, pop, returned, OnePlaceOf
      <4>4. \A u \in Threads : ~Pending(u, i)'
        BY <3>1, <3>2, <1>7, <3>3 DEF take, pop, returned, OnePlaceOf, Pending
      <4>5. \A u, v \in Threads : Issuing(u, i)' /\ Issuing(v, i)' => u = v
        BY <3>1, <3>2 DEF OnePlaceOf, Issuing
      <4> QED
        BY <4>1, <4>2, <4>3, <4>4, <4>5 DEF OnePlaceOf
    <3>4. CASE ~(i = cid[t] /\ i \in items[backend[at[t]]])
      <4>1. \A u \in Threads : InHand(u, i)' => InHand(u, i)
        BY <3>4, <1>7 DEF take, pop, returned, InHand, CallsConsistent, IInv
      <4>2. \A b \in Backends : items'[b] \subseteq items[b]
        BY <1>7 DEF take, pop, returned
      <4>3. accepts' = accepts /\ drawn' = drawn
        BY <1>7 DEF take, pop, returned
      <4> QED
        BY <3>1, <3>2, <4>1, <4>2, <4>3, OnePlaceOfShrinks
           DEF Issuing, Pending, InHand
    <3> QED
      BY <3>3, <3>4
  <2>2. CallsConsistent'
    BY <1>7 DEF IInv, CallsConsistent, OnePlace, OnePlaceOf, Issuing, take, pop, returned, is_expired
  <2>3. SingleUse'
    BY <1>7 DEF IInv, SingleUse, take, pop, returned, is_expired
  <2>4. AcceptedBeforeExpiry'
    BY <1>7 DEF IInv, AcceptedBeforeExpiry, CallsConsistent, expires_at, take, pop, returned, is_expired
  <2>5. RefusedIsGone'
    BY <1>7 DEF IInv, RefusedIsGone, CallsConsistent, take, pop, returned, is_expired
  <2> QED
    BY <2>1, <2>2, <2>3, <2>4, <2>5 DEF Parts
<1>8. ASSUME NEW t \in Threads, Answer(t)
      PROVE  Parts'
  <2>1. OnePlace'
    <3> SUFFICES ASSUME NEW i \in Ids PROVE OnePlaceOf(i)'
      BY DEF OnePlace
    <3>1. OnePlaceOf(i)
      BY DEF IInv, OnePlace
    <3> QED
      BY <3>1, <1>8 DEF OnePlaceOf, IInv, CallsConsistent, Issuing, Pending, InHand, Answer, Verdict, is_expired
  <2>2. CallsConsistent'
    BY <1>8 DEF IInv, CallsConsistent, OnePlace, OnePlaceOf, Issuing, Answer, Verdict, is_expired
  <2>3. SingleUse'
    <3> SUFFICES ASSUME NEW i \in Ids PROVE (accepts[i] <= 1)'
      BY DEF SingleUse
    <3>1. CASE i = cid[t] /\ Verdict(t) = "accepted"
      <4>1. InHand(t, i)
        BY <3>1, <1>8 DEF IInv, CallsConsistent, Verdict, Answer, InHand
      <4>2. OnePlaceOf(i)
        BY DEF IInv, OnePlace
      <4>3. ~(accepts[i] > 0)
        BY <4>1, <4>2 DEF OnePlaceOf
      <4> QED
        BY <3>1, <4>3, <1>8 DEF Answer
    <3>2. CASE ~(i = cid[t] /\ Verdict(t) = "accepted")
      BY <3>2, <1>8 DEF IInv, SingleUse, Answer
    <3> QED
      BY <3>1, <3>2
  <2>4. AcceptedBeforeExpiry'
    BY <1>8 DEF IInv, AcceptedBeforeExpiry, CallsConsistent, expires_at, Answer, Verdict, is_expired
  <2>5. RefusedIsGone'
    BY <1>8 DEF IInv, RefusedIsGone, CallsConsistent, Answer, Verdict, is_expired
  <2> QED
    BY <2>1, <2>2, <2>3, <2>4, <2>5 DEF Parts
<1>9. ASSUME NEW t \in Threads, CallEnd(t)
      PROVE  Parts'
  <2>1. OnePlace'
    BY <1>9, OnePlaceShrinks DEF IInv, Issuing, Pending, InHand, CallEnd
  <2>2. CallsConsistent'
    BY <1>9 DEF IInv, CallsConsistent, OnePlace, OnePlaceOf, Issuing, CallEnd
  <2>3. SingleUse'
    BY <1>9 DEF IInv, SingleUse, CallEnd
  <2>4. AcceptedBeforeExpiry'
    BY <1>9 DEF IInv, AcceptedBeforeExpiry, CallsConsistent, expires_at, CallEnd
  <2>5. RefusedIsGone'
    BY <1>9 DEF IInv, RefusedIsGone, CallsConsistent, CallEnd
  <2> QED
    BY <2>1, <2>2, <2>3, <2>4, <2>5 DEF Parts
<1>10. ASSUME NEW t \in Threads, purge_expired(t)
      PROVE  Parts'
  <2>1. OnePlace'
    BY <1>10, OnePlaceShrinks DEF IInv, Issuing, Pending, InHand, purge_expired, unexpired
  <2>2. CallsConsistent'
    BY <1>10 DEF IInv, CallsConsistent, OnePlace, OnePlaceOf, Issuing, purge_expired, unexpired
  <2>3. SingleUse'
    BY <1>10 DEF IInv, SingleUse, purge_expired, unexpired
  <2>4. AcceptedBeforeExpiry'
    BY <1>10 DEF IInv, AcceptedBeforeExpiry, CallsConsistent, expires_at, purge_expired, unexpired
  <2>5. RefusedIsGone'
    BY <1>10 DEF IInv, RefusedIsGone, CallsConsistent, purge_expired, unexpired
  <2> QED
    BY <2>1, <2>2, <2>3, <2>4, <2>5 DEF Parts
<1>11. ASSUME NEW s \in Stores, Restart(s)
      PROVE  Parts'
  <2>1. OnePlace'
    BY <1>11, OnePlaceShrinks DEF IInv, Issuing, Pending, InHand, Restart, new_backend
  <2>2. CallsConsistent'
    BY <1>11 DEF IInv, CallsConsistent, OnePlace, OnePlaceOf, Issuing, Restart, new_backend
  <2>3. SingleUse'
    BY <1>11 DEF IInv, SingleUse, Restart, new_backend
  <2>4. AcceptedBeforeExpiry'
    BY <1>11 DEF IInv, AcceptedBeforeExpiry, CallsConsistent, expires_at, Restart, new_backend
  <2>5. RefusedIsGone'
    BY <1>11 DEF IInv, RefusedIsGone, CallsConsistent, Restart, new_backend
  <2> QED
    BY <2>1, <2>2, <2>3, <2>4, <2>5 DEF Parts
<1>12. ASSUME Tick
      PROVE  Parts'
  <2>1. OnePlace'
    BY <1>12, OnePlaceShrinks DEF IInv, Issuing, Pending, InHand, Tick, callVars
  <2>2. CallsConsistent'
    BY <1>12 DEF IInv, CallsConsistent, OnePlace, OnePlaceOf, Issuing, Tick, callVars
  <2>3. SingleUse'
    BY <1>12 DEF IInv, SingleUse, Tick, callVars
  <2>4. AcceptedBeforeExpiry'
    BY <1>12 DEF IInv, AcceptedBeforeExpiry, CallsConsistent, expires_at, Tick, callVars
  <2>5. RefusedIsGone'
    BY <1>12 DEF IInv, RefusedIsGone, CallsConsistent, Tick, callVars
  <2> QED
    BY <2>1, <2>2, <2>3, <2>4, <2>5 DEF Parts
<1>13. ASSUME StepBack
      PROVE  Parts'
  <2>1. OnePlace'
    BY <1>13, OnePlaceShrinks DEF IInv, Issuing, Pending, InHand, StepBack, callVars
  <2>2. CallsConsistent'
    BY <1>13 DEF IInv, CallsConsistent, OnePlace, OnePlaceOf, Issuing, StepBack, callVars
  <2>3. SingleUse'
    BY <1>13 DEF IInv, SingleUse, StepBack, callVars
  <2>4. AcceptedBeforeExpiry'
    BY <1>13 DEF IInv, AcceptedBeforeExpiry, CallsConsistent, expires_at, StepBack, callVars
  <2>5. RefusedIsGone'
    BY <1>13 DEF IInv, RefusedIsGone, CallsConsistent, StepBack, callVars
  <2> QED
    BY <2>1, <2>2, <2>3, <2>4, <2>5 DEF Parts
<1>14. ASSUME UNCHANGED vars
      PROVE  Parts'
  <2>1. OnePlace'
    BY <1>14, OnePlaceShrinks DEF IInv, Issuing, Pending, InHand, vars, callVars
  <2>2. CallsConsistent'
    BY <1>14 DEF IInv, CallsConsistent, OnePlace, OnePlaceOf, Issuing, vars, callVars
  <2>3. SingleUse'
    BY <1>14 DEF IInv, SingleUse, vars, callVars
  <2>4. AcceptedBeforeExpiry'
    BY <1>14 DEF IInv, AcceptedBeforeExpiry, CallsConsistent, expires_at, vars, callVars
  <2>5. RefusedIsGone'
    BY <1>14 DEF IInv, RefusedIsGone, CallsConsistent, vars, callVars
  <2> QED
    BY <2>1, <2>2, <2>3, <2>4, <2>5 DEF Parts
<1>15. Parts'
  BY <1>2, <1>3, <1>4, <1>5, <1>6, <1>7, <1>8, <1>9, <1>10, <1>11, <1>12, <1>13, <1>14
  DEF Next
<1> QED
  BY <1>1, <1>15 DEF IInv, Parts

\* The invariant holds of every reachable state.
THEOREM Invariance == Spec => []IInv
BY InitIInv, NextIInv, PTL DEF Spec

\* consume returns an issued challenge at most once, whatever the threads, the
\* nodes, the backends, the clock steps and the restarts (store.py 119-135).
THEOREM SingleUseHolds == Spec => []SingleUse
<1>1. IInv => SingleUse
  BY DEF IInv
<1> QED
  BY <1>1, Invariance, PTL

\* What consume refuses is gone from the backend it asked (store.py 70-74).
THEOREM RefusedIsGoneHolds == Spec => []RefusedIsGone
<1>1. IInv => RefusedIsGone
  BY DEF IInv
<1> QED
  BY <1>1, Invariance, PTL

\* A challenge is in one place only: with the call that issues it, in one of the
\* backends, or with the one call that took it (store.py 64-75).
THEOREM OnePlaceHolds == Spec => []OnePlace
<1>1. IInv => OnePlace
  BY DEF IInv
<1> QED
  BY <1>1, Invariance, PTL

\* A call holds nothing but what it asked for, and has removed that from the
\* backend it asked (store.py 116-117, 127-135).
THEOREM CallsConsistentHolds == Spec => []CallsConsistent
<1>1. IInv => CallsConsistent
  BY DEF IInv
<1> QED
  BY <1>1, Invariance, PTL

-----------------------------------------------------------------------------
\* With a clock that never steps back nothing is dated in the future, and a
\* call asks for a challenge created before it read the clock.
ClockInv ==
    ClockMonotone =>
        /\ \A id \in Ids : created_at[id] <= clock
        /\ \A t \in Threads :
              /\ now[t] <= clock
              /\ pc[t] \in {"take", "answer", "accepted"} /\ cid[t] \in known =>
                    created_at[cid[t]] <= now[t]

\* ClockInv holds initially.
LEMMA InitClockInv == Init => ClockInv
BY StoreAssumption DEF Init, ClockInv

\* Every step preserves ClockInv.
LEMMA NextClockInv == IInv /\ ClockInv /\ [Next]_vars => ClockInv'
<1> SUFFICES ASSUME IInv, ClockInv, [Next]_vars PROVE ClockInv'
  OBVIOUS
<1>1. TypeOK /\ TypeOK'
  BY NextTypeOK DEF IInv
<1> USE <1>1, StoreAssumption DEF TypeOK, PcValues, Outcomes, Refusals
<1>2. ASSUME NEW t \in Threads, NEW s \in Stores, NEW id \in Ids,
             IssueBegin(t, s, id)
      PROVE  ClockInv'
  BY <1>2 DEF IInv, ClockInv, IssueBegin, fresh_ids, Enter
<1>3. ASSUME NEW t \in Threads, NEW s \in Stores, NEW id \in known \cup {Bogus},
             ConsumeBegin(t, s, id)
      PROVE  ClockInv'
  BY <1>3 DEF ClockInv, ConsumeBegin, Enter
<1>4. ASSUME NEW t \in Threads, NEW s \in Stores, PurgeBegin(t, s)
      PROVE  ClockInv'
  BY <1>4 DEF ClockInv, PurgeBegin, Enter
<1>5. ASSUME NEW t \in Threads, put(t) PROVE ClockInv'
  BY <1>5 DEF ClockInv, put
<1>6. ASSUME NEW t \in Threads, IssueReturn(t) PROVE ClockInv'
  BY <1>6 DEF IInv, CallsConsistent, ClockInv, IssueReturn
<1>7. ASSUME NEW t \in Threads, take(t) PROVE ClockInv'
  BY <1>7 DEF ClockInv, take, pop, returned
<1>8. ASSUME NEW t \in Threads, Answer(t) PROVE ClockInv'
  BY <1>8 DEF ClockInv, Answer, Verdict
<1>9. ASSUME NEW t \in Threads, CallEnd(t) PROVE ClockInv'
  BY <1>9 DEF ClockInv, CallEnd
<1>10. ASSUME NEW t \in Threads, purge_expired(t) PROVE ClockInv'
  BY <1>10 DEF ClockInv, purge_expired, unexpired
<1>11. ASSUME NEW s \in Stores, Restart(s) PROVE ClockInv'
  BY <1>11 DEF ClockInv, Restart, new_backend
<1>12. CASE Tick
  BY <1>12 DEF ClockInv, Tick, callVars
<1>13. CASE StepBack
  BY <1>13 DEF ClockInv, StepBack, callVars
<1>14. CASE UNCHANGED vars
  BY <1>14 DEF ClockInv, vars, callVars
<1> QED
  BY <1>2, <1>3, <1>4, <1>5, <1>6, <1>7, <1>8, <1>9, <1>10, <1>11, <1>12,
     <1>13, <1>14
  DEF Next

\* ClockInv holds of every reachable state.
LEMMA ClockInvariance == Spec => []ClockInv
BY InitClockInv, NextClockInv, Invariance, PTL DEF Spec

\* With a monotone clock a challenge that consume returns is at least 0 and
\* less than TTL seconds old at the time the call read (store.py 126, 133).
THEOREM AcceptedInWindowHolds == ClockMonotone => (Spec => []AcceptedInWindow)
<1> SUFFICES ASSUME ClockMonotone PROVE Spec => []AcceptedInWindow
  OBVIOUS
<1>1. IInv /\ ClockInv => AcceptedInWindow
  <2> SUFFICES ASSUME IInv, ClockInv, NEW t \in Threads,
                      pc[t] = "accepted"
               PROVE  /\ created_at[cid[t]] <= now[t]
                      /\ now[t] - created_at[cid[t]] < TTL
    BY DEF AcceptedInWindow
  <2>1. cid[t] \in known /\ created_at[cid[t]] \in Nat /\ now[t] \in Nat
    BY DEF IInv, TypeOK, CallsConsistent
  <2>2. created_at[cid[t]] <= now[t]
    BY <2>1 DEF ClockInv
  <2>3. now[t] < created_at[cid[t]] + TTL
    BY DEF IInv, AcceptedBeforeExpiry, expires_at
  <2> QED
    BY <2>1, <2>2, <2>3, StoreAssumption
<1> QED
  BY <1>1, Invariance, ClockInvariance, PTL

\* With a monotone clock purge_expired reaps no challenge that is still live
\* when it is reaped, though the reading it filters with is older (139, 79).
THEOREM ReapsOnlyExpiredHolds == ClockMonotone => (Spec => ReapsOnlyExpired)
<1> SUFFICES ASSUME ClockMonotone PROVE Spec => ReapsOnlyExpired
  OBVIOUS
<1> DEFINE Reaping ==
      \A t \in Threads :
         pc[t] = "purge" /\ pc'[t] = "reaped" =>
            \A b \in Backends : \A id \in items[b] \ items'[b] :
               is_expired(id, clock)
<1>1. IInv /\ ClockInv /\ [Next]_vars => [Reaping]_vars
  <2> SUFFICES ASSUME IInv, ClockInv, [Next]_vars,
                      NEW t \in Threads, pc[t] = "purge", pc'[t] = "reaped",
                      NEW b \in Backends, NEW id \in items[b] \ items'[b]
               PROVE  is_expired(id, clock)
    OBVIOUS
  <2>1. purge_expired(t)
    BY DEF Next, vars, callVars, IssueBegin, ConsumeBegin, PurgeBegin, Enter,
           put, IssueReturn, take, Answer, Verdict, CallEnd, purge_expired,
           Restart, Tick, StepBack, IInv, TypeOK, Outcomes, Refusals
  <2>2. id \in Ids /\ is_expired(id, now[t])
    BY <2>1 DEF purge_expired, unexpired, IInv, TypeOK
  <2>3. now[t] <= clock
    BY DEF ClockInv
  <2> QED
    BY <2>2, <2>3, StoreAssumption DEF is_expired, expires_at, IInv, TypeOK
<1> QED
  BY <1>1, Invariance, ClockInvariance, PTL DEF Spec, ReapsOnlyExpired

-----------------------------------------------------------------------------
\* Initially the ids of the shared backend are live and no other is issued.
LEMMA InitRefines == Init => Token!Init
<1> SUFFICES ASSUME Init PROVE Token!Init
  OBVIOUS
<1>1. accepts = [id \in Ids |-> 0]
  BY DEF Init
<1>2. \A id \in drawn : Live(id)
  BY StoreAssumption DEF Init, Live, Backends
<1>3. fateBar \in [Ids -> {"unissued", "live"}]
  BY <1>2 DEF fateBar
<1> QED
  BY <1>1, <1>3 DEF Token!Init

\* A step that draws no id, accepts none and makes none live again is a lapse,
\* of no token at all if nothing changes.
LEMMA LosingIsLapse ==
    ASSUME drawn \subseteq Ids, drawn' = drawn, accepts' = accepts,
           \A id \in drawn : Live(id)' => Live(id)
    PROVE  Token!Next
<1> DEFINE lost == {id \in drawn : Live(id) /\ ~Live(id)'}
<1>1. \A id \in lost : fateBar[id] = "live"
  BY DEF fateBar
<1>2. fateBar' = [id \in Ids |-> IF id \in lost THEN "dead" ELSE fateBar[id]]
  BY DEF fateBar
<1>3. Token!Lapse(lost)
  BY <1>1, <1>2 DEF Token!Lapse
<1>4. lost \in SUBSET Ids
  OBVIOUS
<1> QED
  BY <1>3, <1>4 DEF Token!Next

\* Every step of the stores issues, uses or lapses tokens.
LEMMA NextRefines == IInv /\ [Next]_vars => [Token!Next]_Token!vars
<1> SUFFICES ASSUME IInv, [Next]_vars PROVE Token!Next
  OBVIOUS
<1>1. TypeOK
  BY DEF IInv
<1> USE <1>1 DEF TypeOK
<1>2. ASSUME NEW t \in Threads, NEW s \in Stores, NEW id \in Ids,
             IssueBegin(t, s, id)
      PROVE  Token!Next
  <2>1. id \notin drawn /\ drawn' = drawn \cup {id} /\ accepts' = accepts
    BY <1>2 DEF IssueBegin, fresh_ids
  <2>2. Live(id)'
    BY <1>2 DEF IssueBegin, Enter, Live, Pending
  <2>3. \A i \in Ids \ {id} : Live(i)' <=> Live(i)
    BY <1>2 DEF IssueBegin, Enter, Live, Pending, InHand, is_expired, expires_at
  <2>4. fateBar[id] = "unissued" /\ fateBar' = [fateBar EXCEPT ![id] = "live"]
    BY <2>1, <2>2, <2>3 DEF fateBar
  <2>5. Token!Issue(id)
    BY <2>1, <2>4 DEF Token!Issue
  <2> QED
    BY <2>5 DEF Token!Next
<1>3. ASSUME NEW t \in Threads, Answer(t), Verdict(t) = "accepted"
      PROVE  Token!Next
  <2> PICK id \in Ids \cup {Bogus} : id = cid[t]
    OBVIOUS
  <2>1. InHand(t, id) /\ ~is_expired(id, now[t])
    BY <1>3 DEF Answer, Verdict, InHand, IInv, CallsConsistent
  <2>2. id \in Ids
    BY <2>1 DEF InHand
  <2>3. OnePlaceOf(id)
    BY <2>2 DEF IInv, OnePlace
  <2>4. id \in drawn /\ drawn' = drawn
    BY <1>3, <2>1, <2>3 DEF OnePlaceOf, Answer
  <2>5. Live(id)
    BY <2>1 DEF Live
  <2>6. ~Live(id)'
    BY <1>3, <2>1, <2>3 DEF OnePlaceOf, Answer, Live, Pending, InHand, Verdict
  <2>7. \A i \in Ids \ {id} : Live(i)' <=> Live(i)
    BY <1>3 DEF Answer, Verdict, Live, Pending, InHand, IInv, CallsConsistent,
                is_expired, expires_at
  <2>8. fateBar[id] = "live" /\ fateBar' = [fateBar EXCEPT ![id] = "dead"]
    BY <2>2, <2>4, <2>5, <2>6, <2>7 DEF fateBar
  <2>9. accepts' = [accepts EXCEPT ![id] = @ + 1]
    BY <1>3, <2>2 DEF Answer
  <2>10. Token!Use(id)
    BY <2>8, <2>9 DEF Token!Use
  <2> QED
    BY <2>2, <2>10 DEF Token!Next
<1>4. ASSUME NEW t \in Threads, Answer(t), Verdict(t) # "accepted"
      PROVE  Token!Next
  <2>1. drawn' = drawn /\ accepts' = accepts
    BY <1>4 DEF Answer
  <2>2. \A i \in drawn : Live(i)' => Live(i)
    BY <1>4 DEF Answer, Verdict, Live, Pending, InHand, is_expired, expires_at, Refusals
  <2> QED
    BY <2>1, <2>2, LosingIsLapse
<1>5. ASSUME NEW t \in Threads, NEW s \in Stores, NEW id \in known \cup {Bogus},
             ConsumeBegin(t, s, id)
      PROVE  Token!Next
  BY <1>5, LosingIsLapse
     DEF ConsumeBegin, Enter, Live, Pending, InHand, is_expired, expires_at
<1>6. ASSUME NEW t \in Threads, NEW s \in Stores, PurgeBegin(t, s)
      PROVE  Token!Next
  BY <1>6, LosingIsLapse
     DEF PurgeBegin, Enter, Live, Pending, InHand, is_expired, expires_at
<1>7. ASSUME NEW t \in Threads, put(t) PROVE Token!Next
  <2>1. \A i \in drawn : Live(i)' => Live(i)
    BY <1>7 DEF put, Live, Pending, InHand, is_expired, expires_at
  <2> QED
    BY <1>7, <2>1, LosingIsLapse DEF put
<1>8. ASSUME NEW t \in Threads, IssueReturn(t) PROVE Token!Next
  BY <1>8, LosingIsLapse
     DEF IssueReturn, Live, Pending, InHand, is_expired, expires_at
<1>9. ASSUME NEW t \in Threads, take(t) PROVE Token!Next
  <2>1. \A i \in drawn : Live(i)' => Live(i)
    <3> SUFFICES ASSUME NEW i \in drawn, Live(i)' PROVE Live(i)
      OBVIOUS
    <3>1. CASE \E b \in Backends : i \in items'[b]
      BY <3>1, <1>9 DEF take, pop, Live
    <3>2. CASE \E u \in Threads : Pending(u, i)'
      BY <3>2, <1>9 DEF take, Live, Pending
    <3>3. CASE \E u \in Threads : InHand(u, i)' /\ ~is_expired(i, now[u])'
      <4>1. PICK u \in Threads : InHand(u, i)' /\ ~is_expired(i, now[u])'
        BY <3>3
      <4>2. CASE u = t
        <5>1. i = cid[t] /\ i \in items[backend[at[t]]]
          BY <4>1, <4>2, <1>9 DEF take, returned, InHand
        <5> QED
          BY <5>1 DEF Live
      <4>3. CASE u # t
        BY <4>1, <4>3, <1>9 DEF take, InHand, Live, is_expired, expires_at
      <4> QED
        BY <4>2, <4>3
    <3> QED
      BY <3>1, <3>2, <3>3 DEF Live
  <2> QED
    BY <1>9, <2>1, LosingIsLapse DEF take
<1>10. ASSUME NEW t \in Threads, CallEnd(t) PROVE Token!Next
  BY <1>10, LosingIsLapse
     DEF CallEnd, Live, Pending, InHand, is_expired, expires_at
<1>11. ASSUME NEW t \in Threads, purge_expired(t) PROVE Token!Next
  <2>1. \A i \in drawn : Live(i)' => Live(i)
    BY <1>11 DEF purge_expired, unexpired, Live, Pending, InHand, is_expired,
                 expires_at
  <2> QED
    BY <1>11, <2>1, LosingIsLapse DEF purge_expired
<1>12. ASSUME NEW s \in Stores, Restart(s) PROVE Token!Next
  <2>1. \A i \in drawn : Live(i)' => Live(i)
    BY <1>12 DEF Restart, new_backend, Live, Pending, InHand, is_expired, expires_at
  <2> QED
    BY <1>12, <2>1, LosingIsLapse DEF Restart
<1>13. CASE Tick \/ StepBack \/ UNCHANGED vars
  BY <1>13, LosingIsLapse
     DEF Tick, StepBack, vars, callVars, Live, Pending, InHand, is_expired, expires_at
<1> QED
  BY <1>2, <1>3, <1>4, <1>5, <1>6, <1>7, <1>8, <1>9, <1>10, <1>11, <1>12, <1>13
  DEF Next

\* Whatever the threads, nodes, backends, clock steps and restarts do, callers
\* see single-use tokens: each is issued once and used at most once, and one
\* that was used or lost never comes back (store.py 1-6: "consumed exactly once").
THEOREM StoreRefinesToken == Spec => TokenSpec
BY InitRefines, NextRefines, Invariance, PTL DEF Spec, TokenSpec, Token!Spec
=============================================================================
