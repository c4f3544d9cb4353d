------------------------ MODULE InMemoryNonceBackend ------------------------
(***************************************************************************)
(* src/passkit/challenge/store.py 57-86 one bytecode-sized step at a time: *)
(* put, take, purge_expired and __len__ of one backend object, called by   *)
(* several threads, each holding self._lock around its dict operations.    *)
(* Shown to implement NonceBackend.                                        *)
(***************************************************************************)
EXTENDS Naturals, FiniteSets

CONSTANTS Ids, Threads, MaxNow, expires_at,
          Free      \* nobody holds the lock

ASSUME InMemoryAssumption ==
    /\ IsFiniteSet(Ids)
    /\ MaxNow \in Nat
    /\ expires_at \in [Ids -> Nat]
    /\ Free \notin Threads

VARIABLES
    items,      \* self._items: the ids it holds
    lock,       \* self._lock: its holder, or Free
    pc,
    op,         \* op[t]: the call thread t is making
    result,     \* result[t]: its return value
    unseen,     \* unseen[t]: entries the comprehension of purge has not reached
    expired,    \* expired[t]: the list of ids purge has still to delete
    before      \* history: the entries when the lock was last acquired

vars == <<items, lock, pc, op, result, unseen, expired, before>>

phaseBar ==
    [t \in Threads |-> IF pc[t] \in {"idle", "done"} THEN pc[t] ELSE "called"]

resultBar ==
    [t \in Threads |-> IF pc[t] = "done" THEN result[t]
                       ELSE [taken |-> {}, count |-> 0]]

\* A critical section takes effect when it releases the lock.
itemsBar == IF lock = Free THEN items ELSE before

Atomic == INSTANCE NonceBackend
              WITH items <- itemsBar, phase <- phaseBar, result <- resultBar

is_expired(id, now) == now >= expires_at[id]

Init ==
    /\ items = {}
    /\ lock = Free
    /\ pc = [t \in Threads |-> "idle"]
    /\ op = [t \in Threads |-> [name |-> "len", id |-> Atomic!SomeId, now |-> 0]]
    /\ result = [t \in Threads |-> Atomic!Nothing]
    /\ unseen = [t \in Threads |-> {}]
    /\ expired = [t \in Threads |-> {}]
    /\ before = {}

-----------------------------------------------------------------------------
Invoke(t, o) ==
    /\ pc[t] = "idle"
    /\ pc' = [pc EXCEPT ![t] = "enter"]
    /\ op' = [op EXCEPT ![t] = o]
    /\ result' = [result EXCEPT ![t] = Atomic!Nothing]
    /\ UNCHANGED <<items, lock, unseen, expired, before>>

take_needs_no_lock(t) == lock = Free \/ op[t].name = "take"
can_acquire(t) == lock = Free

\* `with self._lock`: threading.Lock is neither re-entrant nor first-come.
Acquire(t) ==
    /\ pc[t] = "enter"
    /\ can_acquire(t)
    /\ lock' = t
    /\ before' = items
    /\ pc' = [pc EXCEPT ![t] = op[t].name]
    /\ unseen' = [unseen EXCEPT ![t] = IF op[t].name = "purge" THEN items ELSE {}]
    /\ UNCHANGED <<items, op, result, expired>>

put(t) ==
    /\ pc[t] = "put"
    /\ items' = items \cup {op[t].id}
    /\ pc' = [pc EXCEPT ![t] = "exit"]
    /\ UNCHANGED <<lock, op, result, unseen, expired, before>>

\* self._items.pop(challenge_id, None)
take(t) ==
    /\ pc[t] = "take"
    /\ items' = items \ {op[t].id}
    /\ result' = [result EXCEPT ![t].taken = items \cap {op[t].id}]
    /\ pc' = [pc EXCEPT ![t] = "check"]
    /\ UNCHANGED <<lock, op, unseen, expired, before>>

\* if ch is None / if ch.is_expired(now): return None
live_or_not(ids, now) == ids
live(ids, now) == {id \in ids : ~is_expired(id, now)}

take_check(t) ==
    /\ pc[t] = "check"
    /\ result' = [result EXCEPT ![t].taken = live(@, op[t].now)]
    /\ pc' = [pc EXCEPT ![t] = "exit"]
    /\ UNCHANGED <<items, lock, op, unseen, expired, before>>

same_entry(ids, id) == ids
next_entries(ids, id) == ids \ {id}

\* The list comprehension looks at one entry per step.
purge_scan(t, id) ==
    /\ pc[t] = "purge"
    /\ id \in unseen[t]
    /\ unseen' = [unseen EXCEPT ![t] = next_entries(@, id)]
    /\ expired' = [expired EXCEPT ![t] =
                     IF is_expired(id, op[t].now) THEN @ \cup {id} ELSE @]
    /\ UNCHANGED <<items, lock, pc, op, result, before>>

\* len(expired) is what purge_expired returns.
purge_scanned(t) ==
    /\ pc[t] = "purge"
    /\ unseen[t] = {}
    /\ result' = [result EXCEPT ![t].count = Cardinality(expired[t])]
    /\ pc' = [pc EXCEPT ![t] = "delete"]
    /\ UNCHANGED <<items, lock, op, unseen, expired, before>>

\* del self._items[cid] raises KeyError if cid is gone.
purge_delete(t, id) ==
    /\ pc[t] = "delete"
    /\ id \in expired[t] \cap items
    /\ items' = items \ {id}
    /\ expired' = [expired EXCEPT ![t] = @ \ {id}]
    /\ UNCHANGED <<lock, pc, op, result, unseen, before>>

purge_deleted(t) ==
    /\ pc[t] = "delete"
    /\ expired[t] = {}
    /\ pc' = [pc EXCEPT ![t] = "exit"]
    /\ UNCHANGED <<items, lock, op, result, unseen, expired, before>>

len(t) ==
    /\ pc[t] = "len"
    /\ result' = [result EXCEPT ![t].count = Cardinality(items)]
    /\ pc' = [pc EXCEPT ![t] = "exit"]
    /\ UNCHANGED <<items, lock, op, unseen, expired, before>>

Release(t) ==
    /\ pc[t] = "exit"
    /\ lock' = Free
    /\ pc' = [pc EXCEPT ![t] = "done"]
    /\ UNCHANGED <<items, op, result, unseen, expired, before>>

Return(t) ==
    /\ pc[t] = "done"
    /\ pc' = [pc EXCEPT ![t] = "idle"]
    /\ UNCHANGED <<items, lock, op, result, unseen, expired, before>>

\* What the holder of the lock still does.
Section(t) ==
    \/ put(t) \/ take(t) \/ take_check(t) \/ len(t)
    \/ \E id \in Ids : purge_scan(t, id) \/ purge_delete(t, id)
    \/ purge_scanned(t) \/ purge_deleted(t)
    \/ Release(t)

Next ==
    \E t \in Threads :
        \/ \E o \in Atomic!Ops : Invoke(t, o)
        \/ Acquire(t) \/ Section(t) \/ Return(t)

\* Python keeps running a thread that can run.  Nothing is assumed of who gets
\* the lock, nor that a thread calls again.
Fairness == \A t \in Threads : WF_vars(Section(t))

Spec == Init /\ [][Next]_vars /\ Fairness

-----------------------------------------------------------------------------
SectionPcs == {"put", "take", "check", "purge", "delete", "len", "exit"}

\* Only the holder of the lock is between the two ends of a with-block.
OnlyHolderInside == \A t \in Threads : (pc[t] \in SectionPcs) <=> (lock = t)

\* purge_expired never raises: while it iterates the dict keeps its entries
\* (else RuntimeError), and what it deletes is there (else KeyError), with
\* other threads calling take and put all the while (lines 79-81).
PurgeNeverRaises ==
    \A t \in Threads :
        /\ pc[t] = "purge" => unseen[t] \cup expired[t] \subseteq items
                              /\ items = before
        /\ pc[t] = "delete" => expired[t] \subseteq items

\* Every interleaving of the calls is one of calls that take effect in a single
\* step each, with the results of that order: the Protocol's "atomically".
ImplementsAtomic == Atomic!Spec

\* No call keeps the lock: purge's loops end, and no call made inside a
\* with-block needs the lock again.
LockIsFreed == \A t \in Threads : (lock = t) ~> (lock # t)
=============================================================================
