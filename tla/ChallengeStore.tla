--------------------------- MODULE ChallengeStore ---------------------------
(***************************************************************************)
(* src/passkit/challenge/store.py: ChallengeStore objects (one per node),  *)
(* the threads that call them, and the NonceBackends the stores keep their *)
(* challenges in.  A backend call is one atomic step here; the lock that   *)
(* makes it so is the subject of InMemoryNonceBackend.                     *)
(*                                                                         *)
(* The wall clock (time.time()) is read by the store before it calls the   *)
(* backend, so "now" may be stale by the time it is used, and the clock    *)
(* may step back.                                                          *)
(***************************************************************************)
EXTENDS Naturals, FiniteSets

CONSTANTS
    Ids,            \* challenge ids secrets.token_urlsafe may draw (all fresh)
    Bogus,          \* an id that no store ever issued
    Threads,
    Stores,         \* ChallengeStore objects, one per node
    Shared,         \* the backend object a deployment plugs in
    SharedStores,   \* the stores constructed with backend=Shared
    Seeds,          \* ids already in Shared, and known, at the start
    TTL,            \* ttl_seconds
    MaxTime,        \* bound on the clock
    ClockMonotone,  \* FALSE: time.time() may step back
    TakeFilters     \* FALSE: a backend whose take returns expired challenges

\* store.py 98-99 refuses a TTL <= 0; an id is drawn from 128 random bits, so
\* it never equals one a caller made up.
ASSUME StoreAssumption ==
    /\ TTL \in Nat \ {0}
    /\ MaxTime \in Nat
    /\ ClockMonotone \in BOOLEAN
    /\ TakeFilters \in BOOLEAN
    /\ SharedStores \subseteq Stores
    /\ Seeds \subseteq Ids
    /\ Bogus \notin Ids
    /\ Shared \notin Stores

\* The private InMemoryNonceBackend of store s is named after the store.
Backends == Stores \cup {Shared}

VARIABLES
    clock,      \* time.time()
    items,      \* items[b]: ids held by backend b
    backend,    \* backend[s]: the _backend of store s
    drawn,      \* ids some issue call has drawn
    known,      \* ids some issue call has returned
    created_at,
    pc,         \* where thread t is in its call
    at,         \* the store thread t is calling
    cid,        \* the challenge id of the call
    now,        \* the clock reading of the call
    ch,         \* what take returned: {} for None, else {cid}
    popped,     \* history: the take found the id in the backend
    accepts     \* history: how often consume returned this id

callVars == <<pc, at, cid, now, ch, popped>>
vars == <<clock, items, backend, drawn, known, created_at, callVars, accepts>>

Refusals == {"replay_or_unknown", "expired"}
Outcomes == Refusals \cup {"accepted", "reaped"}
PcValues == {"idle", "put", "return", "take", "answer", "purge"} \cup Outcomes

expires_at(id) == created_at[id] + TTL

is_expired_late(id, time) == time > expires_at(id)
is_expired(id, time) == time >= expires_at(id)

\* Line 104: `backend or InMemoryNonceBackend()`.  The Protocol has __len__,
\* so Python finds an empty backend false and the store makes its own.
SelectBackend(s, held) ==
    IF s \in SharedStores /\ held # {} THEN Shared ELSE s

Init ==
    /\ clock = 0
    /\ items = [b \in Backends |-> IF b = Shared THEN Seeds ELSE {}]
    /\ backend = [s \in Stores |-> SelectBackend(s, Seeds)]
    /\ drawn = Seeds
    /\ known = Seeds
    /\ created_at = [id \in Ids |-> 0]
    /\ pc = [t \in Threads |-> "idle"]
    /\ at \in {[t \in Threads |-> s] : s \in Stores}
    /\ cid = [t \in Threads |-> Bogus]
    /\ now = [t \in Threads |-> 0]
    /\ ch = [t \in Threads |-> {}]
    /\ popped = [t \in Threads |-> FALSE]
    /\ accepts = [id \in Ids |-> 0]

-----------------------------------------------------------------------------
\* A call begins: the thread picks a store and reads the clock.
Enter(t, s, id, step) ==
    /\ pc[t] = "idle"
    /\ pc' = [pc EXCEPT ![t] = step]
    /\ at' = [at EXCEPT ![t] = s]
    /\ cid' = [cid EXCEPT ![t] = id]
    /\ now' = [now EXCEPT ![t] = clock]

\* secrets.token_urlsafe(16) repeats no id.
any_id == Ids
fresh_ids == Ids \ drawn

\* issue(): the challenge is built from one clock reading and a fresh id.
IssueBegin(t, s, id) ==
    /\ id \in fresh_ids
    /\ Enter(t, s, id, "put")
    /\ drawn' = drawn \cup {id}
    /\ created_at' = [created_at EXCEPT ![id] = clock]
    /\ UNCHANGED <<clock, items, backend, known, ch, popped, accepts>>

put(t) ==
    /\ pc[t] = "put"
    /\ items' = [items EXCEPT ![backend[at[t]]] = @ \cup {cid[t]}]
    /\ pc' = [pc EXCEPT ![t] = "return"]
    /\ UNCHANGED <<clock, backend, drawn, known, created_at, at, cid, now,
                   ch, popped, accepts>>

IssueReturn(t) ==
    /\ pc[t] = "return"
    /\ known' = known \cup {cid[t]}
    /\ pc' = [pc EXCEPT ![t] = "idle"]
    /\ UNCHANGED <<clock, items, backend, drawn, created_at, at, cid, now,
                   ch, popped, accepts>>

\* consume(): the clock is read before the backend is asked.
ConsumeBegin(t, s, id) ==
    /\ Enter(t, s, id, "take")
    /\ UNCHANGED <<clock, items, backend, drawn, known, created_at, ch,
                   popped, accepts>>

\* The pop happens first: an expired challenge leaves the backend too.
peek(t) == {}
pop_if_live(t) == {id \in {cid[t]} \cap Ids : ~is_expired(id, now[t])}
pop(t) == {cid[t]}

\* What take returns when the pop has found the challenge, or has not.
returned_unchecked(t, found) == {cid[t]}
returned(t, found) ==
    IF found /\ ~(TakeFilters /\ is_expired(cid[t], now[t])) THEN {cid[t]} ELSE {}

take(t) ==
    LET b == backend[at[t]]
        found == cid[t] \in items[b]
    IN  /\ pc[t] = "take"
        /\ items' = [items EXCEPT ![b] = @ \ pop(t)]
        /\ popped' = [popped EXCEPT ![t] = found]
        /\ ch' = [ch EXCEPT ![t] = returned(t, found)]
        /\ pc' = [pc EXCEPT ![t] = "answer"]
        /\ UNCHANGED <<clock, backend, drawn, known, created_at, at, cid, now,
                       accepts>>

\* What consume makes of take's result (lines 128-135).
VerdictUnchecked(t) == IF ch[t] = {} THEN "replay_or_unknown" ELSE "accepted"
Verdict(t) ==
    IF ch[t] = {} THEN "replay_or_unknown"
    ELSE IF is_expired(cid[t], now[t]) THEN "expired"
    ELSE "accepted"

Answer(t) ==
    /\ pc[t] = "answer"
    /\ pc' = [pc EXCEPT ![t] = Verdict(t)]
    /\ accepts' = [id \in Ids |->
                     IF id = cid[t] /\ Verdict(t) = "accepted"
                     THEN accepts[id] + 1 ELSE accepts[id]]
    /\ UNCHANGED <<clock, items, backend, drawn, known, created_at, at, cid,
                   now, ch, popped>>

CallEnd(t) ==
    /\ pc[t] \in Outcomes
    /\ pc' = [pc EXCEPT ![t] = "idle"]
    /\ UNCHANGED <<clock, items, backend, drawn, known, created_at, at, cid,
                   now, ch, popped, accepts>>

\* What purge_expired leaves in a backend.
reaped_when_created(held, time) == {id \in held : time < created_at[id]}
unexpired(held, time) == {id \in held : ~is_expired(id, time)}

\* purge_expired(): the argument time.time() is evaluated before the call.
PurgeBegin(t, s) ==
    /\ Enter(t, s, Bogus, "purge")
    /\ UNCHANGED <<clock, items, backend, drawn, known, created_at, ch,
                   popped, accepts>>

purge_expired(t) ==
    LET b == backend[at[t]] IN
    /\ pc[t] = "purge"
    /\ items' = [items EXCEPT ![b] = unexpired(@, now[t])]
    /\ pc' = [pc EXCEPT ![t] = "reaped"]
    /\ UNCHANGED <<clock, backend, drawn, known, created_at, at, cid, now,
                   ch, popped, accepts>>

new_backend(s) == {}

\* The node of store s stops and starts again: its calls are lost, its private
\* backend is empty ("not durable across restart"), __init__ runs again.
Restart(s) ==
    /\ items' = [items EXCEPT ![s] = new_backend(s)]
    /\ backend' = [backend EXCEPT ![s] = SelectBackend(s, items[Shared])]
    /\ pc' = [t \in Threads |-> IF at[t] = s THEN "idle" ELSE pc[t]]
    /\ UNCHANGED <<clock, drawn, known, created_at, at, cid, now, ch, popped,
                   accepts>>

Tick ==
    /\ clock < MaxTime
    /\ clock' = clock + 1
    /\ UNCHANGED <<items, backend, drawn, known, created_at, callVars, accepts>>

StepBack ==
    /\ ~ClockMonotone
    /\ clock > 0
    /\ clock' = clock - 1
    /\ UNCHANGED <<items, backend, drawn, known, created_at, callVars, accepts>>

Next ==
    \/ \E t \in Threads, s \in Stores, id \in Ids : IssueBegin(t, s, id)
    \/ \E t \in Threads, s \in Stores, id \in known \cup {Bogus} :
          ConsumeBegin(t, s, id)
    \/ \E t \in Threads, s \in Stores : PurgeBegin(t, s)
    \/ \E t \in Threads :
          \/ put(t) \/ IssueReturn(t)
          \/ take(t) \/ Answer(t) \/ CallEnd(t)
          \/ purge_expired(t)
    \/ \E s \in Stores : Restart(s)
    \/ Tick \/ StepBack

Spec == Init /\ [][Next]_vars

-----------------------------------------------------------------------------
\* Type invariant.  A thread past the start of a call carries the id it was
\* called with; take can only hand back that id.
TypeOK ==
    /\ clock \in Nat
    /\ items \in [Backends -> SUBSET Ids]
    /\ backend \in [Stores -> Backends]
    /\ drawn \subseteq Ids
    /\ known \subseteq drawn
    /\ created_at \in [Ids -> Nat]
    /\ pc \in [Threads -> PcValues]
    /\ at \in [Threads -> Stores]
    /\ cid \in [Threads -> Ids \cup {Bogus}]
    /\ now \in [Threads -> Nat]
    /\ ch \in [Threads -> SUBSET Ids]
    /\ popped \in [Threads -> BOOLEAN]
    /\ accepts \in [Ids -> Nat]
    /\ \A t \in Threads : pc[t] \in {"put", "return"} => cid[t] \in drawn

\* Where a challenge can be: with the issue call that drew it, in a backend, or
\* taken by a consume call that has not answered yet.
Issuing(t, id) == pc[t] \in {"put", "return"} /\ cid[t] = id
Pending(t, id) == pc[t] = "put" /\ cid[t] = id
InHand(t, id) == pc[t] = "answer" /\ id \in ch[t]

OnePlaceOf(id) ==
    /\ \A b, c \in Backends : id \in items[b] /\ id \in items[c] => b = c
    /\ \A t, u \in Threads : Issuing(t, id) /\ Issuing(u, id) => t = u
    /\ \A t, u \in Threads : InHand(t, id) /\ InHand(u, id) => t = u
    /\ \A t, u \in Threads : ~(Pending(t, id) /\ InHand(u, id))
    /\ \A t \in Threads, b \in Backends :
          id \in items[b] => ~Pending(t, id) /\ ~InHand(t, id)
    /\ id \notin drawn => accepts[id] = 0
    /\ accepts[id] > 0 \/ id \notin drawn =>
          /\ \A b \in Backends : id \notin items[b]
          /\ \A t \in Threads : ~Pending(t, id) /\ ~InHand(t, id)

\* A challenge is in one place only, and nowhere before it is drawn and once it
\* was accepted: the put/pop discipline of lines 64-75 over several backends.
OnePlace == \A id \in Ids : OnePlaceOf(id)

\* A caller learns an id only after it was put, asks only for such ids (or for
\* one nobody issued), and take hands a call nothing but what it asked for and
\* has removed from the backend: the order of lines 116-117 and 127-135.
CallsConsistent ==
    \A t \in Threads :
        /\ pc[t] = "put" => cid[t] \notin known
        /\ pc[t] \in {"take", "answer", "purge"} \cup Outcomes =>
              cid[t] \in known \cup {Bogus}
        /\ pc[t] = "answer" => /\ ch[t] \subseteq {cid[t]}
                              /\ cid[t] \notin items[backend[at[t]]]
        /\ pc[t] = "accepted" => cid[t] \in known

\* No issued challenge is ever accepted twice, whatever the threads, stores,
\* clock steps and restarts (store.py 1-6: "consumed exactly once").
SingleUse == \A id \in Ids : accepts[id] <= 1

\* A refused id is not left in the backend that refused it, so no clock step
\* and no later call can bring it back (line 74: "already popped").
RefusedIsGone ==
    \A t \in Threads :
        pc[t] \in Refusals => cid[t] \notin items[backend[at[t]]]

\* With a clock that never steps back, an accepted challenge was issued no
\* later than the reading it was checked against: its age is in 0 .. TTL - 1,
\* however stale the reading is when it is used and though the backend may hand
\* out expired challenges (lines 126 and 133).
AcceptedInWindow ==
    \A t \in Threads :
        pc[t] = "accepted" => /\ created_at[cid[t]] <= now[t]
                              /\ now[t] - created_at[cid[t]] < TTL

\* With such a clock purge_expired, which filters with a reading taken before
\* it got the backend, never reaps a challenge that is still live.
ReapsOnlyExpired ==
    [][\A t \in Threads :
         pc[t] = "purge" /\ pc'[t] = "reaped" =>
            \A b \in Backends : \A id \in items[b] \ items'[b] :
               is_expired(id, clock)]_vars

\* consume refuses no challenge that is stored, unexpired, and was issued by a
\* node sharing the backend: store.py 7-9 and SECURITY_MODEL.md 47 promise that
\* a shared backend serves every node.
NeverRefusesLive ==
    [][\A t \in Threads :
         pc[t] = "take" /\ pc'[t] = "answer" /\ ch'[t] = {} /\ at[t] \in SharedStores =>
            \A s \in SharedStores :
               cid[t] \in items[backend[s]] => is_expired(cid[t], now[t])]_vars

\* The docstring of consume (line 124): code "expired" means present but past
\* its TTL, so such a challenge is not reported as replay_or_unknown.
ExpiredReported ==
    \A t \in Threads : pc[t] = "replay_or_unknown" => ~popped[t]

\* The abstract life of an id, and the refinement.
Live(id) ==
    \/ \E b \in Backends : id \in items[b]
    \/ \E t \in Threads :
          Pending(t, id) \/ (InHand(t, id) /\ ~is_expired(id, now[t]))

fateBar ==
    [id \in Ids |-> IF id \notin drawn THEN "unissued"
                    ELSE IF Live(id) THEN "live" ELSE "dead"]

Token == INSTANCE SingleUseToken WITH fate <- fateBar, uses <- accepts

\* Stores, threads and backends together implement single-use tokens: each step
\* issues, uses or lapses tokens as SingleUseToken allows, or changes nothing.
TokenSpec == Token!Spec
=============================================================================
