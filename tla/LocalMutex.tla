------------------------------ MODULE LocalMutex ------------------------------
(***************************************************************************)
(* The keyed mutex of pkg/mutex: LocalProvider.Lock and the unlock function *)
(* it returns.  HTTP handlers and download tasks of the server serialise    *)
(* their work on one comic with it.                                         *)
(*                                                                          *)
(* The provider keeps a table from keys to lockers, each a sync.Mutex with  *)
(* a count of its users; the user that brings the count to zero deletes the *)
(* key.  Lookup, count and lock are three separate steps.                   *)
(***************************************************************************)
EXTENDS Integers, FiniteSets

CONSTANTS Procs,    \* goroutines that call Lock, any number of times
          Keys,     \* keys they lock, such as "comic/1"
          Lockers,  \* localLocker objects; a garbage-collected one is reused
          Nil      \* "no locker"

ASSUME LockersAssumption ==
    /\ IsFiniteSet(Procs)
    /\ Nil \notin Lockers

VARIABLES
    table,   \* [Keys -> Lockers or Nil]: p.m, the sync.Map
    count,   \* [Lockers -> localLocker.count]
    pc,      \* [Procs -> control point in Lock or in the unlock function]
    key,     \* [Procs -> the key the goroutine is locking]
    locker   \* [Procs -> the locker it got from the table, n in the code]

mutexVars == <<table, count, pc, key, locker>>

\* The points at which a goroutine has added itself to the count of its locker,
\* and the points at which it owns the sync.Mutex of its locker.
Counted == {"waiting", "locked"}
Owning  == {"locked", "deleting", "unlocking"}

Owner(l) == {p \in Procs : pc[p] \in Owning /\ locker[p] = l}

\* A locker nobody refers to: &localLocker{} in LoadOrStore makes a fresh one.
Fresh(l) == /\ \A k \in Keys : table[k] # l
            /\ \A p \in Procs : pc[p] = "idle" \/ locker[p] # l

-------------------------------------------------------------------------------
MutexInit ==
    /\ table = [k \in Keys |-> Nil]
    /\ count = [l \in Lockers |-> 0]
    /\ pc = [p \in Procs |-> "idle"]
    /\ key \in [Procs -> Keys]
    /\ locker \in [Procs -> Lockers]

\* p.m.LoadOrStore(key, &localLocker{}): one atomic step of the sync.Map.
Load(p, k) ==
    /\ pc[p] = "idle" /\ table[k] # Nil
    /\ locker' = [locker EXCEPT ![p] = table[k]]
    /\ key' = [key EXCEPT ![p] = k]
    /\ pc' = [pc EXCEPT ![p] = "loaded"]
    /\ UNCHANGED <<table, count>>

Store(p, k, l) ==
    /\ pc[p] = "idle" /\ table[k] = Nil
    /\ Fresh(l)
    /\ table' = [table EXCEPT ![k] = l]
    /\ locker' = [locker EXCEPT ![p] = l]
    /\ key' = [key EXCEPT ![p] = k]
    /\ pc' = [pc EXCEPT ![p] = "loaded"]
    /\ count' = [count EXCEPT ![l] = 0]

\* Faulty variant: n.count.Store(1).
CountSet(p) ==
    /\ pc[p] = "loaded"
    /\ count' = [count EXCEPT ![locker[p]] = 1]
    /\ pc' = [pc EXCEPT ![p] = "waiting"]
    /\ UNCHANGED <<table, key, locker>>

\* n.count.Add(1)
Count(p) ==
    /\ pc[p] = "loaded"
    /\ count' = [count EXCEPT ![locker[p]] = @ + 1]
    /\ pc' = [pc EXCEPT ![p] = "waiting"]
    /\ UNCHANGED <<table, key, locker>>

\* n.mu.Lock(): Lock returns.
Acquire(p) ==
    /\ pc[p] = "waiting"
    /\ Owner(locker[p]) = {}
    /\ pc' = [pc EXCEPT ![p] = "locked"]
    /\ UNCHANGED <<table, count, key, locker>>

\* Faulty variant: the last user leaves the key in the table.
UncountKeepsKey(p) ==
    /\ pc[p] = "locked"
    /\ count' = [count EXCEPT ![locker[p]] = @ - 1]
    /\ pc' = [pc EXCEPT ![p] = "unlocking"]
    /\ UNCHANGED <<table, key, locker>>

\* The unlock function: n.count.Add(-1) == 0 decides whether the key goes.
Uncount(p) ==
    /\ pc[p] = "locked"
    /\ count' = [count EXCEPT ![locker[p]] = @ - 1]
    /\ pc' = [pc EXCEPT ![p] = IF count'[locker[p]] = 0 THEN "deleting" ELSE "unlocking"]
    /\ UNCHANGED <<table, key, locker>>

\* Faulty variant: the unlock function returns once it has deleted the key.
DeleteStops(p) ==
    /\ pc[p] = "deleting"
    /\ table' = [table EXCEPT ![key[p]] = Nil]
    /\ UNCHANGED <<count, pc, key, locker>>

\* p.m.Delete(key) deletes the entry of the key, whichever locker it holds.
Delete(p) ==
    /\ pc[p] = "deleting"
    /\ table' = [table EXCEPT ![key[p]] = Nil]
    /\ pc' = [pc EXCEPT ![p] = "unlocking"]
    /\ UNCHANGED <<count, key, locker>>

\* n.mu.Unlock()
Unlock(p) ==
    /\ pc[p] = "unlocking"
    /\ pc' = [pc EXCEPT ![p] = "idle"]
    /\ UNCHANGED <<table, count, key, locker>>

-------------------------------------------------------------------------------
LoadOrStore(p) == \E k \in Keys : Load(p, k) \/ \E l \in Lockers : Store(p, k, l)

Release(p) == Uncount(p) \/ Delete(p) \/ Unlock(p)

MutexNext == \E p \in Procs : LoadOrStore(p) \/ Count(p) \/ Acquire(p) \/ Release(p)

MutexSpec == MutexInit /\ [][MutexNext]_mutexVars

(***************************************************************************)
(* A goroutine inside Lock or unlock keeps running, every holder unlocks,  *)
(* and sync.Mutex, in its starvation mode, hands the lock to a waiter that *)
(* keeps asking.  Nobody has to call Lock.                                 *)
(***************************************************************************)
Fairness == \A p \in Procs : WF_mutexVars(Count(p)) /\ SF_mutexVars(Acquire(p)) /\ WF_mutexVars(Release(p))

FairMutexSpec == MutexSpec /\ Fairness

-------------------------------------------------------------------------------
MutexTypeOK ==
    /\ table \in [Keys -> Lockers \cup {Nil}]
    /\ count \in [Lockers -> Nat]
    /\ pc \in [Procs -> {"idle", "loaded", "waiting", "locked", "deleting", "unlocking"}]
    /\ key \in [Procs -> Keys]
    /\ locker \in [Procs -> Lockers]

\* The goroutines that the count of locker l should count.
Users(l) == {p \in Procs : pc[p] \in Counted /\ locker[p] = l}

\* The count of a locker in use is the number of goroutines that wait for it or
\* hold it: it never goes negative and reaches zero with its last user.
CountIsUsers == \A l \in Lockers : ~Fresh(l) => count[l] = Cardinality(Users(l))

\* The table holds no key that nobody uses: when the last unlock returns, the
\* provider is empty again, whatever the order of lookups and deletions was.
NoStaleKey ==
    \A k \in Keys : table[k] # Nil =>
        \E p \in Procs : /\ pc[p] \in {"loaded", "waiting", "locked", "deleting"}
                         /\ key[p] = k /\ locker[p] = table[k]

\* A goroutine that calls Lock gets the lock.
LockIsGranted == \A p \in Procs : pc[p] = "loaded" ~> pc[p] = "locked"

\* A locker belongs to one key, among its users and in the table.
LockerHasOneKey ==
    \A p \in Procs : pc[p] # "idle" =>
        /\ \A q \in Procs : pc[q] # "idle" /\ locker[q] = locker[p] => key[q] = key[p]
        /\ \A k \in Keys : table[k] = locker[p] => key[p] = k

\* The inductive invariant behind NoStaleKey.
MutexInv == MutexTypeOK /\ LockerHasOneKey /\ CountIsUsers /\ NoStaleKey

\* Two goroutines never hold the same key at once.
MutualExclusion ==
    \A p, q \in Procs : p # q /\ pc[p] = "locked" /\ pc[q] = "locked" => key[p] # key[q]
===============================================================================
