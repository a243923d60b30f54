--------------------------- MODULE ServiceFactory ---------------------------
(***************************************************************************)
(* Worker start-up: every worker thread calls                             *)
(* ProxyServiceFactoryFactory::create_factory (src/src/service/cocaine.rs *)
(* 196-221), which takes the next pool channel pair from the iterator     *)
(* behind a Mutex and spawns a PoolTask that consumes its receiver.       *)
(*                                                                         *)
(*   self.channels.lock().unwrap().next().expect(...)                      *)
(*                                                                         *)
(* The guard is a temporary of the `let`, so it is held through next()   *)
(* and expect(); a panic in expect unwinds with the lock held and poisons *)
(* the Mutex. The iterator (supplied by the caller) is a cursor over the  *)
(* pairs whose next() reads the current pair and then advances.          *)
(***************************************************************************)
EXTENDS Integers, FiniteSets

CONSTANTS
  Workers,    \* the server's worker threads
  PairCounts, \* the numbers of channel pairs the iterator may yield
  NoOne

ASSUME PairCounts \subseteq Nat /\ NoOne \notin Workers

VARIABLES
  pairs,      \* the number of pairs this start-up's iterator yields
  lock,       \* the thread holding the Mutex, or NoOne
  poisoned,   \* the Mutex's poison flag
  cursor,     \* the iterator's position: the next pair it yields
  pc,         \* pc[w]: where worker w is in create_factory
  owns,       \* owns[w]: the pair next() handed w (0 before)
  pools       \* the PoolTasks spawned: <<worker, pair>>

vars == <<pairs, lock, poisoned, cursor, pc, owns, pools>>

(* self.channels.lock().unwrap(): wait for the Mutex, then take it.       *)
Lock(w) ==
  /\ pc[w] = "start" /\ lock = NoOne /\ ~poisoned
  /\ lock' = w /\ pc' = [pc EXCEPT ![w] = "locked"]
  /\ UNCHANGED <<pairs, poisoned, cursor, owns, pools>>

(* unwrap() on a poisoned Mutex panics the thread.                         *)
LockPoisoned(w) ==
  /\ pc[w] = "start" /\ lock = NoOne /\ poisoned
  /\ pc' = [pc EXCEPT ![w] = "panicked"]
  /\ UNCHANGED <<pairs, lock, poisoned, cursor, owns, pools>>

(* Mutation: the iterator stops one pair early.                           *)
ReadNextShort(w) ==
  /\ pc[w] = "locked" /\ cursor < pairs
  /\ owns' = [owns EXCEPT ![w] = cursor]
  /\ pc' = [pc EXCEPT ![w] = "read"]
  /\ UNCHANGED <<pairs, lock, poisoned, cursor, pools>>

(* Mutation: next() reads past the last pair.                             *)
ReadNextUnbounded(w) ==
  /\ pc[w] = "locked"
  /\ owns' = [owns EXCEPT ![w] = cursor]
  /\ pc' = [pc EXCEPT ![w] = "read"]
  /\ UNCHANGED <<pairs, lock, poisoned, cursor, pools>>

(* next() reads the current pair ...                                      *)
ReadNext(w) ==
  /\ pc[w] = "locked" /\ cursor <= pairs
  /\ owns' = [owns EXCEPT ![w] = cursor]
  /\ pc' = [pc EXCEPT ![w] = "read"]
  /\ UNCHANGED <<pairs, lock, poisoned, cursor, pools>>

(* ... and advances; the let ends and the guard is dropped.                *)
Advance(w) ==
  /\ pc[w] = "read"
  /\ cursor' = cursor + 1
  /\ lock' = IF lock = w THEN NoOne ELSE lock
  /\ pc' = [pc EXCEPT ![w] = "built"]
  /\ UNCHANGED <<pairs, poisoned, owns, pools>>

(* next() returns None: expect panics with the guard held, poisoning it.  *)
Exhausted(w) ==
  /\ pc[w] = "locked" /\ cursor > pairs
  /\ poisoned' = TRUE
  /\ lock' = IF lock = w THEN NoOne ELSE lock
  /\ pc' = [pc EXCEPT ![w] = "panicked"]
  /\ UNCHANGED <<pairs, cursor, owns, pools>>

(* The locator and resolver are built and PoolTask::new(.., tx, rx, ..)   *)
(* is spawned on the worker's reactor.                                     *)
SpawnPool(w) ==
  /\ pc[w] = "built"
  /\ pools' = pools \cup {<<w, owns[w]>>}
  /\ pc' = [pc EXCEPT ![w] = "serving"]
  /\ UNCHANGED <<pairs, lock, poisoned, cursor, owns>>

Init ==
  /\ pairs \in PairCounts
  /\ lock = NoOne /\ poisoned = FALSE /\ cursor = 1
  /\ pc = [w \in Workers |-> "start"]
  /\ owns = [w \in Workers |-> 0]
  /\ pools = {}

Worker(w) ==
  \/ Lock(w) \/ LockPoisoned(w) \/ ReadNext(w) \/ Advance(w) \/ Exhausted(w)
  \/ SpawnPool(w)

Next == \E w \in Workers : Worker(w)

(* Threads are scheduled by the OS; each one runs until it serves.        *)
Spec == Init /\ [][Next]_vars /\ \A w \in Workers : WF_vars(Worker(w))

-----------------------------------------------------------------------------
TypeOK ==
  /\ pairs \in PairCounts
  /\ lock \in Workers \cup {NoOne} /\ poisoned \in BOOLEAN
  /\ cursor \in 1..pairs + Cardinality(Workers) + 1
  /\ pc \in [Workers -> {"start", "locked", "read", "built", "serving", "panicked"}]
  /\ owns \in [Workers -> 0..pairs]
  /\ pools \subseteq Workers \X (1..pairs)

(* With as many pairs as threads (the documented precondition), every    *)
(* worker thread gets its factory and a running PoolTask; none panics.    *)
EveryWorkerServes ==
  pairs >= Cardinality(Workers) => <>(\A w \in Workers : pc[w] = "serving")
====
