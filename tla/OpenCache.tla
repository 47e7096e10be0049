------------------------------ MODULE OpenCache ------------------------------
(***************************************************************************)
(* The cache of open's search policy (policy_cache.cpp) and the handlers   *)
(* that use it: open fills it and trusts it, unlink and rename erase a     *)
(* name, release sweeps out what has expired, a policy change clears it.   *)
(*                                                                         *)
(* Every section under PolicyCache::_lock is one step.  open reads the     *)
(* clock before the first, and searches between the first and the second,  *)
(* keeping in `v' a pointer to its entry all the while.                    *)
(***************************************************************************)
EXTENDS Integers, FiniteSets, Functions

CONSTANTS Threads, Paths, Branches,
          NoBranch,      \* the empty string of a new entry
          NoPath,        \* what a thread that opens nothing is opening
          Timeouts,      \* the values cache.open is given
          FirstSecond, LastSecond,   \* bounds on the clock
          Wrap           \* 2^64, what time differences wrap around at

ASSUME TimeoutsAssumption == Timeouts \subseteq Nat
(* The clock counts from 1970: it has always passed any sensible timeout. *)
ASSUME ClockAssumption ==
  /\ FirstSecond \in Nat /\ LastSecond \in Nat /\ Wrap \in Nat
  /\ 0 < FirstSecond /\ FirstSecond <= LastSecond /\ 2 * LastSecond < Wrap
  /\ \A n \in Timeouts : n <= FirstSecond
ASSUME NamesAssumption == NoBranch \notin Branches /\ NoPath \notin Paths

VARIABLES clock,     \* gettimeofday, in seconds
          timeout,   \* PolicyCache::timeout
          where,     \* the branches that hold each file
          cache,     \* PolicyCache::_cache
          call       \* what each thread is doing

vars == <<clock, timeout, where, cache, call>>

(* A search's answer, with its history: the path that was searched for,    *)
(* when, and whether a rename has since replaced the file there.           *)
Answer == [branch : Branches \cup {NoBranch}, of : Paths \cup {NoPath},
           asof : 0 .. LastSecond, replaced : BOOLEAN]

NoAnswer(p) == [branch |-> NoBranch, of |-> p, asof |-> 0, replaced |-> FALSE]

Value_Now(p) == [time |-> clock, answer |-> NoAnswer(p)]

Value(p) == [time |-> 0, answer |-> NoAnswer(p)]

(* An open's locals.  `dangling' says that the entry `v' pointed to was     *)
(* erased, `v' which ones may have its memory since.  `limit' is history:  *)
(* the timeout that the lookup compared with.                              *)
Call == [pc : {"idle", "lookup", "search", "bypass", "store", "open", "cleanup"},
         file : Paths \cup {NoPath}, now : 0 .. LastSecond, v : SUBSET Paths,
         dangling : BOOLEAN, found : Answer, limit : Timeouts \cup {0}]

Idle == [pc |-> "idle", file |-> NoPath, now |-> 0, v |-> {},
         dangling |-> FALSE, found |-> NoAnswer(NoPath), limit |-> 0]

Init ==
  /\ clock = FirstSecond
  /\ timeout \in Timeouts
  /\ where \in [Paths -> SUBSET Branches]
  /\ cache = [p \in {} |-> Value(p)]
  /\ call = [t \in Threads |-> Idle]

-----------------------------------------------------------------------------
(* PolicyCache *)

(* Unsigned: a `time' later than `n' makes an enormous age. *)
Expired(n, entry) == (n - entry.time) % Wrap >= timeout

(* Erasing an entry frees its node, whoever points to it. *)
EraseAll(ps, calls) ==
  /\ cache' = Restrict(cache, DOMAIN cache \ ps)
  /\ call' = [t \in Threads |->
                IF calls[t].pc \in {"search", "store"} /\ calls[t].file \in ps
                THEN [calls[t] EXCEPT !.dangling = TRUE] ELSE calls[t]]

(* A new entry's node may be given memory that was freed under a thread. *)
Insert(p, calls) ==
  [t \in Threads |->
     IF p \notin DOMAIN cache /\ calls[t].dangling
     THEN [calls[t] EXCEPT !.v = @ \cup {p}] ELSE calls[t]]

erase_Nothing(p) == EraseAll({}, call)

erase(p) == EraseAll({p}, call)

-----------------------------------------------------------------------------
(* open *)

(* `now' is read before the lock is asked for. *)
Start(t, p) ==
  /\ call[t] = Idle
  /\ call' = [call EXCEPT ![t].pc = IF timeout = 0 THEN "bypass" ELSE "lookup",
                          ![t].file = p, ![t].now = clock]
  /\ UNCHANGED <<clock, timeout, where, cache>>

(* _cache[fusepath_] makes the entry when there is none. *)
Lookup(t) ==
  LET p == call[t].file
      v == IF p \in DOMAIN cache THEN cache[p] ELSE Value(p)
  IN  /\ call[t].pc = "lookup"
      /\ cache' = [q \in DOMAIN cache \cup {p} |-> IF q = p THEN v ELSE cache[q]]
      /\ call' = Insert(p, [call EXCEPT
                    ![t].pc    = IF Expired(call[t].now, v) THEN "search" ELSE "open",
                    ![t].found = IF Expired(call[t].now, v) THEN @ ELSE v.answer,
                    ![t].limit = timeout])
      /\ UNCHANGED <<clock, timeout, where>>

(* The policy picks a branch with the file, or fails and open with it,     *)
(* leaving the entry as it is.                                             *)
Search(t) ==
  LET p == call[t].file
  IN  /\ call[t].pc \in {"search", "bypass"}
      /\ \/ /\ where[p] = {}
            /\ call' = [call EXCEPT ![t] = Idle]
         \/ \E b \in where[p] :
              call' = [call EXCEPT
                         ![t].pc    = IF @ = "search" THEN "store" ELSE "open",
                         ![t].found = [branch |-> b, of |-> p, asof |-> clock,
                                       replaced |-> FALSE]]
      /\ UNCHANGED <<clock, timeout, where, cache>>

(* The entry `v' points into: its own or, once that is freed, none or one  *)
(* that the allocator may have given the memory to.                        *)
Pointees(t) ==
  IF call[t].dangling THEN {{}} \cup {{p} : p \in call[t].v \cap DOMAIN cache}
  ELSE {{call[t].file}}

Store_ClockAgain(t) ==
  /\ call[t].pc = "store"
  /\ \E ps \in Pointees(t) :
       cache' = [p \in DOMAIN cache |->
                   IF p \in ps THEN [time |-> clock, answer |-> call[t].found]
                   ELSE cache[p]]
  /\ call' = [call EXCEPT ![t].pc = "open", ![t].v = {}, ![t].dangling = FALSE]
  /\ UNCHANGED <<clock, timeout, where>>

Store(t) ==
  /\ call[t].pc = "store"
  /\ \E ps \in Pointees(t) :
       cache' = [p \in DOMAIN cache |->
                   IF p \in ps THEN [time |-> call[t].now, answer |-> call[t].found]
                   ELSE cache[p]]
  /\ call' = [call EXCEPT ![t].pc = "open", ![t].v = {}, ![t].dangling = FALSE]
  /\ UNCHANGED <<clock, timeout, where>>

(* open_core opens the file on the branch found, there or not. *)
open_core(t) ==
  /\ call[t].pc = "open"
  /\ call' = [call EXCEPT ![t] = Idle]
  /\ UNCHANGED <<clock, timeout, where, cache>>

-----------------------------------------------------------------------------
(* The other handlers *)

(* libfuse holds a request's path while it is handled: opens share it,     *)
(* unlink and rename have it to themselves.                                *)
PathFree(p) == \A t \in Threads : call[t].file # p

(* Erased first, then removed from the branches the action policy picks. *)
unlink(p) ==
  /\ PathFree(p)
  /\ erase(p)
  /\ \E bs \in SUBSET where[p] : where' = [where EXCEPT ![p] = @ \ bs]
  /\ UNCHANGED <<clock, timeout>>

(* Only the old name is erased.  Then nothing is renamed; or the file is,  *)
(* on `bs', and removed under both names elsewhere, if the removals work.  *)
rename(old, new) ==
  /\ old # new /\ PathFree(old) /\ PathFree(new)
  /\ \/ /\ erase(old)
        /\ UNCHANGED where
     \/ /\ \E bs \in SUBSET where[old] \ {{}} :
             \E kept \in SUBSET (where[old] \ bs), left \in SUBSET (where[new] \ bs) :
               where' = [where EXCEPT ![old] = kept, ![new] = bs \cup left]
        /\ call' = call
        /\ cache' = [p \in DOMAIN cache \ {old} |->
                       IF cache[p].answer.of = new
                       THEN [cache[p] EXCEPT !.answer.replaced = TRUE] ELSE cache[p]]
  /\ UNCHANGED <<clock, timeout>>

create(p) ==
  /\ where[p] = {}
  /\ \E b \in Branches : where' = [where EXCEPT ![p] = {b}]
  /\ UNCHANGED <<clock, timeout, cache, call>>

(* release, one time in ten, of a file opened or created earlier. *)
StartCleanup(t) ==
  /\ call[t] = Idle /\ timeout # 0
  /\ call' = [call EXCEPT ![t].pc = "cleanup", ![t].now = clock]
  /\ UNCHANGED <<clock, timeout, where, cache>>

cleanup(t) ==
  /\ call[t].pc = "cleanup"
  /\ EraseAll({p \in DOMAIN cache : Expired(call[t].now, cache[p])},
              [call EXCEPT ![t] = Idle])
  /\ UNCHANGED <<clock, timeout, where>>

(* The control file: a new policy for open (Search allows for any), valid  *)
(* or not, and a new timeout.                                              *)
clear ==
  /\ EraseAll(DOMAIN cache, call)
  /\ UNCHANGED <<clock, timeout, where>>

SetTimeout(n) ==
  /\ timeout' = n
  /\ UNCHANGED <<clock, where, cache, call>>

Tick ==
  /\ clock < LastSecond
  /\ clock' = clock + 1
  /\ UNCHANGED <<timeout, where, cache, call>>

Next ==
  \/ \E t \in Threads :
       \/ \E p \in Paths : Start(t, p)
       \/ Lookup(t) \/ Search(t) \/ Store(t) \/ open_core(t)
       \/ StartCleanup(t) \/ cleanup(t)
  \/ \E p \in Paths : unlink(p) \/ create(p)
  \/ \E old, new \in Paths : rename(old, new)
  \/ clear
  \/ \E n \in Timeouts : SetTimeout(n)
  \/ Tick

Spec == Init /\ [][Next]_vars

-----------------------------------------------------------------------------
(* The type invariant; a thread about to open has been given a branch,     *)
(* never the empty path of an entry nobody has filled in yet.              *)
TypeOK ==
  /\ clock \in FirstSecond .. LastSecond
  /\ timeout \in Timeouts
  /\ where \in [Paths -> SUBSET Branches]
  /\ DOMAIN cache \subseteq Paths
  /\ \A p \in DOMAIN cache : cache[p] \in [time : 0 .. LastSecond, answer : Answer]
  /\ call \in [Threads -> Call]
  /\ \A t \in Threads : call[t].pc = "open" => call[t].found.branch \in Branches

(* Whatever is cached, changed or swept meanwhile, the branch an open is   *)
(* sent to was the policy's choice less than the timeout before the open   *)
(* began (policy_cache.cpp:111).                                           *)
BoundedStaleness ==
  \A t \in Threads :
    call[t].pc = "open" =>
      \/ call[t].found.asof >= call[t].now
      \/ call[t].now - call[t].found.asof < call[t].limit

(* An open sent to a branch for its own path finds the file there, however *)
(* unlinks, creates and renames came between, unless a rename has replaced *)
(* the file, which forgets the old name only (fuse_rename.cpp:283).        *)
OpenFindsFile ==
  \A t \in Threads :
    LET c == call[t]
    IN  (c.pc = "open" /\ c.found.of = c.file /\ ~c.found.replaced) =>
          c.found.branch \in where[c.file]

(* The cache holds "the result of an open policy for a particular input"   *)
(* (README.md): an entry's branch was found for the entry's path.          *)
CachedForItsPath ==
  \A p \in DOMAIN cache : cache[p].answer.of = p

=============================================================================
