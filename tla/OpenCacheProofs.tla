--------------------------- MODULE OpenCacheProofs ---------------------------
(***************************************************************************)
(* The invariants of the open cache, proved for any threads, paths,        *)
(* branches and timeouts, and however long the clock runs.                 *)
(***************************************************************************)
EXTENDS OpenCache, TLAPS

(* An entry was never searched for before the time it carries, names a     *)
(* branch once it has one, and is right about the file until replaced.     *)
EntryOK(p, e) ==
  /\ e.time <= e.answer.asof
  /\ e.time # 0 => e.answer.branch \in Branches
  /\ (e.answer.of = p /\ ~e.answer.replaced /\ e.answer.branch # NoBranch) =>
       e.answer.branch \in where[p]

Open == {"lookup", "search", "bypass", "store", "open"}

(* What an open knows at each stage. *)
CallOK(c) ==
  /\ c.pc \in Open => c.file \in Paths /\ FirstSecond <= c.now /\ c.now <= clock
  /\ c.pc = "store" => /\ c.found.of = c.file
                       /\ c.found.branch \in where[c.file]
                       /\ c.now <= c.found.asof
  /\ c.pc = "open" =>
       /\ \/ c.found.asof >= c.now
          \/ c.now - c.found.asof < c.limit
       /\ (c.found.of = c.file /\ ~c.found.replaced) =>
            c.found.branch \in where[c.file]

IInv ==
  /\ TypeOK
  /\ \A p \in DOMAIN cache : EntryOK(p, cache[p])
  /\ \A t \in Threads : CallOK(call[t])

USE TimeoutsAssumption, ClockAssumption, NamesAssumption

(* The age of an entry that is not older than `n' does not wrap.           *)
(* (policy_cache.cpp:111)                                                  *)
LEMMA AgeIsExact ==
  ASSUME NEW n \in 0 .. LastSecond, NEW time \in 0 .. LastSecond, time <= n
  PROVE  (n - time) % Wrap = n - time
<1> DEFINE age == n - time
<1>1. age \in Nat /\ age < Wrap
  OBVIOUS
<1> HIDE DEF age
<1>2. age % Wrap = age
  BY <1>1
<1> QED
  BY <1>2 DEF age

(* A lookup that hits: the entry has been filled in, and was searched for  *)
(* less than the timeout ago, or after the open began.                     *)
LEMMA HitIsFresh ==
  ASSUME TypeOK, NEW n \in FirstSecond .. LastSecond, NEW p \in Paths,
         NEW e \in [time : 0 .. LastSecond, answer : Answer],
         EntryOK(p, e), ~Expired(n, e)
  PROVE  /\ e.answer.branch \in Branches
         /\ e.answer.asof >= n \/ n - e.answer.asof < timeout
<1>1. n \in 0 .. LastSecond /\ e.time \in 0 .. LastSecond /\ e.answer.asof \in 0 .. LastSecond
  BY DEF Answer
<1>2. timeout \in Nat /\ timeout <= FirstSecond
  BY DEF TypeOK
<1>3. ASSUME e.time <= n PROVE n - e.time < timeout
  <2>1. (n - e.time) % Wrap = n - e.time
    BY <1>1, <1>3, AgeIsExact
  <2> QED
    BY <2>1, <1>1, <1>2 DEF Expired
<1>4. e.time # 0
  BY <1>1, <1>2, <1>3
<1> QED
  BY <1>1, <1>2, <1>3, <1>4 DEF EntryOK

(* Init establishes the invariant: nothing is cached, nobody is opening.   *)
LEMMA InitIInv == Init => IInv
<1> SUFFICES ASSUME Init PROVE IInv
  OBVIOUS
<1>1. TypeOK
  BY DEF Init, TypeOK, Idle, Call, Answer, NoAnswer
<1>2. \A p \in DOMAIN cache : EntryOK(p, cache[p])
  BY DEF Init
<1>3. \A t \in Threads : CallOK(call[t])
  BY DEF Init, CallOK, Idle, Open
<1> QED
  BY <1>1, <1>2, <1>3 DEF IInv

(* Erasing entries leaves the others alone; of a call it changes only      *)
(* whether its pointer dangles.                                            *)
LEMMA EraseEffect ==
  ASSUME TypeOK, NEW ps, NEW calls \in [Threads -> Call], EraseAll(ps, calls)
  PROVE  /\ DOMAIN cache' = DOMAIN cache \ ps
         /\ \A p \in DOMAIN cache' : cache'[p] = cache[p]
         /\ call' \in [Threads -> Call]
         /\ \A t \in Threads : /\ call'[t].pc = calls[t].pc
                               /\ call'[t].file = calls[t].file
                               /\ call'[t].now = calls[t].now
                               /\ call'[t].found = calls[t].found
                               /\ call'[t].limit = calls[t].limit
<1>1. cache' = [p \in DOMAIN cache \ ps |-> cache[p]]
  BY DEF EraseAll, Restrict
<1>2. \A t \in Threads : [calls[t] EXCEPT !.dangling = TRUE] \in Call
  BY DEF Call
<1>3. \A t \in Threads : call'[t] \in {calls[t], [calls[t] EXCEPT !.dangling = TRUE]}
  BY DEF EraseAll
<1>4. call' = [t \in Threads |-> call'[t]]
  BY DEF EraseAll
<1>5. ASSUME NEW t \in Threads
      PROVE  /\ call'[t] \in Call
             /\ call'[t].pc = calls[t].pc
             /\ call'[t].file = calls[t].file
             /\ call'[t].now = calls[t].now
             /\ call'[t].found = calls[t].found
             /\ call'[t].limit = calls[t].limit
  BY <1>2, <1>3 DEF Call
<1> QED
  BY <1>1, <1>4, <1>5

(* Inserting an entry changes of a call only where its pointer may point.  *)
LEMMA InsertEffect ==
  ASSUME NEW p \in Paths, NEW calls \in [Threads -> Call]
  PROVE  /\ Insert(p, calls) \in [Threads -> Call]
         /\ \A t \in Threads : /\ Insert(p, calls)[t].pc = calls[t].pc
                               /\ Insert(p, calls)[t].file = calls[t].file
                               /\ Insert(p, calls)[t].now = calls[t].now
                               /\ Insert(p, calls)[t].found = calls[t].found
                               /\ Insert(p, calls)[t].limit = calls[t].limit
<1>1. \A t \in Threads : [calls[t] EXCEPT !.v = @ \cup {p}] \in Call
  BY DEF Call
<1>2. \A t \in Threads :
        Insert(p, calls)[t] \in {calls[t], [calls[t] EXCEPT !.v = @ \cup {p}]}
  BY DEF Insert
<1>3. Insert(p, calls) = [t \in Threads |-> Insert(p, calls)[t]]
  BY DEF Insert
<1>4. ASSUME NEW t \in Threads
      PROVE  /\ Insert(p, calls)[t] \in Call
             /\ Insert(p, calls)[t].pc = calls[t].pc
             /\ Insert(p, calls)[t].file = calls[t].file
             /\ Insert(p, calls)[t].now = calls[t].now
             /\ Insert(p, calls)[t].found = calls[t].found
             /\ Insert(p, calls)[t].limit = calls[t].limit
  BY <1>1, <1>2 DEF Call
<1> QED
  BY <1>3, <1>4

(* A step that erases entries, of the paths it changes at least, and       *)
(* changes no path that is being opened keeps the invariant.               *)
LEMMA EraseKeepsIInv ==
  ASSUME IInv, NEW ps, NEW calls \in [Threads -> Call],
         EraseAll(ps, calls),
         \A t \in Threads : CallOK(calls[t]),
         \A t \in Threads : calls[t].pc = "open" => calls[t].found.branch \in Branches,
         where' \in [Paths -> SUBSET Branches],
         \A p \in Paths \ ps : where'[p] = where[p],
         \A t \in Threads : calls[t].pc \in Open =>
             where'[calls[t].file] = where[calls[t].file],
         UNCHANGED <<clock, timeout>>
  PROVE  IInv'
<1>1. TypeOK
  BY DEF IInv
<1>2. /\ DOMAIN cache' = DOMAIN cache \ ps
      /\ \A p \in DOMAIN cache' : cache'[p] = cache[p]
      /\ call' \in [Threads -> Call]
      /\ \A t \in Threads : /\ call'[t].pc = calls[t].pc
                            /\ call'[t].file = calls[t].file
                            /\ call'[t].now = calls[t].now
                            /\ call'[t].found = calls[t].found
                            /\ call'[t].limit = calls[t].limit
  BY <1>1, EraseEffect
<1>3. TypeOK'
  BY <1>1, <1>2 DEF TypeOK
<1>4. ASSUME NEW p \in DOMAIN cache' PROVE EntryOK(p, cache[p])'
  BY <1>1, <1>2 DEF IInv, EntryOK, TypeOK
<1>5. ASSUME NEW t \in Threads PROVE CallOK(call[t])'
  BY <1>1, <1>2 DEF CallOK, Open
<1> QED
  BY <1>3, <1>4, <1>5 DEF IInv

(* A thread that begins, or ends, or searches leaves the cache and the     *)
(* files alone: it is enough to look at its own call.                      *)
LEMMA OwnCallKeepsIInv ==
  ASSUME IInv, NEW t \in Threads, NEW c \in Call,
         call' = [call EXCEPT ![t] = c], CallOK(c),
         c.pc = "open" => c.found.branch \in Branches,
         UNCHANGED <<clock, timeout, where, cache>>
  PROVE  IInv'
<1>1. TypeOK'
  BY DEF IInv, TypeOK
<1>2. ASSUME NEW p \in DOMAIN cache' PROVE EntryOK(p, cache[p])'
  BY DEF IInv, EntryOK
<1>3. ASSUME NEW u \in Threads PROVE CallOK(call[u])'
  <2>1. call'[u] = IF u = t THEN c ELSE call[u]
    BY DEF IInv, TypeOK
  <2> QED
    BY <2>1 DEF IInv, CallOK
<1> QED
  BY <1>1, <1>2, <1>3 DEF IInv

(* The locals of an idle thread satisfy the invariant.                     *)
LEMMA IdleOK == Idle \in Call /\ CallOK(Idle) /\ Idle.pc # "open"
BY DEF Idle, Call, Answer, NoAnswer, CallOK, Open

(* An open begins with the time it read.  (policy_cache.cpp:104-106)       *)
LEMMA StartKeepsIInv ==
  ASSUME IInv, NEW t \in Threads, NEW p \in Paths, Start(t, p) PROVE IInv'
<1> DEFINE c == [pc |-> IF timeout = 0 THEN "bypass" ELSE "lookup", file |-> p,
                 now |-> clock, v |-> {}, dangling |-> FALSE,
                 found |-> NoAnswer(NoPath), limit |-> 0]
<1>1. call' = [call EXCEPT ![t] = c]
  BY DEF Start, Idle, IInv, TypeOK
<1>2. clock \in 0 .. LastSecond /\ FirstSecond <= clock
  BY DEF IInv, TypeOK
<1>3. c \in Call
  BY <1>2 DEF Call, Answer, NoAnswer
<1>4. CallOK(c) /\ c.pc # "open"
  BY <1>2 DEF CallOK, Open
<1> HIDE DEF c
<1> QED
  BY <1>1, <1>3, <1>4, OwnCallKeepsIInv DEF Start

(* The search, done without the lock, finds the file where it is.          *)
LEMMA SearchKeepsIInv ==
  ASSUME IInv, NEW t \in Threads, Search(t) PROVE IInv'
<1>1. CASE call' = [call EXCEPT ![t] = Idle]
  BY <1>1, IdleOK, OwnCallKeepsIInv DEF Search
<1>2. ASSUME NEW b \in where[call[t].file],
             call' = [call EXCEPT
                        ![t].pc    = IF @ = "search" THEN "store" ELSE "open",
                        ![t].found = [branch |-> b, of |-> call[t].file,
                                      asof |-> clock, replaced |-> FALSE]]
      PROVE  IInv'
  <2> DEFINE k == call[t]
             c == [k EXCEPT !.pc = IF @ = "search" THEN "store" ELSE "open",
                            !.found = [branch |-> b, of |-> k.file,
                                       asof |-> clock, replaced |-> FALSE]]
  <2>1. call' = [call EXCEPT ![t] = c]
    BY <1>2 DEF IInv, TypeOK
  <2>2. k \in Call /\ CallOK(k) /\ k.pc \in {"search", "bypass"}
    BY DEF IInv, TypeOK, Search
  <2>3. /\ k.file \in Paths /\ k.now <= clock /\ FirstSecond <= k.now
        /\ k.now \in 0 .. LastSecond /\ clock \in 0 .. LastSecond
    BY <2>2 DEF CallOK, Open, Call, IInv, TypeOK
  <2>4. b \in Branches
    BY <2>3, <1>2 DEF IInv, TypeOK
  <2>5. c \in Call
    BY <2>2, <2>3, <2>4 DEF Call, Answer
  <2>6. /\ c.pc \in {"store", "open"} /\ c.file = k.file /\ c.now = k.now
        /\ c.found = [branch |-> b, of |-> k.file, asof |-> clock, replaced |-> FALSE]
    BY <2>2 DEF Call
  <2>7. CallOK(c) /\ c.found.branch \in Branches
    BY <2>3, <2>4, <2>6, <1>2 DEF CallOK, Open
  <2> HIDE DEF c
  <2> QED
    BY <2>1, <2>5, <2>7, OwnCallKeepsIInv DEF Search
<1> QED
  BY <1>1, <1>2 DEF Search

(* The file is opened on the branch and the call is over.                  *)
LEMMA open_coreKeepsIInv ==
  ASSUME IInv, NEW t \in Threads, open_core(t) PROVE IInv'
BY IdleOK, OwnCallKeepsIInv DEF open_core

(* A release that will sweep reads the clock.                              *)
LEMMA StartCleanupKeepsIInv ==
  ASSUME IInv, NEW t \in Threads, StartCleanup(t) PROVE IInv'
<1> DEFINE c == [Idle EXCEPT !.pc = "cleanup", !.now = clock]
<1>1. call' = [call EXCEPT ![t] = c]
  BY DEF StartCleanup, Idle, IInv, TypeOK
<1>2. clock \in 0 .. LastSecond
  BY DEF IInv, TypeOK
<1>3. c \in Call /\ c.pc = "cleanup"
  BY <1>2, IdleOK DEF Call
<1>4. CallOK(c)
  BY <1>3 DEF CallOK, Open
<1> HIDE DEF c
<1> QED
  BY <1>1, <1>3, <1>4, OwnCallKeepsIInv DEF StartCleanup

(* A lookup makes the entry if it has to, and trusts one that is not       *)
(* expired.  (policy_cache.cpp:108-113)                                    *)
LEMMA LookupKeepsIInv ==
  ASSUME IInv, NEW t \in Threads, Lookup(t) PROVE IInv'
<1> DEFINE k == call[t]
           p == k.file
           e == IF p \in DOMAIN cache THEN cache[p] ELSE Value(p)
           hit == ~Expired(k.now, e)
           c == [k EXCEPT !.pc    = IF hit THEN "open" ELSE "search",
                          !.found = IF hit THEN e.answer ELSE @,
                          !.limit = timeout]
           calls == [call EXCEPT ![t] = c]
<1>1. TypeOK
  BY DEF IInv
<1>2. k \in Call /\ CallOK(k) /\ k.pc = "lookup"
  BY DEF IInv, TypeOK, Lookup
<1>3. p \in Paths /\ k.now \in FirstSecond .. LastSecond /\ k.now <= clock
  BY <1>2 DEF CallOK, Open, Call
<1>4. e \in [time : 0 .. LastSecond, answer : Answer] /\ EntryOK(p, e)
  <2>1. CASE p \in DOMAIN cache
    BY <2>1 DEF IInv, TypeOK
  <2>2. CASE p \notin DOMAIN cache
    BY <2>2, <1>3 DEF EntryOK, Value, NoAnswer, Answer
  <2> QED
    BY <2>1, <2>2
<1>5. hit => /\ e.answer.branch \in Branches
             /\ e.answer.asof >= k.now \/ k.now - e.answer.asof < timeout
  BY <1>1, <1>3, <1>4, HitIsFresh
<1>6. cache' = [q \in DOMAIN cache \cup {p} |-> IF q = p THEN e ELSE cache[q]]
  BY DEF Lookup
<1>7. call' = Insert(p, calls)
  BY <1>1 DEF Lookup, TypeOK
<1>8. UNCHANGED <<clock, timeout, where>>
  BY DEF Lookup
<1> HIDE DEF e, hit
<1>9. timeout \in Timeouts
  BY <1>1 DEF TypeOK
<1>10. /\ c \in Call /\ c.file = p /\ c.now = k.now /\ c.limit = timeout
       /\ c.pc = IF hit THEN "open" ELSE "search"
       /\ hit => c.found = e.answer
  BY <1>2, <1>4, <1>9 DEF Call
<1> HIDE DEF c
<1>11. CallOK(c) /\ (c.pc = "open" => c.found.branch \in Branches)
  <2>1. CASE ~hit
    BY <2>1, <1>3, <1>10 DEF CallOK, Open
  <2>2. CASE hit
    <3>1. EntryOK(p, e) /\ e.answer.branch \in Branches
      BY <2>2, <1>4, <1>5
    <3> QED
      BY <3>1, <2>2, <1>3, <1>5, <1>10 DEF CallOK, Open, EntryOK
  <2> QED
    BY <2>1, <2>2
<1>12. calls \in [Threads -> Call]
  BY <1>1, <1>10 DEF TypeOK
<1>13. /\ call' \in [Threads -> Call]
       /\ \A u \in Threads : /\ call'[u].pc = calls[u].pc
                             /\ call'[u].file = calls[u].file
                             /\ call'[u].now = calls[u].now
                             /\ call'[u].found = calls[u].found
                             /\ call'[u].limit = calls[u].limit
  BY <1>3, <1>7, <1>12, InsertEffect
<1>14. \A u \in Threads : calls[u] = IF u = t THEN c ELSE call[u]
  BY <1>1 DEF TypeOK
<1> HIDE DEF calls
<1>15. \A u \in Threads : /\ CallOK(calls[u])
                          /\ calls[u].pc = "open" => calls[u].found.branch \in Branches
  BY <1>11, <1>14 DEF IInv, TypeOK
<1>16. TypeOK'
  <2>1. /\ DOMAIN cache' \subseteq Paths
        /\ \A q \in DOMAIN cache' :
             cache'[q] \in [time : 0 .. LastSecond, answer : Answer]
    BY <1>1, <1>3, <1>4, <1>6 DEF TypeOK
  <2>2. \A u \in Threads : call'[u].pc = "open" => call'[u].found.branch \in Branches
    BY <1>13, <1>15
  <2> QED
    BY <2>1, <2>2, <1>1, <1>8, <1>13 DEF TypeOK
<1>17. ASSUME NEW q \in DOMAIN cache' PROVE EntryOK(q, cache[q])'
  BY <1>4, <1>6, <1>8 DEF IInv, EntryOK
<1>18. ASSUME NEW u \in Threads PROVE CallOK(call[u])'
  <2>1. /\ call'[u].pc = calls[u].pc /\ call'[u].file = calls[u].file
        /\ call'[u].now = calls[u].now /\ call'[u].found = calls[u].found
        /\ call'[u].limit = calls[u].limit
    BY <1>13
  <2>2. CallOK(calls[u])
    BY <1>15
  <2> QED
    BY <2>1, <2>2, <1>8 DEF CallOK
<1> QED
  BY <1>16, <1>17, <1>18 DEF IInv

(* The second section of an open writes through its pointer, into its own  *)
(* entry or whichever has the memory now.  (policy_cache.cpp:118-125)      *)
LEMMA StoreKeepsIInv ==
  ASSUME IInv, NEW t \in Threads, Store(t) PROVE IInv'
<1> DEFINE k == call[t]
           e == [time |-> k.now, answer |-> k.found]
           c == [k EXCEPT !.pc = "open", !.v = {}, !.dangling = FALSE]
<1>1. TypeOK
  BY DEF IInv
<1>2. k \in Call /\ CallOK(k) /\ k.pc = "store"
  BY DEF IInv, TypeOK, Store
<1>3. /\ k.file \in Paths /\ k.now <= clock /\ FirstSecond <= k.now
      /\ k.now \in 0 .. LastSecond /\ k.found \in Answer
      /\ k.found.branch \in where[k.file] /\ k.now <= k.found.asof
      /\ k.found.of = k.file
  BY <1>2 DEF CallOK, Open, Call
<1>4. k.found.branch \in Branches
  BY <1>1, <1>3 DEF TypeOK
<1>5. PICK ps : cache' = [p \in DOMAIN cache |-> IF p \in ps THEN e ELSE cache[p]]
  BY DEF Store
<1>6. call' = [call EXCEPT ![t] = c] /\ UNCHANGED <<clock, timeout, where>>
  BY <1>1 DEF Store, TypeOK
<1>7. /\ c \in Call /\ c.pc = "open" /\ c.file = k.file /\ c.now = k.now
      /\ c.found = k.found
  BY <1>2 DEF Call
<1> HIDE DEF c
<1>8. CallOK(c)
  BY <1>3, <1>7 DEF CallOK, Open
<1>9. e \in [time : 0 .. LastSecond, answer : Answer]
  BY <1>3
<1>10. \A p \in Paths : EntryOK(p, e)
  BY <1>3, <1>4 DEF EntryOK
<1> HIDE DEF e
<1>11. \A u \in Threads : call'[u] = IF u = t THEN c ELSE call[u]
  BY <1>1, <1>6 DEF TypeOK
<1>12. TypeOK'
  BY <1>1, <1>4, <1>5, <1>6, <1>7, <1>9, <1>11 DEF TypeOK
<1>13. ASSUME NEW p \in DOMAIN cache' PROVE EntryOK(p, cache[p])'
  <2>1. p \in DOMAIN cache /\ p \in Paths /\ cache'[p] \in {e, cache[p]}
    BY <1>1, <1>5 DEF TypeOK
  <2>2. EntryOK(p, cache'[p])
    BY <2>1, <1>10 DEF IInv
  <2> QED
    BY <2>2, <1>6 DEF EntryOK
<1>14. ASSUME NEW u \in Threads PROVE CallOK(call[u])'
  <2>1. CallOK(call'[u])
    BY <1>8, <1>11 DEF IInv
  <2> QED
    BY <2>1, <1>6 DEF CallOK
<1> QED
  BY <1>12, <1>13, <1>14 DEF IInv

(* unlink has the path to itself, and erases its entry.                    *)
LEMMA unlinkKeepsIInv ==
  ASSUME IInv, NEW p \in Paths, unlink(p) PROVE IInv'
<1>1. TypeOK /\ call \in [Threads -> Call] /\ \A t \in Threads : CallOK(call[t])
  BY DEF IInv, TypeOK
<1>2. PICK bs \in SUBSET where[p] : where' = [where EXCEPT ![p] = @ \ bs]
  BY DEF unlink
<1>3. where' \in [Paths -> SUBSET Branches] /\ \A q \in Paths \ {p} : where'[q] = where[q]
  BY <1>1, <1>2 DEF TypeOK
<1>4. \A t \in Threads : call[t].pc \in Open => where'[call[t].file] = where[call[t].file]
  BY <1>1, <1>3 DEF unlink, PathFree, CallOK
<1>5. EraseAll({p}, call) /\ UNCHANGED <<clock, timeout>>
  BY DEF unlink, erase
<1>6. \A t \in Threads : call[t].pc = "open" => call[t].found.branch \in Branches
  BY <1>1 DEF TypeOK
<1> QED
  BY <1>1, <1>3, <1>4, <1>5, <1>6, EraseKeepsIInv

(* A sweep, and a change of policy, only erase.                            *)
LEMMA SweepKeepsIInv ==
  ASSUME IInv, NEW ps, NEW calls \in [Threads -> Call], EraseAll(ps, calls),
         \A t \in Threads : calls[t] \in {call[t], Idle},
         UNCHANGED <<clock, timeout, where>>
  PROVE  IInv'
<1>1. TypeOK /\ where \in [Paths -> SUBSET Branches]
  BY DEF IInv, TypeOK
<1>2. ASSUME NEW t \in Threads
      PROVE  /\ CallOK(calls[t])
             /\ calls[t].pc = "open" => calls[t].found.branch \in Branches
  BY IdleOK DEF IInv, TypeOK
<1> QED
  BY <1>1, <1>2, EraseKeepsIInv

(* rename has both paths to itself: the old name's entry is erased, and    *)
(* the new name's no longer claims to be right.                            *)
LEMMA renameKeepsIInv ==
  ASSUME IInv, NEW old \in Paths, NEW new \in Paths, rename(old, new) PROVE IInv'
<1>1. TypeOK /\ call \in [Threads -> Call] /\ \A t \in Threads : CallOK(call[t])
  BY DEF IInv, TypeOK
<1>2. CASE erase(old) /\ UNCHANGED where
  BY <1>1, <1>2, SweepKeepsIInv DEF erase, rename
<1>3. CASE /\ \E bs \in SUBSET where[old] \ {{}} :
                \E kept \in SUBSET (where[old] \ bs), left \in SUBSET (where[new] \ bs) :
                  where' = [where EXCEPT ![old] = kept, ![new] = bs \cup left]
           /\ call' = call
           /\ cache' = [p \in DOMAIN cache \ {old} |->
                          IF cache[p].answer.of = new
                          THEN [cache[p] EXCEPT !.answer.replaced = TRUE] ELSE cache[p]]
  <2>1. /\ where' \in [Paths -> SUBSET Branches]
        /\ \A p \in Paths \ {old, new} : where'[p] = where[p]
    BY <1>1, <1>3 DEF TypeOK
  <2>2. \A p \in DOMAIN cache : cache[p] \in [time : 0 .. LastSecond, answer : Answer]
    BY <1>1 DEF TypeOK
  <2>3. ASSUME NEW p \in DOMAIN cache'
        PROVE  /\ p \in DOMAIN cache \ {old} /\ p \in Paths
               /\ cache'[p] \in [time : 0 .. LastSecond, answer : Answer]
               /\ cache'[p].time = cache[p].time
               /\ cache'[p].answer.asof = cache[p].answer.asof
               /\ cache'[p].answer.branch = cache[p].answer.branch
               /\ cache'[p].answer.of = cache[p].answer.of
               /\ cache[p].answer.of = new => cache'[p].answer.replaced
               /\ cache[p].answer.replaced => cache'[p].answer.replaced
    <3>1. p \in DOMAIN cache \ {old} /\ p \in Paths
      BY <1>1, <1>3 DEF TypeOK
    <3>2. CASE cache[p].answer.of = new
      <4> DEFINE a == [cache[p].answer EXCEPT !.replaced = TRUE]
      <4>1. cache[p] \in [time : 0 .. LastSecond, answer : Answer]
        BY <3>1, <2>2
      <4>2. cache'[p] = [cache[p] EXCEPT !.answer = a]
        BY <3>1, <3>2, <1>3
      <4>3. /\ a \in Answer /\ a.replaced = TRUE
            /\ a.asof = cache[p].answer.asof /\ a.branch = cache[p].answer.branch
            /\ a.of = cache[p].answer.of
        BY <4>1 DEF Answer
      <4> HIDE DEF a
      <4>4. cache'[p] = [time |-> cache[p].time, answer |-> a]
        BY <4>1, <4>2
      <4> QED
        BY <4>1, <4>3, <4>4, <3>1, <3>2
    <3>3. CASE cache[p].answer.of # new
      <4>1. cache'[p] = cache[p]
        BY <3>1, <3>3, <1>3
      <4> QED
        BY <4>1, <3>1, <3>3, <2>2 DEF Answer
    <3> QED
      BY <3>2, <3>3
  <2>4. UNCHANGED <<clock, timeout, call>>
    BY <1>3 DEF rename
  <2>5. TypeOK'
    BY <2>1, <2>3, <2>4, <1>1 DEF TypeOK
  <2>6. ASSUME NEW p \in DOMAIN cache' PROVE EntryOK(p, cache[p])'
    <3>1. EntryOK(p, cache[p])
      BY <2>3 DEF IInv
    <3> QED
      BY <3>1, <2>1, <2>3 DEF EntryOK
  <2>7. ASSUME NEW t \in Threads PROVE CallOK(call[t])'
    BY <2>1, <2>4, <1>1 DEF CallOK, rename, PathFree, Open
  <2> QED
    BY <2>5, <2>6, <2>7 DEF IInv
<1> QED
  BY <1>2, <1>3 DEF rename

(* A new file is where there was none: no entry claimed one.               *)
LEMMA createKeepsIInv ==
  ASSUME IInv, NEW p \in Paths, create(p) PROVE IInv'
<1>1. PICK b \in Branches : where' = [where EXCEPT ![p] = {b}]
  BY DEF create
<1>2. UNCHANGED <<clock, timeout, cache, call>> /\ where[p] = {}
  BY DEF create
<1>3. /\ where' \in [Paths -> SUBSET Branches]
      /\ \A q \in Paths : where[q] \subseteq where'[q]
  BY <1>1, <1>2 DEF IInv, TypeOK
<1>4. TypeOK'
  BY <1>2, <1>3 DEF IInv, TypeOK
<1>5. ASSUME NEW q \in DOMAIN cache' PROVE EntryOK(q, cache[q])'
  BY <1>2, <1>3 DEF IInv, TypeOK, EntryOK
<1>6. ASSUME NEW t \in Threads PROVE CallOK(call[t])'
  BY <1>2, <1>3 DEF IInv, CallOK, Open
<1> QED
  BY <1>4, <1>5, <1>6 DEF IInv

(* The invariant is inductive: every step of every handler keeps it.       *)
LEMMA NextKeepsIInv == IInv /\ [Next]_vars => IInv'
<1> SUFFICES ASSUME IInv, [Next]_vars PROVE IInv'
  OBVIOUS
<1>1. ASSUME NEW t \in Threads, NEW p \in Paths, Start(t, p) PROVE IInv'
  BY <1>1, StartKeepsIInv
<1>2. ASSUME NEW t \in Threads, Lookup(t) PROVE IInv'
  BY <1>2, LookupKeepsIInv
<1>3. ASSUME NEW t \in Threads, Search(t) PROVE IInv'
  BY <1>3, SearchKeepsIInv
<1>4. ASSUME NEW t \in Threads, Store(t) PROVE IInv'
  BY <1>4, StoreKeepsIInv
<1>5. ASSUME NEW t \in Threads, open_core(t) PROVE IInv'
  BY <1>5, open_coreKeepsIInv
<1>6. ASSUME NEW t \in Threads, StartCleanup(t) PROVE IInv'
  BY <1>6, StartCleanupKeepsIInv
<1>7. ASSUME NEW t \in Threads, cleanup(t) PROVE IInv'
  <2> DEFINE calls == [call EXCEPT ![t] = Idle]
             ps == {p \in DOMAIN cache : Expired(call[t].now, cache[p])}
  <2>1. calls \in [Threads -> Call] /\ \A u \in Threads : calls[u] \in {call[u], Idle}
    BY IdleOK DEF IInv, TypeOK
  <2>2. EraseAll(ps, calls) /\ UNCHANGED <<clock, timeout, where>>
    BY <1>7 DEF cleanup
  <2> HIDE DEF calls, ps
  <2> QED
    BY <2>1, <2>2, SweepKeepsIInv
<1>8. ASSUME NEW p \in Paths, unlink(p) PROVE IInv'
  BY <1>8, unlinkKeepsIInv
<1>9. ASSUME NEW p \in Paths, create(p) PROVE IInv'
  BY <1>9, createKeepsIInv
<1>10. ASSUME NEW old \in Paths, NEW new \in Paths, rename(old, new) PROVE IInv'
  BY <1>10, renameKeepsIInv
<1>11. CASE clear
  <2>1. call \in [Threads -> Call]
    BY DEF IInv, TypeOK
  <2> QED
    BY <2>1, <1>11, SweepKeepsIInv DEF clear
<1>12. ASSUME NEW n \in Timeouts, SetTimeout(n) PROVE IInv'
  BY <1>12 DEF SetTimeout, IInv, TypeOK, EntryOK, CallOK
<1>13. CASE Tick
  <2>1. /\ clock \in Nat /\ clock' = clock + 1
        /\ clock' \in FirstSecond .. LastSecond
        /\ UNCHANGED <<timeout, where, cache, call>>
    BY <1>13 DEF Tick, IInv, TypeOK
  <2>2. TypeOK'
    BY <2>1 DEF IInv, TypeOK
  <2>3. ASSUME NEW p \in DOMAIN cache' PROVE EntryOK(p, cache[p])'
    BY <2>1 DEF IInv, EntryOK
  <2>4. ASSUME NEW t \in Threads PROVE CallOK(call[t])'
    <3>1. CallOK(call[t]) /\ call[t] \in Call
      BY DEF IInv, TypeOK
    <3>2. call[t].now \in Nat
      BY <3>1 DEF Call
    <3> QED
      BY <3>1, <3>2, <2>1 DEF CallOK
  <2> QED
    BY <2>2, <2>3, <2>4 DEF IInv
<1>14. CASE UNCHANGED vars
  BY <1>14 DEF vars, IInv, TypeOK, EntryOK, CallOK
<1> QED
  BY <1>1, <1>2, <1>3, <1>4, <1>5, <1>6, <1>7, <1>8, <1>9, <1>10, <1>11,
     <1>12, <1>13, <1>14 DEF Next

(* No run of the handlers leaves the invariant.                            *)
THEOREM CacheInvariant == Spec => []IInv
<1>1. Init => IInv
  BY InitIInv
<1>2. IInv /\ [Next]_vars => IInv'
  BY NextKeepsIInv
<1> QED
  BY <1>1, <1>2, PTL DEF Spec

(* An open is given a branch, never the empty path of an entry that nobody *)
(* has filled in (policy_cache.cpp:109-123).                               *)
THEOREM CacheTypeCorrect == Spec => []TypeOK
<1>1. IInv => TypeOK
  BY DEF IInv
<1> QED
  BY <1>1, CacheInvariant, PTL

(* An open is never sent where the policy pointed the timeout or longer    *)
(* before it began, whatever is swept, cleared, renamed or set meanwhile.  *)
THEOREM StalenessIsBounded == Spec => []BoundedStaleness
<1>1. IInv => BoundedStaleness
  BY DEF IInv, CallOK, BoundedStaleness
<1> QED
  BY <1>1, CacheInvariant, PTL

(* An open sent to a branch for its own path finds the file there, unless  *)
(* a rename has replaced it since.                                         *)
THEOREM CachedFileIsThere == Spec => []OpenFindsFile
<1>1. IInv => OpenFindsFile
  BY DEF IInv, CallOK, OpenFindsFile
<1> QED
  BY <1>1, CacheInvariant, PTL

=============================================================================
