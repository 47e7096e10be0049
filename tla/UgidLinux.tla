------------------------------ MODULE UgidLinux ------------------------------
(***************************************************************************)
(* The credentials of one worker thread on Linux, where they belong to the *)
(* thread (ugid_linux.hpp), with the thread's cache of supplementary       *)
(* groups (gidcache.cpp).  Threads share nothing here, so one is enough.   *)
(***************************************************************************)
EXTENDS Credentials, Integers, SequencesExt

CONSTANTS Users,     \* who the requests come from
          Groups,    \* the system's group database: [known uids -> sets of gids]
          MAXRECS, MAXGIDS

ASSUME UsersAssumption == Users \subseteq [uid : Nat, gid : Nat]
ASSUME SizesAssumption == MAXRECS \in Nat \ {0} /\ MAXGIDS \in Nat \ {0}

VARIABLES current,   \* currentuid, currentgid
          cred,      \* the thread's credentials
          recs,      \* gid_t_cache
          stage,     \* idle, in a handler, or in its SetRootGuard
          prev,      \* SetRootGuard's prevuid, prevgid
          caller     \* history: who the request is from

vars == <<current, cred, recs, stage, prev, caller>>

(* Threads start as root; the first Set finds that with geteuid. *)
Init ==
  /\ current = Root
  /\ cred = [euid |-> 0, egid |-> 0, groups |-> {0}]
  /\ recs = <<>>
  /\ stage = "idle"
  /\ prev = Root
  /\ caller = Root

-----------------------------------------------------------------------------
(* gid_t_cache.  Positions count from 1, end() is size + 1. *)

lower_bound_TooFar(uid) ==
  LET search[begin \in 1 .. Len(recs) + 1, count \in 0 .. Len(recs)] ==
        IF count = 0 THEN begin
        ELSE LET step == count \div 2
             IN  IF recs[begin + step].uid <= uid
                 THEN search[begin + step + 1, count - (step + 1)]
                 ELSE search[begin, step]
  IN  search[1, Len(recs)]

lower_bound(uid) ==
  LET search[begin \in 1 .. Len(recs) + 1, count \in 0 .. Len(recs)] ==
        IF count = 0 THEN begin
        ELSE LET step == count \div 2
             IN  IF recs[begin + step].uid < uid
                 THEN search[begin + step + 1, count - (step + 1)]
                 ELSE search[begin, step]
  IN  search[1, Len(recs)]

allocrec_Grows == {[at |-> Len(recs) + 1, old |-> [uid |-> 0, gids |-> {}]]}

(* A slot never used is zeroed; any slot may be taken over once all are. *)
allocrec ==
  IF Len(recs) = MAXRECS THEN {[at |-> i, old |-> recs[i]] : i \in 1 .. MAXRECS}
  ELSE {[at |-> Len(recs) + 1, old |-> [uid |-> 0, gids |-> {}]]}

(* getgrouplist fails when the list is longer than MAXGIDS. *)
getgrouplist(uid, gid) == Groups[uid] \cup {gid}

cache_StaleGids(old, uid, gid) == [uid |-> uid, gids |-> old.gids]

(* A uid without an account leaves the gids as they are in the slot. *)
cache(old, uid, gid) ==
  [uid  |-> uid,
   gids |-> IF uid \notin DOMAIN Groups THEN old.gids
            ELSE LET list == getgrouplist(uid, gid)
                 IN  IF Cardinality(list) > MAXGIDS THEN {gid} ELSE list]

sort(s) == SortSeq(s, LAMBDA a, b : a.uid < b.uid)

(* What initgroups may leave: the cache, and the groups it installs. *)
initgroups(uid, gid) ==
  LET i == lower_bound(uid)
  IN  IF i = Len(recs) + 1 \/ recs[i].uid # uid
      THEN {LET rec == cache(slot.old, uid, gid)
            IN  [recs |-> sort(IF slot.at > Len(recs) THEN Append(recs, rec)
                               ELSE [recs EXCEPT ![slot.at] = rec]),
                 groups |-> rec.gids] : slot \in allocrec}
      ELSE {[recs |-> recs, groups |-> recs[i].gids]}

-----------------------------------------------------------------------------
(* ugid::Set *)
Set(new) ==
  \/ /\ new = current
     /\ UNCHANGED <<current, cred, recs>>
  \/ /\ new # current
     /\ IF new.gid # 0
        THEN \E installed \in initgroups(new.uid, new.gid) :
               /\ cred' = become(cred, current, new, installed.groups)
               /\ recs' = installed.recs
        ELSE /\ cred' = become(cred, current, new, {})
             /\ recs' = recs
     /\ current' = new

(* A handler sets its caller's credentials and leaves them in place. *)
Handle(user) ==
  /\ stage = "idle"
  /\ Set(user)
  /\ caller' = user
  /\ stage' = "body"
  /\ prev' = prev

SetRootGuard_Forgets ==
  /\ stage = "body"
  /\ prev' = prev
  /\ Set(Root)
  /\ stage' = "root"
  /\ caller' = caller

SetRootGuard ==
  /\ stage = "body"
  /\ prev' = current
  /\ Set(Root)
  /\ stage' = "root"
  /\ caller' = caller

(* ~SetRootGuard *)
EndRootGuard ==
  /\ stage = "root"
  /\ Set(prev)
  /\ stage' = "body"
  /\ UNCHANGED <<prev, caller>>

Return ==
  /\ stage = "body"
  /\ stage' = "idle"
  /\ UNCHANGED <<current, cred, recs, prev, caller>>

Next ==
  \/ \E user \in Users : Handle(user)
  \/ SetRootGuard \/ EndRootGuard \/ Return

Spec == Init /\ [][Next]_vars

-----------------------------------------------------------------------------
TypeOK ==
  /\ current \in Users \cup {Root} /\ prev \in Users \cup {Root}
  /\ cred.euid \in Nat /\ cred.egid \in Nat
  /\ Len(recs) <= MAXRECS
  /\ stage \in {"idle", "body", "root"}

(* The records stay in the order lower_bound searches by, and no uid has   *)
(* two, so that a user who is in the cache is found in it.                 *)
CacheSorted == \A i \in 1 .. Len(recs) - 1 : recs[i].uid < recs[i + 1].uid

(* A handler acts with its caller's uid, before and after it was root to   *)
(* clone a path, and with root's in between.                               *)
RunsAsCaller ==
  /\ stage = "body" => cred.euid = caller.uid
  /\ stage = "root" => cred.euid = 0

(* A handler of a user with an account acts with all of the user's groups, *)
(* if they fit a record, and with nobody else's: records evicted and used  *)
(* again, and the change to root and back, do not mix users up.  The       *)
(* record may hold the primary group of an earlier request of the user.    *)
CallerGroups ==
  /\ stage = "body" /\ caller.gid # 0 /\ caller.uid \in DOMAIN Groups
  /\ Cardinality(Groups[caller.uid]) < MAXGIDS
  => \E user \in Users : /\ user.uid = caller.uid
                         /\ cred.groups = getgrouplist(user.uid, user.gid)

=============================================================================
