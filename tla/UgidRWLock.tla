----------------------------- MODULE UgidRWLock -----------------------------
(***************************************************************************)
(* The two read-write locks a handler runs under where credentials belong  *)
(* to the whole process (ugid_rwlock.hpp, the build for systems other than *)
(* Linux): the lock of the credentials, taken by ugid::Set, and            *)
(* branches_lock, taken after it.  clonepath_as_root gives the first one   *)
(* up and takes it again (SetRootGuard) while it holds the second.  The    *)
(* control file takes branches_lock to write, and nothing else.            *)
(***************************************************************************)
EXTENDS Credentials

CONSTANTS Threads,
          Users,                  \* who the requests come from
          MaxRequests,            \* bound on the requests per thread
          NoThread,
          BranchesPreferWriters   \* how branches_lock queues, see ReadGuard

ASSUME UsersAssumption == Users \subseteq [uid : Nat, gid : Nat]
ASSUME NoThreadAssumption == NoThread \notin Threads
ASSUME MaxRequestsAssumption == MaxRequests \in Nat
ASSUME PreferAssumption == BranchesPreferWriters \in BOOLEAN

VARIABLES current,            \* currentuid, currentgid
          cred,               \* the process's; groups: the uid they are of
          readers, writer,    \* rwlock of the credentials
          breaders, bwriter,  \* branches_lock
          pc,                 \* where a thread is in ugid_set
          stage,              \* and what it called it for
          want,               \* newuid, newgid of that call
          prev,               \* SetRootGuard's prevuid, prevgid
          caller,             \* history: who the request is from
          requests            \* requests begun so far

vars == <<current, cred, readers, writer, breaders, bwriter, pc, stage, want,
          prev, caller, requests>>

locks == <<readers, writer, breaders, bwriter>>

Init ==
  /\ current = Root
  /\ cred = [euid |-> 0, egid |-> 0, groups |-> 0]
  /\ readers = {} /\ writer = NoThread
  /\ breaders = {} /\ bwriter = NoThread
  /\ pc = [t \in Threads |-> "idle"]
  /\ stage = [t \in Threads |-> "none"]
  /\ want = [t \in Threads |-> Root]
  /\ prev = [t \in Threads |-> Root]
  /\ caller = [t \in Threads |-> Root]
  /\ requests = [t \in Threads |-> 0]

-----------------------------------------------------------------------------
(* ugid_set *)

rdlock(t) ==
  /\ pc[t] = "rdlock"
  /\ writer = NoThread
  /\ \A s \in Threads : pc[s] # "wrlock"   \* PREFER_WRITER_NONRECURSIVE
  /\ readers' = readers \cup {t}
  /\ pc' = [pc EXCEPT ![t] = IF want[t] = current THEN "set" ELSE "mismatch"]
  /\ UNCHANGED <<current, cred, writer, breaders, bwriter, stage, want, prev,
                 caller, requests>>

unlock(t) ==
  /\ pc[t] = "mismatch"
  /\ readers' = readers \ {t}
  /\ pc' = [pc EXCEPT ![t] = "wrlock"]
  /\ UNCHANGED <<current, cred, writer, breaders, bwriter, stage, want, prev,
                 caller, requests>>

wrlock_WithReaders(t) ==
  /\ pc[t] = "wrlock"
  /\ writer = NoThread
  /\ writer' = t
  /\ pc' = [pc EXCEPT ![t] = "set"]
  /\ cred' = become(cred, current, want[t], want[t].uid)
  /\ current' = want[t]
  /\ UNCHANGED <<readers, breaders, bwriter, stage, want, prev, caller, requests>>

(* The values are compared again: another thread may have set them. *)
wrlock(t) ==
  /\ pc[t] = "wrlock"
  /\ readers = {} /\ writer = NoThread
  /\ writer' = t
  /\ pc' = [pc EXCEPT ![t] = "set"]
  /\ IF want[t] = current THEN UNCHANGED <<current, cred>>
     ELSE /\ cred' = become(cred, current, want[t], want[t].uid)
          /\ current' = want[t]
  /\ UNCHANGED <<readers, breaders, bwriter, stage, want, prev, caller, requests>>

(* pthread_rwlock_unlock, whichever way it was locked *)
Release(t) ==
  /\ readers' = readers \ {t}
  /\ writer' = IF writer = t THEN NoThread ELSE writer

-----------------------------------------------------------------------------
(* A handler: Set, ReadGuard, any number of SetRootGuards, and back. *)

Set_Swapped(t, user) ==
  /\ stage[t] = "none" /\ requests[t] < MaxRequests
  /\ requests' = [requests EXCEPT ![t] = @ + 1]
  /\ caller' = [caller EXCEPT ![t] = user]
  /\ want' = [want EXCEPT ![t] = [uid |-> user.gid, gid |-> user.uid]]
  /\ stage' = [stage EXCEPT ![t] = "enter"]
  /\ pc' = [pc EXCEPT ![t] = "rdlock"]
  /\ UNCHANGED <<current, cred, locks, prev>>

Set(t, user) ==
  /\ stage[t] = "none" /\ requests[t] < MaxRequests
  /\ requests' = [requests EXCEPT ![t] = @ + 1]
  /\ caller' = [caller EXCEPT ![t] = user]
  /\ want' = [want EXCEPT ![t] = user]
  /\ stage' = [stage EXCEPT ![t] = "enter"]
  /\ pc' = [pc EXCEPT ![t] = "rdlock"]
  /\ UNCHANGED <<current, cred, locks, prev>>

(* With BranchesPreferWriters a reader queues behind a waiting writer.     *)
(* POSIX leaves the choice open; with the default attributes branches_lock *)
(* has, glibc lets the reader in.                                          *)
ReadGuard(t) ==
  /\ pc[t] = "set" /\ stage[t] = "enter"
  /\ bwriter = NoThread
  /\ BranchesPreferWriters => \A s \in Threads : stage[s] # "control"
  /\ breaders' = breaders \cup {t}
  /\ stage' = [stage EXCEPT ![t] = "body"]
  /\ UNCHANGED <<current, cred, readers, writer, bwriter, pc, want, prev,
                 caller, requests>>

SetRootGuard(t) ==
  /\ pc[t] = "set" /\ stage[t] = "body"
  /\ prev' = [prev EXCEPT ![t] = current]
  /\ Release(t)
  /\ want' = [want EXCEPT ![t] = Root]
  /\ stage' = [stage EXCEPT ![t] = "root"]
  /\ pc' = [pc EXCEPT ![t] = "rdlock"]
  /\ UNCHANGED <<current, cred, breaders, bwriter, caller, requests>>

(* ~SetRootGuard *)
EndRootGuard_KeepLock(t) ==
  /\ pc[t] = "set" /\ stage[t] = "root"
  /\ want' = [want EXCEPT ![t] = prev[t]]
  /\ stage' = [stage EXCEPT ![t] = "body"]
  /\ pc' = [pc EXCEPT ![t] = "rdlock"]
  /\ UNCHANGED <<current, cred, locks, prev, caller, requests>>

EndRootGuard(t) ==
  /\ pc[t] = "set" /\ stage[t] = "root"
  /\ Release(t)
  /\ want' = [want EXCEPT ![t] = prev[t]]
  /\ stage' = [stage EXCEPT ![t] = "body"]
  /\ pc' = [pc EXCEPT ![t] = "rdlock"]
  /\ UNCHANGED <<current, cred, breaders, bwriter, prev, caller, requests>>

(* The handler returns: ~ReadGuard, ~Set. *)
Return(t) ==
  /\ pc[t] = "set" /\ stage[t] = "body"
  /\ breaders' = breaders \ {t}
  /\ Release(t)
  /\ stage' = [stage EXCEPT ![t] = "none"]
  /\ pc' = [pc EXCEPT ![t] = "idle"]
  /\ UNCHANGED <<current, cred, bwriter, want, prev, caller, requests>>

(* setxattr of the control file waits for, takes and gives up the lock. *)
Control(t) ==
  /\ stage[t] = "none" /\ requests[t] < MaxRequests
  /\ requests' = [requests EXCEPT ![t] = @ + 1]
  /\ stage' = [stage EXCEPT ![t] = "control"]
  /\ UNCHANGED <<current, cred, locks, pc, want, prev, caller>>

WriteGuard_Eager(t) ==
  /\ stage[t] = "control" /\ bwriter = NoThread
  /\ bwriter' = t
  /\ stage' = [stage EXCEPT ![t] = "writing"]
  /\ UNCHANGED <<current, cred, readers, writer, breaders, pc, want, prev,
                 caller, requests>>

WriteGuard(t) ==
  /\ stage[t] = "control" /\ bwriter = NoThread /\ breaders = {}
  /\ bwriter' = t
  /\ stage' = [stage EXCEPT ![t] = "writing"]
  /\ UNCHANGED <<current, cred, readers, writer, breaders, pc, want, prev,
                 caller, requests>>

EndWriteGuard(t) ==
  /\ stage[t] = "writing"
  /\ bwriter' = NoThread
  /\ stage' = [stage EXCEPT ![t] = "none"]
  /\ UNCHANGED <<current, cred, readers, writer, breaders, pc, want, prev,
                 caller, requests>>

-----------------------------------------------------------------------------
Begin(t) == Control(t) \/ \E user \in Users : Set(t, user)

(* A thread that is not idle goes on; whether it clones another path is    *)
(* up to the request.                                                      *)
Continue(t) ==
  \/ rdlock(t) \/ unlock(t) \/ wrlock(t)
  \/ ReadGuard(t) \/ EndRootGuard(t) \/ Return(t)
  \/ WriteGuard(t) \/ EndWriteGuard(t)

Next == \E t \in Threads : Begin(t) \/ SetRootGuard(t) \/ Continue(t)

(* Threads that can run do.  A handler leaves its loop: Return stays       *)
(* possible between two clones, and is not passed over for ever.           *)
Fairness ==
  \A t \in Threads : WF_vars(Continue(t)) /\ SF_vars(Return(t))

Spec == Init /\ [][Next]_vars /\ Fairness

-----------------------------------------------------------------------------
Stages == {"none", "enter", "body", "root", "control", "writing"}

TypeOK ==
  /\ current \in Users \cup {Root}
  /\ cred \in [euid : Nat, egid : Nat, groups : Nat]
  /\ readers \subseteq Threads /\ breaders \subseteq Threads
  /\ writer \in Threads \cup {NoThread}
  /\ bwriter \in Threads \cup {NoThread}
  /\ pc \in [Threads -> {"idle", "rdlock", "mismatch", "wrlock", "set"}]
  /\ stage \in [Threads -> Stages]
  /\ want \in [Threads -> Users \cup {Root}]
  /\ prev \in [Threads -> Users \cup {Root}]
  /\ caller \in [Threads -> Users \cup {Root}]
  /\ requests \in [Threads -> 0 .. MaxRequests]

(* A handler past ugid::Set runs with the effective uid of its caller, and *)
(* with root's inside a SetRootGuard, whatever the other threads, which    *)
(* share the credentials, do meanwhile; after the guard it is the caller   *)
(* again, although the lock was given up twice.                            *)
RunsAsCaller ==
  \A t \in Threads :
    pc[t] = "set" =>
      /\ stage[t] \in {"enter", "body"} => cred.euid = caller[t].uid
      /\ stage[t] = "root" => cred.euid = 0

(* The control file changes the branches while no handler iterates over    *)
(* them, also not one that has given up the other lock to become root.     *)
BranchesStable ==
  \A t, s \in Threads :
    stage[t] = "writing" => stage[s] \notin {"body", "root", "writing"} \/ s = t

(* Threads trying to change credentials do not starve.  Of the program     *)
(* README.md says so because the lock of the credentials prefers writers;  *)
(* it also takes a branches_lock that does not.                            *)
CredentialsChange ==
  \A t \in Threads : pc[t] \in {"rdlock", "wrlock"} ~> pc[t] = "set"

(* Every request is served: the two locks, one of them given up and taken  *)
(* again under the other, neither deadlock nor starve a thread.            *)
RequestsServed ==
  \A t \in Threads : stage[t] # "none" ~> stage[t] = "none"

=============================================================================
