-------------------------- MODULE UgidRWLockProofs --------------------------
(***************************************************************************)
(* For any threads and users: the locks of UgidRWLock keep their readers   *)
(* and writers apart, and a handler runs as its caller.                    *)
(***************************************************************************)
EXTENDS UgidRWLock, TLAPS

(* Who holds the lock of the credentials can be read off pc. *)
HoldersKnown ==
  /\ \A t \in readers : pc[t] \in {"mismatch", "set"}
  /\ \A t \in Threads : pc[t] = "mismatch" => t \in readers
  /\ \A t \in Threads : pc[t] = "set" => t \in readers \/ writer = t
  /\ writer # NoThread => readers = {} /\ pc[writer] = "set"

(* While a thread holds it after ugid_set, the ids are those it asked for. *)
IdsWanted ==
  /\ \A t \in Threads : pc[t] = "set" => want[t] = current
  /\ cred.euid = current.uid

(* The caller is not forgotten while the handler is root. *)
CallerKept ==
  \A t \in Threads :
    /\ pc[t] = "idle" <=> stage[t] \in {"none", "control", "writing"}
    /\ stage[t] \in {"enter", "body"} => want[t] = caller[t]
    /\ stage[t] = "root" => want[t] = Root /\ prev[t] = caller[t]

(* Who holds branches_lock can be read off stage. *)
BranchHoldersKnown ==
  /\ \A t \in Threads : t \in breaders <=> stage[t] \in {"body", "root"}
  /\ \A t \in Threads : stage[t] = "writing" <=> bwriter = t
  /\ bwriter # NoThread => breaders = {}

IInv == TypeOK /\ HoldersKnown /\ IdsWanted /\ CallerKept /\ BranchHoldersKnown

-----------------------------------------------------------------------------
(* ugid::Set leaves the effective uid it was asked for, when it started    *)
(* from the one it believes to be current.                                 *)
LEMMA BecomeSetsUid ==
  ASSUME NEW c \in [euid : Nat, egid : Nat, groups : Nat],
         NEW cur \in [uid : Nat, gid : Nat], c.euid = cur.uid,
         NEW new \in [uid : Nat, gid : Nat]
  PROVE  /\ become(c, cur, new, new.uid) \in [euid : Nat, egid : Nat, groups : Nat]
         /\ become(c, cur, new, new.uid).euid = new.uid
BY DEF become

(* The strengthened invariant holds before the first request. *)
LEMMA InitIInv == Init => IInv
BY NoThreadAssumption, MaxRequestsAssumption
DEF Init, IInv, TypeOK, HoldersKnown, IdsWanted, CallerKept,
    BranchHoldersKnown, Stages, Root

(* ugid_set keeps the strengthened invariant. *)
LEMMA UgidSetKeepsIInv ==
  ASSUME IInv, NEW t \in Threads, rdlock(t) \/ unlock(t) \/ wrlock(t)
  PROVE  IInv'
<1> USE NoThreadAssumption DEF IInv
<1>1. CASE rdlock(t)
  <2> USE <1>1 DEF rdlock
  <2>1. TypeOK'
    BY DEF TypeOK
  <2>2. HoldersKnown'
    BY DEF TypeOK, HoldersKnown
  <2>3. IdsWanted'
    BY DEF TypeOK, IdsWanted
  <2>4. CallerKept'
    BY DEF TypeOK, CallerKept
  <2>5. BranchHoldersKnown'
    BY DEF BranchHoldersKnown
  <2> QED
    BY <2>1, <2>2, <2>3, <2>4, <2>5
<1>2. CASE unlock(t)
  <2> USE <1>2 DEF unlock
  <2>1. TypeOK'
    BY DEF TypeOK
  <2>2. HoldersKnown'
    BY DEF TypeOK, HoldersKnown
  <2>3. IdsWanted'
    BY DEF TypeOK, IdsWanted
  <2>4. CallerKept'
    BY DEF TypeOK, CallerKept
  <2>5. BranchHoldersKnown'
    BY DEF BranchHoldersKnown
  <2> QED
    BY <2>1, <2>2, <2>3, <2>4, <2>5
<1>3. CASE wrlock(t)
  <2> USE <1>3 DEF wrlock
  <2>1. /\ current \in [uid : Nat, gid : Nat]
        /\ want[t] \in [uid : Nat, gid : Nat]
    BY UsersAssumption DEF TypeOK, Root
  <2>2. /\ cred' \in [euid : Nat, egid : Nat, groups : Nat]
        /\ cred'.euid = want[t].uid
    BY <2>1, BecomeSetsUid DEF TypeOK, IdsWanted
  <2>3. current' = want[t]
    OBVIOUS
  <2>4. TypeOK'
    BY <2>2, <2>3 DEF TypeOK
  <2>5. HoldersKnown'
    BY DEF TypeOK, HoldersKnown
  <2>6. IdsWanted'
    BY <2>2, <2>3 DEF TypeOK, IdsWanted, HoldersKnown
  <2>7. CallerKept'
    BY DEF TypeOK, CallerKept
  <2>8. BranchHoldersKnown'
    BY DEF BranchHoldersKnown
  <2> QED
    BY <2>4, <2>5, <2>6, <2>7, <2>8
<1> QED
  BY <1>1, <1>2, <1>3

(* The steps of a handler keep the strengthened invariant. *)
LEMMA HandlerKeepsIInv ==
  ASSUME IInv, NEW t \in Threads,
         ReadGuard(t) \/ SetRootGuard(t) \/ EndRootGuard(t) \/ Return(t)
  PROVE  IInv'
<1> USE NoThreadAssumption DEF IInv
<1>1. CASE ReadGuard(t)
  <2> USE <1>1 DEF ReadGuard
  <2>1. TypeOK'
    BY DEF TypeOK, Stages
  <2>2. HoldersKnown'
    BY DEF TypeOK, HoldersKnown
  <2>3. IdsWanted'
    BY DEF TypeOK, IdsWanted
  <2>4. CallerKept'
    BY DEF TypeOK, CallerKept, IdsWanted
  <2>5. BranchHoldersKnown'
    BY DEF TypeOK, BranchHoldersKnown
  <2> QED
    BY <2>1, <2>2, <2>3, <2>4, <2>5
<1>2. CASE SetRootGuard(t)
  <2> USE <1>2 DEF SetRootGuard, Release
  <2>1. TypeOK'
    BY DEF TypeOK, Stages
  <2>2. HoldersKnown'
    BY DEF TypeOK, HoldersKnown
  <2>3. IdsWanted'
    BY DEF TypeOK, IdsWanted
  <2>4. CallerKept'
    BY DEF TypeOK, CallerKept, IdsWanted
  <2>5. BranchHoldersKnown'
    BY DEF TypeOK, BranchHoldersKnown
  <2> QED
    BY <2>1, <2>2, <2>3, <2>4, <2>5
<1>3. CASE EndRootGuard(t)
  <2> USE <1>3 DEF EndRootGuard, Release
  <2>1. TypeOK'
    BY DEF TypeOK, Stages
  <2>2. HoldersKnown'
    BY DEF TypeOK, HoldersKnown
  <2>3. IdsWanted'
    BY DEF TypeOK, IdsWanted
  <2>4. CallerKept'
    BY DEF TypeOK, CallerKept, IdsWanted
  <2>5. BranchHoldersKnown'
    BY DEF TypeOK, BranchHoldersKnown
  <2> QED
    BY <2>1, <2>2, <2>3, <2>4, <2>5
<1>4. CASE Return(t)
  <2> USE <1>4 DEF Return, Release
  <2>1. TypeOK'
    BY DEF TypeOK, Stages
  <2>2. HoldersKnown'
    BY DEF TypeOK, HoldersKnown
  <2>3. IdsWanted'
    BY DEF TypeOK, IdsWanted
  <2>4. CallerKept'
    BY DEF TypeOK, CallerKept, IdsWanted
  <2>5. BranchHoldersKnown'
    BY DEF TypeOK, BranchHoldersKnown
  <2> QED
    BY <2>1, <2>2, <2>3, <2>4, <2>5
<1> QED
  BY <1>1, <1>2, <1>3, <1>4

(* The control file keeps the strengthened invariant. *)
LEMMA ControlKeepsIInv ==
  ASSUME IInv, NEW t \in Threads,
         Control(t) \/ WriteGuard(t) \/ EndWriteGuard(t)
  PROVE  IInv'
<1> USE NoThreadAssumption, MaxRequestsAssumption DEF IInv, locks
<1>1. CASE Control(t)
  <2> USE <1>1 DEF Control
  <2>1. TypeOK'
    BY DEF TypeOK, Stages
  <2>2. HoldersKnown'
    BY DEF TypeOK, HoldersKnown
  <2>3. IdsWanted'
    BY DEF TypeOK, IdsWanted
  <2>4. CallerKept'
    BY DEF TypeOK, CallerKept, IdsWanted
  <2>5. BranchHoldersKnown'
    BY DEF TypeOK, BranchHoldersKnown
  <2> QED
    BY <2>1, <2>2, <2>3, <2>4, <2>5
<1>2. CASE WriteGuard(t)
  <2> USE <1>2 DEF WriteGuard
  <2>1. TypeOK'
    BY DEF TypeOK, Stages
  <2>2. HoldersKnown'
    BY DEF TypeOK, HoldersKnown
  <2>3. IdsWanted'
    BY DEF TypeOK, IdsWanted
  <2>4. CallerKept'
    BY DEF TypeOK, CallerKept, IdsWanted
  <2>5. BranchHoldersKnown'
    BY DEF TypeOK, BranchHoldersKnown
  <2> QED
    BY <2>1, <2>2, <2>3, <2>4, <2>5
<1>3. CASE EndWriteGuard(t)
  <2> USE <1>3 DEF EndWriteGuard
  <2>1. TypeOK'
    BY DEF TypeOK, Stages
  <2>2. HoldersKnown'
    BY DEF TypeOK, HoldersKnown
  <2>3. IdsWanted'
    BY DEF TypeOK, IdsWanted
  <2>4. CallerKept'
    BY DEF TypeOK, CallerKept, IdsWanted
  <2>5. BranchHoldersKnown'
    BY DEF TypeOK, BranchHoldersKnown
  <2> QED
    BY <2>1, <2>2, <2>3, <2>4, <2>5
<1> QED
  BY <1>1, <1>2, <1>3

(* A new request keeps the strengthened invariant. *)
LEMMA SetKeepsIInv ==
  ASSUME IInv, NEW t \in Threads, NEW user \in Users, Set(t, user)
  PROVE  IInv'
<1> USE NoThreadAssumption, MaxRequestsAssumption DEF IInv, Set, locks
<1>1. TypeOK'
  BY DEF TypeOK, Stages
<1>2. HoldersKnown'
  BY DEF TypeOK, HoldersKnown, CallerKept
<1>3. IdsWanted'
  BY DEF TypeOK, IdsWanted
<1>4. CallerKept'
  BY DEF TypeOK, CallerKept
<1>5. BranchHoldersKnown'
  BY DEF TypeOK, BranchHoldersKnown
<1> QED
  BY <1>1, <1>2, <1>3, <1>4, <1>5

(* Every step keeps the strengthened invariant. *)
LEMMA NextKeepsIInv == IInv /\ [Next]_vars => IInv'
<1> SUFFICES ASSUME IInv, [Next]_vars PROVE IInv'
  OBVIOUS
<1>1. CASE Next
  <2>1. PICK t \in Threads : Begin(t) \/ SetRootGuard(t) \/ Continue(t)
    BY <1>1 DEF Next
  <2>2. CASE Begin(t)
    BY <2>2, SetKeepsIInv, ControlKeepsIInv DEF Begin
  <2>3. CASE SetRootGuard(t) \/ Continue(t)
    BY <2>3, UgidSetKeepsIInv, HandlerKeepsIInv, ControlKeepsIInv DEF Continue
  <2> QED
    BY <2>1, <2>2, <2>3
<1>2. CASE UNCHANGED vars
  BY <1>2 DEF vars, IInv, TypeOK, HoldersKnown, IdsWanted, CallerKept,
              BranchHoldersKnown
<1> QED
  BY <1>1, <1>2

-----------------------------------------------------------------------------
(* The strengthened invariant of ugid_set, SetRootGuard and the two locks  *)
(* holds in every reachable state.                                         *)
THEOREM Inductive == Spec => []IInv
BY InitIInv, NextKeepsIInv, PTL DEF Spec

(* The variables of the two locks, of ugid_set and of the guards keep      *)
(* their types.                                                            *)
THEOREM TypeCorrect == Spec => []TypeOK
<1>1. IInv => TypeOK
  BY DEF IInv
<1> QED
  BY <1>1, Inductive, PTL

(* A handler past ugid::Set has its caller's effective uid, and root's     *)
(* inside SetRootGuard, whatever other threads do to the shared ids.       *)
THEOREM CallerIdentity == Spec => []RunsAsCaller
<1>1. IInv => RunsAsCaller
  BY DEF IInv, RunsAsCaller, IdsWanted, CallerKept, Root
<1> QED
  BY <1>1, Inductive, PTL

(* setxattr of the control file changes the branches while no handler      *)
(* reads them under its ReadGuard.                                         *)
THEOREM BranchesAreStable == Spec => []BranchesStable
<1>1. IInv => BranchesStable
  BY NoThreadAssumption DEF IInv, BranchesStable, BranchHoldersKnown
<1> QED
  BY <1>1, Inductive, PTL

=============================================================================
