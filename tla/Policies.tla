------------------------------ MODULE Policies ------------------------------
(***************************************************************************)
(* The branch-selection policies of mergerfs (policy_*.cpp).               *)
(*                                                                         *)
(* A policy scans the branches in order and fills `paths' with the ones    *)
(* the caller works on.  Its input is a snapshot of every branch:          *)
(*                                                                         *)
(*   mode      "RW", "RO" or "NC"         (Branch::mode)                   *)
(*   exists    the fuse path exists there (fs::exists, an lstat)           *)
(*   mtime     its modification time                                       *)
(*   ok        statvfs of the branch succeeds                              *)
(*   readonly, avail, used                what statvfs reports (fs::info)  *)
(*                                                                         *)
(* A result is [errno |-> e, paths |-> s]: s is a sequence of branch       *)
(* indices, and errno is "none" exactly when the policy returns 0.         *)
(***************************************************************************)
EXTENDS Integers, Sequences, FiniteSets, SequencesExt

CONSTANT UINT64_MAX     \* larger than every size statvfs can report

Modes == {"RW", "RO", "NC"}

Types == {"create", "action", "search"}

PolicyNames == {"all", "epall", "epff", "eplfs", "eplus", "epmfs", "eprand",
                "erofs", "ff", "lfs", "lus", "mfs", "newest", "rand"}

(* Policy::_path_preserving as set in the table of policies. *)
path_preserving(policy) ==
  policy \in {"epall", "epff", "eplfs", "eplus", "epmfs", "eprand"}

ro_or_nc(branch) == branch.mode \in {"RO", "NC"}

(* policy::calc_error: EROFS hides ENOSPC, which hides ENOENT. *)
calc_error_LastWins(cur, err) == err
calc_error(cur, err) ==
  IF \/ cur = "ENOSPC" /\ err = "ENOENT"
     \/ cur = "EROFS" /\ err \in {"ENOENT", "ENOSPC"}
  THEN cur
  ELSE err

-----------------------------------------------------------------------------
(* The checks every policy makes of a branch, in their order: the errno of *)
(* the first one that refuses it, or "none".  `ep' is set for the policies *)
(* that want the path to exist already.                                    *)

create_refusal_NoMinfree(branch, ep, minfreespace) ==
  IF ep /\ ~branch.exists THEN "ENOENT"
  ELSE IF ro_or_nc(branch) THEN "EROFS"
  ELSE IF ~branch.ok THEN "ENOENT"
  ELSE IF branch.readonly THEN "EROFS"
  ELSE "none"

create_refusal(branch, ep, minfreespace) ==
  IF ep /\ ~branch.exists THEN "ENOENT"
  ELSE IF ro_or_nc(branch) THEN "EROFS"
  ELSE IF ~branch.ok THEN "ENOENT"
  ELSE IF branch.readonly THEN "EROFS"
  ELSE IF branch.avail < minfreespace THEN "ENOSPC"
  ELSE "none"

action_refusal_NoRO(branch) ==
  IF ~branch.exists \/ ~branch.ok THEN "ENOENT"
  ELSE IF branch.readonly THEN "EROFS"
  ELSE "none"

action_refusal(branch) ==
  IF ~branch.exists THEN "ENOENT"
  ELSE IF branch.mode = "RO" THEN "EROFS"
  ELSE IF ~branch.ok THEN "ENOENT"
  ELSE IF branch.readonly THEN "EROFS"
  ELSE "none"

(* Searches only look at statvfs when they choose by space. *)
search_refusal(branch, byspace) ==
  IF ~branch.exists \/ (byspace /\ ~branch.ok) THEN "ENOENT" ELSE "none"

refusal(type, branch, ep, byspace, minfreespace) ==
  CASE type = "create" -> create_refusal(branch, ep, minfreespace)
    [] type = "action" -> action_refusal(branch)
    [] type = "search" -> search_refusal(branch, byspace)

-----------------------------------------------------------------------------
(* The three shapes of loop the policies are made of.  Refuse(b) is the    *)
(* errno that filters branch b, acc the locals of the loop.                *)

Start_Unset(key) == [errno |-> "unset", paths |-> <<>>, key |-> key]
Start(key) == [errno |-> "ENOENT", paths |-> <<>>, key |-> key]

refuse(acc, errno) == [acc EXCEPT !.errno = calc_error(@, errno)]

Result(acc) ==
  [errno |-> IF acc.paths = <<>> THEN acc.errno ELSE "none",
   paths |-> acc.paths]

(* Every branch that passes the filters. *)
Collect(branches, Refuse(_)) ==
  LET Visit(acc, i) ==
        IF Refuse(branches[i]) # "none"
        THEN refuse(acc, Refuse(branches[i]))
        ELSE [acc EXCEPT !.paths = Append(@, i)]
  IN  Result(FoldLeft(Visit, Start(0), [i \in DOMAIN branches |-> i]))

(* The first one: the loop returns as soon as it has found it. *)
FirstFound(branches, Refuse(_)) ==
  LET Visit(acc, i) ==
        IF acc.paths # <<>> THEN acc
        ELSE IF Refuse(branches[i]) # "none"
             THEN refuse(acc, Refuse(branches[i]))
             ELSE [acc EXCEPT !.paths = <<i>>]
  IN  Result(FoldLeft(Visit, Start(0), [i \in DOMAIN branches |-> i]))

(* The best so far: Skip(key, bestkey) passes over a branch. *)
Best(branches, Refuse(_), Key(_), Skip(_,_), initial) ==
  LET Visit(acc, i) ==
        IF Refuse(branches[i]) # "none"
        THEN refuse(acc, Refuse(branches[i]))
        ELSE IF Skip(Key(branches[i]), acc.key) THEN acc
        ELSE [acc EXCEPT !.key = Key(branches[i]), !.paths = <<i>>]
  IN  Result(FoldLeft(Visit, Start(initial), [i \in DOMAIN branches |-> i]))

-----------------------------------------------------------------------------
(* The path-preserving policies, one per policy_ep*.cpp file. *)

epall(type, branches, minfreespace) ==
  Collect(branches, LAMBDA b : refusal(type, b, TRUE, FALSE, minfreespace))

epff(type, branches, minfreespace) ==
  FirstFound(branches, LAMBDA b : refusal(type, b, TRUE, FALSE, minfreespace))

(* Of equally good branches the last one wins here ... *)
MostFree(branches, Refuse(_)) ==
  Best(branches, Refuse, LAMBDA b : b.avail, LAMBDA key, best : key < best, 0)

LeastFree(branches, Refuse(_)) ==
  Best(branches, Refuse, LAMBDA b : b.avail,
       LAMBDA key, best : key > best, UINT64_MAX)

(* ... and the first one here. *)
LeastUsed(branches, Refuse(_), initial) ==
  Best(branches, Refuse, LAMBDA b : b.used,
       LAMBDA key, best : key >= best, initial)

epmfs(type, branches, minfreespace) ==
  MostFree(branches, LAMBDA b : refusal(type, b, TRUE, TRUE, minfreespace))

eplfs(type, branches, minfreespace) ==
  LeastFree(branches, LAMBDA b : refusal(type, b, TRUE, TRUE, minfreespace))

(* eplus::search starts its running minimum at 0, the other two at the     *)
(* largest value.                                                          *)
eplus(type, branches, minfreespace) ==
  LeastUsed(branches, LAMBDA b : refusal(type, b, TRUE, TRUE, minfreespace),
            IF type = "search" THEN 0 ELSE UINT64_MAX)

(* A branch older than the best so far is passed over before its statvfs   *)
(* is looked at.  It could only have changed errno, which a loop that has  *)
(* found a branch no longer returns.                                       *)
newest(type, branches, minfreespace) ==
  Best(branches, LAMBDA b : refusal(type, b, TRUE, FALSE, minfreespace),
       LAMBDA b : b.mtime, LAMBDA key, best : key < best, -1)

(* Their counterparts create where the path does not exist yet and         *)
(* otherwise call them.                                                    *)

all(type, branches, minfreespace) ==
  IF type = "create"
  THEN Collect(branches, LAMBDA b : create_refusal(b, FALSE, minfreespace))
  ELSE epall(type, branches, minfreespace)

ff(type, branches, minfreespace) ==
  IF type = "create"
  THEN FirstFound(branches, LAMBDA b : create_refusal(b, FALSE, minfreespace))
  ELSE epff(type, branches, minfreespace)

mfs_Reversed(type, branches, minfreespace) ==
  IF type = "create"
  THEN LeastFree(branches, LAMBDA b : create_refusal(b, FALSE, minfreespace))
  ELSE epmfs(type, branches, minfreespace)

mfs(type, branches, minfreespace) ==
  IF type = "create"
  THEN MostFree(branches, LAMBDA b : create_refusal(b, FALSE, minfreespace))
  ELSE epmfs(type, branches, minfreespace)

lfs(type, branches, minfreespace) ==
  IF type = "create"
  THEN LeastFree(branches, LAMBDA b : create_refusal(b, FALSE, minfreespace))
  ELSE eplfs(type, branches, minfreespace)

lus(type, branches, minfreespace) ==
  IF type = "create"
  THEN LeastUsed(branches, LAMBDA b : create_refusal(b, FALSE, minfreespace),
                 UINT64_MAX)
  ELSE eplus(type, branches, minfreespace)

erofs == [errno |-> "EROFS", paths |-> <<>>]

(* std::random_shuffle of the paths a policy that succeeded returned. *)
random_shuffle(result) ==
  {[result EXCEPT !.paths = s] :
     s \in {t \in [DOMAIN result.paths -> ToSet(result.paths)] :
              ToSet(t) = ToSet(result.paths)}}

rand(type, branches, minfreespace) ==
  random_shuffle(all(type, branches, minfreespace))

eprand(type, branches, minfreespace) ==
  random_shuffle(epall(type, branches, minfreespace))

(* Every result a call of the policy can have. *)
Func(policy, type, branches, minfreespace) ==
  CASE policy = "all"    -> {all(type, branches, minfreespace)}
    [] policy = "epall"  -> {epall(type, branches, minfreespace)}
    [] policy = "ff"     -> {ff(type, branches, minfreespace)}
    [] policy = "epff"   -> {epff(type, branches, minfreespace)}
    [] policy = "mfs"    -> {mfs(type, branches, minfreespace)}
    [] policy = "epmfs"  -> {epmfs(type, branches, minfreespace)}
    [] policy = "lfs"    -> {lfs(type, branches, minfreespace)}
    [] policy = "eplfs"  -> {eplfs(type, branches, minfreespace)}
    [] policy = "lus"    -> {lus(type, branches, minfreespace)}
    [] policy = "eplus"  -> {eplus(type, branches, minfreespace)}
    [] policy = "newest" -> {newest(type, branches, minfreespace)}
    [] policy = "erofs"  -> {erofs}
    [] policy = "rand"   -> rand(type, branches, minfreespace)
    [] policy = "eprand" -> eprand(type, branches, minfreespace)

=============================================================================
