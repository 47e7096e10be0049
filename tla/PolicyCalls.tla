----------------------------- MODULE PolicyCalls -----------------------------
(***************************************************************************)
(* Calls of the policies on snapshots of the branches.  The properties     *)
(* compare what the loops of Policies compute with what the documentation  *)
(* and the callers of the policies rely on.                                *)
(***************************************************************************)
EXTENDS Policies

CONSTANTS Snapshots,      \* the snapshots considered: sequences of branches
          minfreespace

VARIABLES branches,       \* what the branches look like
          call,           \* <<policy, type>> or Idle
          result          \* what that call returned

vars == <<branches, call, result>>

Idle == <<"none", "none">>

NoResult == [errno |-> "none", paths |-> <<>>]

Init ==
  /\ branches \in Snapshots
  /\ call = Idle
  /\ result = NoResult

Call(policy, type) ==
  /\ call = Idle
  /\ call' = <<policy, type>>
  /\ result' \in Func(policy, type, branches, minfreespace)
  /\ UNCHANGED branches

Return ==
  /\ call # Idle
  /\ call' = Idle
  /\ result' = NoResult
  /\ UNCHANGED branches

Next ==
  \/ \E policy \in PolicyNames, type \in Types : Call(policy, type)
  \/ Return

Spec == Init /\ [][Next]_vars

-----------------------------------------------------------------------------
Called == call # Idle
Policy == call[1]
Type == call[2]

TypeOK ==
  /\ branches \in Snapshots
  /\ call \in {Idle} \cup (PolicyNames \X Types)
  /\ result.errno \in {"none", "ENOENT", "ENOSPC", "EROFS"}
  /\ result.paths \in Seq(DOMAIN branches)

(* README "Filters", declaratively: the branches a call may return. *)
NeedsPath == Type # "create" \/ path_preserving(Policy) \/ Policy = "newest"

Usable(b) ==
  CASE Type = "create" -> /\ b.mode = "RW"
                          /\ b.ok /\ ~b.readonly
                          /\ b.avail >= minfreespace
    [] Type = "action" -> b.mode # "RO" /\ b.ok /\ ~b.readonly
    [] Type = "search" -> Policy \in {"mfs", "epmfs", "lfs", "eplfs"} => b.ok

Eligible ==
  {i \in DOMAIN branches : /\ NeedsPath => branches[i].exists
                           /\ Usable(branches[i])}

LeastUsedSearch == Type = "search" /\ Policy \in {"lus", "eplus"}

(* A policy returns only branches that pass the filters README.md          *)
(* describes for its category, in no branch twice; the ones that name a    *)
(* single branch return one; and it fails exactly when every branch is     *)
(* filtered (erofs always fails, least-used searches are treated below).   *)
FiltersObeyed ==
  Called /\ Policy # "erofs" /\ ~LeastUsedSearch =>
    /\ ToSet(result.paths) \subseteq Eligible
    /\ Len(result.paths) = Cardinality(ToSet(result.paths))
    /\ (result.errno = "none") <=> (Eligible # {})
    /\ (result.errno = "none") <=> (result.paths # <<>>)
    /\ Policy \in {"all", "epall", "rand", "eprand"} =>
         ToSet(result.paths) = Eligible

(* The branch a ranking policy returns is one no eligible branch beats,    *)
(* and ties go the way the comparisons of the loops send them: to the last *)
(* of equals for free space and mtime, to the first for used space.        *)
Beats(i, j) ==
  LET a == branches[i]
      b == branches[j]
      later(x, y) == x > y \/ (x = y /\ i > j)
      earlier(x, y) == x < y \/ (x = y /\ i < j)
  IN  CASE Policy \in {"mfs", "epmfs"} -> later(a.avail, b.avail)
        [] Policy \in {"lfs", "eplfs"} -> a.avail < b.avail
                                          \/ (a.avail = b.avail /\ i > j)
        [] Policy \in {"lus", "eplus"} -> earlier(a.used, b.used)
        [] Policy = "newest"           -> later(a.mtime, b.mtime)
        [] Policy \in {"ff", "epff"}   -> i < j
        [] OTHER                       -> FALSE

BestBranchChosen ==
  Called /\ result.paths # <<>> =>
    \A i \in Eligible : ~Beats(i, result.paths[1])

(* On failure errno names the most severe reason any branch was filtered   *)
(* for, whatever the order of the branches: EROFS, then ENOSPC, then       *)
(* ENOENT (policy::calc_error).                                            *)
Reasons ==
  {CASE Type = "create" -> create_refusal(branches[i], NeedsPath, minfreespace)
     [] Type = "action" -> action_refusal(branches[i])
     [] Type = "search" -> "ENOENT" : i \in DOMAIN branches}

MostSevereErrno ==
  Called /\ result.errno # "none" /\ Policy # "erofs" =>
    result.errno = IF "EROFS" \in Reasons THEN "EROFS"
                   ELSE IF "ENOSPC" \in Reasons THEN "ENOSPC"
                   ELSE "ENOENT"

(* README.md on eplus: "Of all the branches on which the relative path     *)
(* exists choose the drive with the least used space", which lus shares in *)
(* searches: such a search finds a path that exists on a working drive.    *)
LeastUsedSearchFinds ==
  Called /\ LeastUsedSearch =>
    ((result.errno = "none") <=>
       \E i \in DOMAIN branches : branches[i].exists /\ branches[i].ok)

=============================================================================
