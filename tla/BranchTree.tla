----------------------------- MODULE BranchTree -----------------------------
(***************************************************************************)
(* The file tree of one branch and the system calls the handlers make on   *)
(* it (the wrappers of fs_base_*.hpp).                                     *)
(*                                                                         *)
(* A tree maps every path of Paths to an entry.  A path is the sequence of *)
(* its names; the branch's own directory is <<>> and always there.  The    *)
(* identity of an inode stands for what it holds; attrs is the set of      *)
(* metadata operations done to it.                                         *)
(*                                                                         *)
(* A call has a set of outcomes [errno, tree, fault]: the one the tree     *)
(* determines and, while `faulty', a failure the tree does not show (EIO,  *)
(* EACCES, a quota ...).                                                   *)
(***************************************************************************)
EXTENDS Integers, Sequences, SequencesExt

CONSTANT Paths          \* closed under dirname, without <<>>

None == [kind |-> "none", id |-> <<>>, attrs |-> {}]
Dir  == [kind |-> "dir", id |-> <<>>, attrs |-> {}]
Inode(kind, id) == [kind |-> kind, id |-> id, attrs |-> {}]

(* fs::path::dirname *)
dirname(path) == Front(path)

(* fs::exists, an lstat *)
exists(tree, path) == path = <<>> \/ tree[path].kind # "none"

isdir(tree, path) == path = <<>> \/ tree[path].kind = "dir"

Below(dir) == {p \in Paths : Len(p) > Len(dir) /\ IsPrefix(dir, p)}

empty(tree, dir) == \A p \in Below(dir) : tree[p].kind = "none"

(* Resolving the directory part of a path. *)
lookup_errno(tree, path) ==
  IF ~exists(tree, dirname(path)) THEN "ENOENT"
  ELSE IF ~isdir(tree, dirname(path)) THEN "ENOTDIR"
  ELSE "none"

Outcomes(tree, errno, changed, faulty) ==
  {[errno |-> errno, tree |-> IF errno = "none" THEN changed ELSE tree,
    fault |-> FALSE]}
  \cup (IF faulty THEN {[errno |-> "EIO", tree |-> tree, fault |-> TRUE]}
                   ELSE {})

-----------------------------------------------------------------------------
make_errno(tree, path) ==
  IF lookup_errno(tree, path) # "none" THEN lookup_errno(tree, path)
  ELSE IF exists(tree, path) THEN "EEXIST" ELSE "none"

(* mkdir, mknod and symlink *)
sys_make(tree, path, entry, faulty) ==
  Outcomes(tree, make_errno(tree, path), [tree EXCEPT ![path] = entry], faulty)

(* open with O_CREAT *)
sys_open(tree, path, entry, faulty) ==
  Outcomes(tree,
           IF lookup_errno(tree, path) # "none" THEN lookup_errno(tree, path)
           ELSE IF tree[path].kind = "dir" THEN "EISDIR" ELSE "none",
           IF exists(tree, path) THEN tree ELSE [tree EXCEPT ![path] = entry],
           faulty)

(* open without O_CREAT, which changes nothing *)
sys_reopen(tree, path, writing, faulty) ==
  Outcomes(tree,
           IF ~exists(tree, path) THEN "ENOENT"
           ELSE IF writing /\ isdir(tree, path) THEN "EISDIR" ELSE "none",
           tree, faulty)

sys_unlink(tree, path, faulty) ==
  Outcomes(tree,
           IF ~exists(tree, path) THEN "ENOENT"
           ELSE IF isdir(tree, path) THEN "EISDIR" ELSE "none",
           [tree EXCEPT ![path] = None], faulty)

sys_rmdir(tree, path, faulty) ==
  Outcomes(tree,
           IF ~exists(tree, path) THEN "ENOENT"
           ELSE IF ~isdir(tree, path) THEN "ENOTDIR"
           ELSE IF ~empty(tree, path) THEN "ENOTEMPTY" ELSE "none",
           [tree EXCEPT ![path] = None], faulty)

(* remove(3): unlink, or rmdir of a directory *)
sys_remove(tree, path, faulty) ==
  IF path \in Paths /\ isdir(tree, path)
  THEN sys_rmdir(tree, path, faulty)
  ELSE IF path \in Paths THEN sys_unlink(tree, path, faulty)
  ELSE Outcomes(tree, "ENOENT", tree, FALSE)

(* A directory takes what is below it along. *)
Moved(tree, old, new) ==
  LET Onto(p) == old \o SubSeq(p, Len(new) + 1, Len(p))
  IN  [p \in Paths |->
         IF p = new \/ p \in Below(new)
         THEN IF Onto(p) \in Paths THEN tree[Onto(p)] ELSE None
         ELSE IF p = old \/ p \in Below(old) THEN None ELSE tree[p]]

rename_errno(tree, old, new) ==
  IF ~exists(tree, old) THEN "ENOENT"
  ELSE IF lookup_errno(tree, new) # "none" THEN lookup_errno(tree, new)
  ELSE IF ~exists(tree, new) THEN "none"
  ELSE IF isdir(tree, old) /\ ~isdir(tree, new) THEN "ENOTDIR"
  ELSE IF ~isdir(tree, old) /\ isdir(tree, new) THEN "EISDIR"
  ELSE IF isdir(tree, new) /\ ~empty(tree, new) THEN "ENOTEMPTY"
  ELSE "none"

(* Of two names for the same inode rename(2) keeps both. *)
sys_rename(tree, old, new, faulty) ==
  Outcomes(tree, rename_errno(tree, old, new),
           IF tree[new].kind # "dir" /\ tree[new] = tree[old] THEN tree
           ELSE Moved(tree, old, new),
           faulty)

sys_link(tree, old, new, faulty) ==
  Outcomes(tree,
           IF ~exists(tree, old) THEN "ENOENT"
           ELSE IF make_errno(tree, new) # "none" THEN make_errno(tree, new)
           ELSE IF isdir(tree, old) THEN "EPERM" ELSE "none",
           [tree EXCEPT ![new] = tree[old]], faulty)

(* The names of an inode: more than one after a link. *)
Names(tree, path) ==
  {path} \cup {p \in Paths : tree[path].kind # "dir" /\ tree[p] = tree[path]}

Marked(tree, path, attrs) ==
  [p \in Paths |-> IF p \in Names(tree, path)
                   THEN [tree[path] EXCEPT !.attrs = attrs] ELSE tree[p]]

(* chmod, chown, utimens, truncate and setxattr leave their mark ... *)
sys_set(tree, path, attr, faulty) ==
  Outcomes(tree,
           IF ~exists(tree, path) THEN "ENOENT"
           ELSE IF attr = "truncate" /\ isdir(tree, path) THEN "EISDIR"
           ELSE "none",
           Marked(tree, path, tree[path].attrs \cup {attr}), faulty)

(* ... and removexattr takes setxattr's away. *)
sys_unset(tree, path, attr, faulty) ==
  Outcomes(tree,
           IF ~exists(tree, path) THEN "ENOENT"
           ELSE IF attr \notin tree[path].attrs THEN "ENODATA" ELSE "none",
           Marked(tree, path, tree[path].attrs \ {attr}), faulty)

-----------------------------------------------------------------------------
(* fs::clonepath: make, from the top, the directories of `dir' that the    *)
(* target lacks.  The source is stat'ed before every mkdir; a target that  *)
(* already has an entry there is left alone.                               *)

ancestor(dir, k) == SubSeq(dir, 1, k)

(* The target once the first k directories are there. *)
cloned(target, dir, k) ==
  [p \in Paths |-> IF target[p] = None /\ \E i \in 1..k : p = ancestor(dir, i)
                   THEN Dir ELSE target[p]]

(* Why the k-th cannot be made. *)
clone_errno(source, target, dir, k) ==
  LET made == make_errno(cloned(target, dir, k - 1), ancestor(dir, k))
  IN  IF ~exists(source, ancestor(dir, k)) THEN "ENOENT"
      ELSE IF ~isdir(source, ancestor(dir, k)) THEN "ENOTDIR"
      ELSE IF made = "EEXIST" THEN "none" ELSE made

(* It ends after the last one or where it stops; the k made before stay. *)
clonepath(source, target, dir, faulty) ==
  LET errno(k) == clone_errno(source, target, dir, k)
      Made == {k \in 0..Len(dir) : \A i \in 1..k : errno(i) = "none"}
      Ends == {k \in Made : k = Len(dir) \/ errno(k + 1) # "none"}
      Faults == IF faulty THEN Made \ {Len(dir)} ELSE {}
  IN  {[errno |-> IF k = Len(dir) THEN "none" ELSE errno(k + 1),
        tree |-> cloned(target, dir, k), fault |-> FALSE] : k \in Ends}
      \cup
      {[errno |-> "EIO", tree |-> cloned(target, dir, k), fault |-> TRUE] :
         k \in Faults}

=============================================================================
