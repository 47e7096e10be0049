---------------------------- MODULE UnionFSProofs ----------------------------
(***************************************************************************)
(* A request that fails leaves the files of every branch alone, for any    *)
(* number of branches, any paths, policies and drives, and any number of   *)
(* failing system calls.                                                   *)
(***************************************************************************)
EXTENDS UnionFS, TLAPS

(* Tree `is' has what `was' has, and perhaps directories where it had      *)
(* nothing.                                                                *)
Grown(was, is) ==
  \A p \in Paths : was[p] = is[p] \/ (was[p] = None /\ is[p] = Dir)

(* An outcome of working on a tree: failing, it only added directories. *)
Harmless(tree, outcomes) ==
  \A o \in outcomes : o.errno # "none" => Grown(tree, o.tree)

(* Growing twice, as by a clone and then another, is growing. *)
LEMMA GrownTransitive ==
  ASSUME NEW a, NEW b, NEW c, Grown(a, b), Grown(b, c)
  PROVE  Grown(a, c)
BY DEF Grown, None, Dir

(* A system call that fails leaves the branch as it is. *)
LEMMA OutcomesHarmless ==
  ASSUME NEW tree, NEW errno, NEW changed, NEW mayfail
  PROVE  /\ Harmless(tree, Outcomes(tree, errno, changed, mayfail))
         /\ \A o \in Outcomes(tree, errno, changed, mayfail) :
              o.errno # "none" => o.tree = tree
BY DEF Harmless, Outcomes, Grown

(* fs::clonepath adds directories, also where it stops half way. *)
LEMMA ClonepathGrows ==
  ASSUME NEW source, NEW target, NEW dir, NEW mayfail,
         NEW o \in clonepath(source, target, dir, mayfail)
  PROVE  Grown(target, o.tree)
<1>1. \A k : Grown(target, cloned(target, dir, k))
  BY DEF Grown, cloned
<1> DEFINE errno(k) == clone_errno(source, target, dir, k)
           Made == {k \in 0..Len(dir) : \A i \in 1..k : errno(i) = "none"}
           Ends == {k \in Made : k = Len(dir) \/ errno(k + 1) # "none"}
           Faults == IF mayfail THEN Made \ {Len(dir)} ELSE {}
           why(k) == IF k = Len(dir) THEN "none" ELSE errno(k + 1)
<1>2. \/ o \in {[errno |-> why(k), tree |-> cloned(target, dir, k),
                 fault |-> FALSE] : k \in Ends}
      \/ o \in {[errno |-> "EIO", tree |-> cloned(target, dir, k),
                 fault |-> TRUE] : k \in Faults}
  BY Zenon DEF clonepath
<1> HIDE DEF Ends, Faults, why
<1>3. \E k : o.tree = cloned(target, dir, k)
  BY <1>2
<1> QED  BY <1>1, <1>3

(* So does fs::clonepath_as_root, which may have nothing to do. *)
LEMMA CloneAsRootGrows ==
  ASSUME NEW from, NEW to, NEW dir, NEW o \in clonepath_as_root(from, to, dir)
  PROVE  Grown(fs[to], o.tree)
<1>1. CASE from = to
  BY <1>1 DEF clonepath_as_root, Grown
<1>2. CASE from # to
  BY <1>2, ClonepathGrows DEF clonepath_as_root
<1> QED  BY <1>1, <1>2

-----------------------------------------------------------------------------
(* The inductive invariant: nothing is lost before the first success, and  *)
(* only a rename that succeeded reaches the removals.                      *)
IInv ==
  /\ fs = [b \in Branches |-> fs[b]]
  /\ FailureChangesNothing
  /\ pc = "remove" => error = "none"
  /\ pc \in {"idle", "loop", "remove", "done"}

(* Visiting a branch, whatever the calls made there were. *)
LEMMA VisitKeepsIInv ==
  ASSUME IInv, NEW b, NEW o, pc = "loop", Visit(b, o),
         o.errno # "none" /\ req.op \notin OpenOps => Grown(fs[b], o.tree)
  PROVE  IInv'
<1>1. /\ fs' = [fs EXCEPT ![b] = o.tree]
      /\ error' = calc(o.errno, error)
      /\ pc' = pc /\ before' = before /\ req' = req
  BY DEF Visit
<1>2. fs' = [c \in Branches |-> fs'[c]]
  BY <1>1 DEF IInv
<1>3. ASSUME error' # "none", req'.op \notin OpenOps
      PROVE  OnlyDirsAdded(before', fs')
  <2>1. o.errno # "none" /\ error # "none" /\ req.op \notin OpenOps
    BY <1>1, <1>3 DEF calc
  <2>2. \A c \in Branches : Grown(before[c], fs[c])
    BY <2>1 DEF IInv, FailureChangesNothing, OnlyDirsAdded, Grown
  <2>3. \A c \in Branches : Grown(fs[c], fs'[c])
    BY <1>1, <2>1 DEF IInv, Grown
  <2>4. \A c \in Branches : Grown(before'[c], fs'[c])
    BY <1>1, <2>2, <2>3, GrownTransitive
  <2> QED  BY <2>4 DEF OnlyDirsAdded, Grown
<1> QED  BY <1>1, <1>2, <1>3 DEF IInv, FailureChangesNothing

(* Every system call fails without a trace. *)
LEMMA CallsHarmless ==
  ASSUME NEW tree, NEW path, NEW new, NEW x, NEW mayfail
  PROVE  /\ Harmless(tree, sys_make(tree, path, x, mayfail))
         /\ Harmless(tree, sys_open(tree, path, x, mayfail))
         /\ Harmless(tree, sys_unlink(tree, path, mayfail))
         /\ Harmless(tree, sys_rmdir(tree, path, mayfail))
         /\ Harmless(tree, sys_rename(tree, path, new, mayfail))
         /\ Harmless(tree, sys_link(tree, path, new, mayfail))
         /\ Harmless(tree, sys_set(tree, path, x, mayfail))
         /\ Harmless(tree, sys_unset(tree, path, x, mayfail))
BY OutcomesHarmless, Zenon
   DEF sys_make, sys_open, sys_unlink, sys_rmdir, sys_rename, sys_link,
       sys_set, sys_unset

(* The loops of create, mkdir, mknod and symlink. *)
LEMMA CreateLoopKeepsIInv ==
  ASSUME IInv, CreateLoop
  PROVE  IInv'
<1> DEFINE b == Head(todo)
           dir == dirname(req.path)
<1>1. PICK o \in AndThen(clonepath_as_root(src, b, dir),
                         LAMBDA tree : create_core(b, tree)) : Visit(b, o)
  BY Zenon DEF CreateLoop
<1>2. PICK c \in clonepath_as_root(src, b, dir) :
        o = c \/ o \in create_core(b, c.tree)
  BY <1>1 DEF AndThen
<1>3. Grown(fs[b], c.tree)
  BY <1>2, CloneAsRootGrows
<1>4. Harmless(c.tree, create_core(b, c.tree))
  BY CallsHarmless DEF create_core
<1>5. o.errno # "none" => Grown(fs[b], o.tree)
  BY <1>2, <1>3, <1>4, GrownTransitive DEF Harmless
<1> QED  BY <1>1, <1>5, VisitKeepsIInv DEF CreateLoop

(* The loops of chmod, chown, unlink and the other actions. *)
LEMMA ActionLoopKeepsIInv ==
  ASSUME IInv, ActionLoop
  PROVE  IInv'
<1> DEFINE b == Head(todo)
<1>1. PICK o \in action_core(fs[b]) : Visit(b, o)
  BY Zenon DEF ActionLoop
<1>2. Harmless(fs[b], action_core(fs[b]))
  BY CallsHarmless DEF action_core
<1>3. o.errno # "none" => Grown(fs[b], o.tree)
  BY <1>1, <1>2 DEF Harmless
<1> QED  BY <1>1, <1>3, VisitKeepsIInv DEF ActionLoop

-----------------------------------------------------------------------------
(* A link that fails after the clone leaves the clone only. *)
LEMMA CloneAndLinkHarmless ==
  ASSUME NEW from, NEW b
  PROVE  Harmless(fs[b], CloneAndLink(from, b))
<1> SUFFICES ASSUME NEW o \in CloneAndLink(from, b), o.errno # "none"
             PROVE  Grown(fs[b], o.tree)
  BY DEF Harmless
<1> DEFINE dir == dirname(req.new)
<1>1. PICK c \in clonepath_as_root(from, b, dir) :
        o = c \/ o \in sys_link(c.tree, req.path, req.new, faulty)
  BY DEF CloneAndLink, AndThen
<1>2. Grown(fs[b], c.tree)
  BY <1>1, CloneAsRootGrows
<1>3. Harmless(c.tree, sys_link(c.tree, req.path, req.new, faulty))
  BY CallsHarmless
<1> QED  BY <1>1, <1>2, <1>3, GrownTransitive DEF Harmless

(* A branch the policies refuse is not touched. *)
LEMMA RefusedHarmless ==
  ASSUME NEW b, NEW errno
  PROVE  Harmless(fs[b], Refused(b, errno))
BY DEF Harmless, Refused, Grown

(* The loop of link, with path preservation and without. *)
LEMMA LinkLoopKeepsIInv ==
  ASSUME IInv, LinkLoop
  PROVE  IInv'
<1> DEFINE b == Head(todo)
<1>1. PICK o \in IF PreservePath THEN link_preserve_path_core(b)
                 ELSE CloneAndLink(src, b) : Visit(b, o)
  BY Zenon DEF LinkLoop
<1>2. Harmless(fs[b], LinkAgain(b))
  BY RefusedHarmless, CloneAndLinkHarmless
     DEF Harmless, LinkAgain, IfWouldCreate
<1>3. Harmless(fs[b], sys_link(fs[b], req.path, req.new, faulty))
  BY CallsHarmless
<1>4. Harmless(fs[b], link_preserve_path_core(b))
  BY <1>2, <1>3 DEF Harmless, link_preserve_path_core
<1>5. o.errno # "none" => Grown(fs[b], o.tree)
  BY <1>1, <1>4, CloneAndLinkHarmless DEF Harmless
<1> QED  BY <1>1, <1>5, VisitKeepsIInv DEF LinkLoop

(* The second attempt of _rename_preserve_path_core. *)
LEMMA RenameAgainHarmless ==
  ASSUME NEW b
  PROVE  Harmless(fs[b], RenameAgain(b))
<1> DEFINE dir == dirname(req.new)
           Retry(c) == sys_rename(c.tree, req.path, req.new, faulty /\ ~c.fault)
<1>1. ASSUME NEW from, NEW c \in clonepath_as_root(from, b, dir),
             NEW o \in Retry(c), o.errno # "none"
      PROVE  Grown(fs[b], o.tree)
  <2>1. Grown(fs[b], c.tree)
    BY <1>1, CloneAsRootGrows
  <2>2. Harmless(c.tree, Retry(c))
    BY CallsHarmless
  <2> QED  BY <1>1, <2>1, <2>2, GrownTransitive DEF Harmless
<1>2. ASSUME NEW c, NEW o \in Retry(c), NEW f
      PROVE  LET p == [o EXCEPT !.fault = f]
             IN  p.errno = o.errno /\ p.tree = o.tree
  BY <1>2 DEF sys_rename, Outcomes
<1> SUFFICES ASSUME NEW p \in RenameAgain(b), p.errno # "none"
             PROVE  Grown(fs[b], p.tree)
  BY DEF Harmless
<1>3. \/ \E errno : p \in Refused(b, errno)
      \/ \E from : \E c \in clonepath_as_root(from, b, dir) :
           \E o \in Retry(c) : p = [o EXCEPT !.fault = @ \/ c.fault]
  BY DEF RenameAgain, IfWouldCreate
<1>4. CASE \E errno : p \in Refused(b, errno)
  BY <1>4, RefusedHarmless DEF Harmless
<1>5. ASSUME NEW from, NEW c \in clonepath_as_root(from, b, dir),
             NEW o \in Retry(c), p = [o EXCEPT !.fault = @ \/ c.fault]
      PROVE  Grown(fs[b], p.tree)
  <2> HIDE DEF Retry
  <2>1. p.errno = o.errno /\ p.tree = o.tree
    BY <1>2, <1>5
  <2> QED  BY <1>1, <1>5, <2>1
<1> QED  BY <1>3, <1>4, <1>5

(* The loop of rename, with path preservation and without. *)
LEMMA RenameLoopKeepsIInv ==
  ASSUME IInv, RenameLoop
  PROVE  IInv'
<1> DEFINE b == Head(todo)
           dir == dirname(req.new)
<1>1. CASE b \notin members
  BY <1>1 DEF RenameLoop, IInv, FailureChangesNothing
<1>2. CASE b \in members /\ ~PreservePath
  <2>1. _rename_create_path_core(b)
    BY <1>2, Zenon DEF RenameLoop
  <2>2. PICK c \in clonepath_as_root(src, b, dir) :
          \/ c.errno # "none" /\ Visit(b, c)
          \/ \E o \in sys_rename(c.tree, req.path, req.new, faulty) : Visit(b, o)
    BY <2>1, Zenon DEF _rename_create_path_core
  <2>3. Grown(fs[b], c.tree)
    BY <2>2, CloneAsRootGrows
  <2>4. Harmless(c.tree, sys_rename(c.tree, req.path, req.new, faulty))
    BY CallsHarmless
  <2> QED  BY <2>2, <2>3, <2>4, GrownTransitive, VisitKeepsIInv
              DEF Harmless, RenameLoop
<1>3. CASE b \in members /\ PreservePath
  <2>1. _rename_preserve_path_core(b)
    BY <1>3, Zenon DEF RenameLoop
  <2>2. PICK o \in RenameAgain(b)
                    \cup sys_rename(fs[b], req.path, req.new, faulty) : Visit(b, o)
    BY <2>1 DEF _rename_preserve_path_core
  <2>3. Harmless(fs[b], RenameAgain(b))
    BY RenameAgainHarmless
  <2>4. Harmless(fs[b], sys_rename(fs[b], req.path, req.new, faulty))
    BY CallsHarmless
  <2> QED  BY <2>2, <2>3, <2>4, VisitKeepsIInv DEF Harmless, RenameLoop
<1> QED  BY <1>1, <1>2, <1>3

-----------------------------------------------------------------------------
(* Nothing has been changed before the first request. *)
LEMMA InitIInv == Init => IInv
BY InitialFSAssumption
   DEF Init, IInv, FailureChangesNothing, OnlyDirsAdded

(* A request starts from the branches as it finds them. *)
LEMMA BeginKeepsIInv ==
  ASSUME IInv, NEW r, Begin(r)
  PROVE  IInv'
<1>1. Request(r) /\ ((\E errno : Fail(errno)) \/ (\E s, m, from : Loop(s, m, from)))
  BY Zenon DEF Begin, create, mkdir, mknod, symlink, chmod, chown, utimens,
               truncate, setxattr, removexattr, unlink, rmdir, rename, link,
               open, BeginCreate, BeginAction, xattr_disabled
<1>2. /\ fs' = fs /\ before' = fs
      /\ pc' \in {"done", "loop"}
  BY <1>1 DEF Request, Fail, Loop
<1>3. OnlyDirsAdded(before', fs')
  BY <1>2 DEF OnlyDirsAdded
<1> QED  BY <1>2, <1>3 DEF IInv, FailureChangesNothing

(* Every step of a handler keeps the strengthened invariant. *)
LEMMA NextKeepsIInv == IInv /\ [Next]_vars => IInv'
<1> SUFFICES ASSUME IInv, [Next]_vars PROVE IInv'
  OBVIOUS
<1>1. ASSUME NEW r \in Requests, Begin(r) PROVE IInv'
  BY <1>1, BeginKeepsIInv
<1>2. CASE CreateLoop  BY <1>2, CreateLoopKeepsIInv
<1>3. CASE ActionLoop  BY <1>3, ActionLoopKeepsIInv
<1>4. CASE RenameLoop  BY <1>4, RenameLoopKeepsIInv
<1>5. CASE LinkLoop    BY <1>5, LinkLoopKeepsIInv
<1>11. CASE OpenLoop
  BY <1>11, VisitKeepsIInv, Zenon DEF OpenLoop
<1>6. CASE LoopEnd
  BY <1>6 DEF LoopEnd, IInv, FailureChangesNothing
<1>7. CASE _remove
  <2>1. PICK b, tree : fs' = [fs EXCEPT ![b] = tree]
    BY <1>7 DEF _remove
  <2>2. pc' = pc /\ error' = error /\ error = "none"
    BY <1>7 DEF _remove, IInv
  <2> QED  BY <2>1, <2>2 DEF IInv, FailureChangesNothing
<1>8. CASE _removed
  BY <1>8 DEF _removed, IInv, FailureChangesNothing
<1>9. CASE Reply
  BY <1>9 DEF Reply, IInv, FailureChangesNothing, OnlyDirsAdded
<1>10. CASE UNCHANGED vars
  BY <1>10 DEF vars, IInv, FailureChangesNothing
<1> QED  BY <1>1, <1>2, <1>3, <1>4, <1>5, <1>6, <1>7, <1>8, <1>9, <1>10,
               <1>11 DEF Next, Handler

(* A handler that has not succeeded on any branch, and one that answers an *)
(* error, has left every file of every branch as it was (error::calc and   *)
(* the loops of fuse_*.cpp; the removals of fuse_rename.cpp), open apart.  *)
THEOREM FailureIsClean == Spec => []FailureChangesNothing
<1>1. IInv => FailureChangesNothing
  BY DEF IInv
<1> QED  BY <1>1, InitIInv, NextKeepsIInv, PTL DEF Spec

=============================================================================
