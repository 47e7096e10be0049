------------------------------- MODULE UnionFS -------------------------------
(***************************************************************************)
(* The handlers of mergerfs that change the branches (fuse_*.cpp).         *)
(*                                                                         *)
(* A handler asks the policies of the functions involved which branches to *)
(* work on and then goes through them one system call after the other.     *)
(* Every call may fail on its own; error::calc makes one return value of   *)
(* them.  rename ends with removals, whose failures nobody looks at.       *)
(*                                                                         *)
(* One handler runs at a time: the kernel and libfuse serialise the        *)
(* operations that touch the same directory entries, and the handlers      *)
(* share nothing else.                                                     *)
(***************************************************************************)
EXTENDS Policies, BranchTree

CONSTANTS N,            \* number of branches
          Configs,      \* configurations and drives, see Snapshot
          InitialFS,    \* what the branches may hold at first
          Requests,     \* the requests the kernel may send
          MaxCalls,     \* bound on the number of requests
          MaxFaults     \* bound on the number of unforeseen failures

Branches == 1..N

VARIABLES conf,         \* Config and the statvfs of the drives
          fs,           \* the tree of every branch
          req,          \* the request being served
          pc,           \* "idle", "loop", "remove" or "done"
          todo,         \* the branches, or removals, still to visit
          members,      \* rename: oldbasepaths
          src,          \* the branch clonepath copies from
          error,        \* `error' of the loops; the answer when "done"
          toremove,     \* rename: what to remove on success
          faults, calls,
          before        \* history: the branches when the request came

vars == <<conf, fs, req, pc, todo, members, src, error, toremove,
          faults, calls, before>>

CreateOps == {"create", "mkdir", "mknod", "symlink"}

ActionOps == {"chmod", "chown", "utimens", "truncate", "setxattr",
              "removexattr", "unlink", "rmdir"}

OpenOps == {"open_rdonly", "open_rdwr"}

Entry == [kind : {"none", "dir"} \cup CreateOps,
          id : {<<>>} \cup (Branches \X Paths \X (0..MaxCalls)),
          attrs : SUBSET ActionOps]

ASSUME InitialFSAssumption == InitialFS \subseteq [Branches -> [Paths -> Entry]]

NoRequest == [op |-> "none", path |-> <<>>, new |-> <<>>]

Init ==
  /\ conf \in Configs
  /\ fs \in InitialFS
  /\ req = NoRequest
  /\ pc = "idle"
  /\ todo = <<>>
  /\ members = {}
  /\ src = 1
  /\ error = "unset"
  /\ toremove = <<>>
  /\ faults = 0
  /\ calls = 0
  /\ before = fs

(* error::calc: one success makes the call a success, else the last error. *)
calc_AnyError(errno, prev) == IF prev \in {"unset", "none"} THEN errno ELSE prev
calc(errno, prev) ==
  IF errno # "none" THEN IF prev = "none" THEN "none" ELSE errno
  ELSE "none"

faulty == faults < MaxFaults

Tried(outcome) == faults' = IF outcome.fault THEN faults + 1 ELSE faults

(* What the policies see of a path. *)
Snapshot(trees, path) ==
  [b \in Branches |->
     [mode |-> conf.mode[b], exists |-> exists(trees[b], path), mtime |-> 0,
      ok |-> conf.drive[b].ok, readonly |-> conf.drive[b].readonly,
      avail |-> conf.drive[b].avail, used |-> conf.drive[b].used]]

(* Every result of running the policy of a function. *)
RunPolicy(func, type, path) ==
  Func(conf.policy[func], type, Snapshot(fs, path), conf.minfreespace)

-----------------------------------------------------------------------------
(* How a handler starts and ends. *)

Request(r) ==
  /\ pc = "idle"
  /\ calls < MaxCalls
  /\ r \in Requests
  /\ calls' = calls + 1
  /\ req' = r
  /\ before' = fs
  /\ toremove' = <<>>
  /\ UNCHANGED <<conf, fs, faults>>

Fail_Silently(errno) ==
  /\ pc' = "done"
  /\ error' = "none"
  /\ todo' = <<>>
  /\ members' = {}
  /\ src' = 1

Fail(errno) ==
  /\ pc' = "done"
  /\ error' = errno
  /\ todo' = <<>>
  /\ members' = {}
  /\ src' = 1

Loop_OffByOne(branches, olds, from) ==
  /\ pc' = "loop"
  /\ error' = "unset"
  /\ todo' = branches
  /\ members' = olds
  /\ src' = from - 1

Loop(branches, olds, from) ==
  /\ pc' = "loop"
  /\ error' = "unset"
  /\ todo' = branches
  /\ members' = olds
  /\ src' = from

Reply ==
  /\ pc = "done"
  /\ pc' = "idle"
  /\ req' = NoRequest
  /\ error' = "unset"
  /\ before' = fs
  /\ UNCHANGED <<conf, fs, todo, members, src, toremove, faults, calls>>

(* The loop's last branch is done: -error is returned, after the removals  *)
(* of a rename that succeeded.                                             *)
LoopEnd_RemoveAlways ==
  /\ pc = "loop" /\ todo = <<>>
  /\ pc' = IF req.op = "rename" THEN "remove" ELSE "done"
  /\ members' = {}
  /\ src' = 1
  /\ UNCHANGED <<conf, fs, req, todo, error, toremove, faults, calls, before>>

LoopEnd ==
  /\ pc = "loop" /\ todo = <<>>
  /\ pc' = IF req.op = "rename" /\ error = "none" THEN "remove" ELSE "done"
  /\ members' = {}
  /\ src' = 1
  /\ UNCHANGED <<conf, fs, req, todo, error, toremove, faults, calls, before>>

(* One branch of a loop: its calls are made and counted in error. *)
Visit(b, outcome) ==
  /\ fs' = [fs EXCEPT ![b] = outcome.tree]
  /\ error' = calc(outcome.errno, error)
  /\ Tried(outcome)
  /\ todo' = Tail(todo)
  /\ UNCHANGED <<conf, req, pc, members, src, calls, before>>

Refused(b, errno) == {[errno |-> errno, tree |-> fs[b], fault |-> FALSE]}

(* What a second call adds to the outcome of a first one that succeeded. *)
AndThen(first, Second(_)) ==
  UNION {IF o.errno # "none" THEN {o} ELSE Second(o.tree) : o \in first}

(* fs::clonepath_as_root *)
clonepath_as_root(from, to, dir) ==
  IF from = to
  THEN {[errno |-> "none", tree |-> fs[to], fault |-> FALSE]}
  ELSE clonepath(fs[from], fs[to], dir, faulty)

-----------------------------------------------------------------------------
(* create, mkdir, mknod, symlink: the directory is looked up with getattr's *)
(* policy, the branches chosen with the function's own; create takes only  *)
(* the first of them.                                                      *)

BeginCreate(r) ==
  /\ Request(r)
  /\ \E found \in RunPolicy("getattr", "search", dirname(r.path)),
        chosen \in RunPolicy(r.op, "create", dirname(r.path)) :
       IF found.errno # "none" THEN Fail(found.errno)
       ELSE IF chosen.errno # "none" THEN Fail(chosen.errno)
       ELSE Loop(IF r.op = "create" THEN <<chosen.paths[1]>> ELSE chosen.paths,
                 {}, found.paths[1])

create(r)  == r.op = "create" /\ BeginCreate(r)
mkdir(r)   == r.op = "mkdir" /\ BeginCreate(r)
mknod(r)   == r.op = "mknod" /\ BeginCreate(r)
symlink(r) == r.op = "symlink" /\ BeginCreate(r)

NewEntry(b) ==
  IF req.op = "mkdir" THEN Dir ELSE Inode(req.op, <<b, req.path, calls>>)

create_core(b, tree) ==
  IF req.op = "create"
  THEN sys_open(tree, req.path, NewEntry(b), faulty)
  ELSE sys_make(tree, req.path, NewEntry(b), faulty)

CreateLoop ==
  /\ pc = "loop" /\ todo # <<>> /\ req.op \in CreateOps
  /\ LET b == Head(todo)
     IN  \E o \in AndThen(clonepath_as_root(src, b, dirname(req.path)),
                          LAMBDA tree : create_core(b, tree)) :
           Visit(b, o)
  /\ UNCHANGED toremove

-----------------------------------------------------------------------------
(* The operations on what exists: every branch the function's action       *)
(* policy returns.                                                         *)

BeginAction(r) ==
  /\ Request(r)
  /\ \E found \in RunPolicy(r.op, "action", r.path) :
       IF found.errno # "none" THEN Fail(found.errno)
       ELSE Loop(found.paths, {}, 1)

chmod(r)    == r.op = "chmod" /\ BeginAction(r)
chown(r)    == r.op = "chown" /\ BeginAction(r)
utimens(r)  == r.op = "utimens" /\ BeginAction(r)
truncate(r) == r.op = "truncate" /\ BeginAction(r)
unlink(r)   == r.op = "unlink" /\ BeginAction(r)
rmdir(r)    == r.op = "rmdir" /\ BeginAction(r)

(* Without xattr=passthrough the two answer before they look at a branch,  *)
(* as setxattr does for security.capability when that is turned off.       *)
xattr_disabled(r) == Request(r) /\ Fail(conf.xattr)

setxattr(r) ==
  /\ r.op = "setxattr"
  /\ IF conf.xattr # "none" THEN xattr_disabled(r) ELSE BeginAction(r)

removexattr(r) ==
  /\ r.op = "removexattr"
  /\ IF conf.xattr # "none" THEN xattr_disabled(r) ELSE BeginAction(r)

action_core(tree) ==
  CASE req.op = "unlink"      -> sys_unlink(tree, req.path, faulty)
    [] req.op = "rmdir"       -> sys_rmdir(tree, req.path, faulty)
    [] req.op = "removexattr" -> sys_unset(tree, req.path, "setxattr", faulty)
    [] OTHER                  -> sys_set(tree, req.path, req.op, faulty)

ActionLoop ==
  /\ pc = "loop" /\ todo # <<>> /\ req.op \in ActionOps
  /\ LET b == Head(todo) IN \E o \in action_core(fs[b]) : Visit(b, o)
  /\ UNCHANGED toremove

-----------------------------------------------------------------------------
(* rename and link try to obey path preservation, unless told not to. *)

PreservePath == path_preserving(conf.policy["create"]) /\ ~conf.ignorepponrename

(* clonepath_if_would_create, tried when the first attempt on branch b     *)
(* failed with ENOENT: the outcomes of what Clone does with the result of  *)
(* the search, unless b is not where the create policy would go.           *)
IfWouldCreate(b, dir, Clone(_)) ==
  UNION {IF chosen.errno # "none" THEN Refused(b, chosen.errno)
         ELSE IF chosen.paths[1] # b THEN Refused(b, "EXDEV")
         ELSE UNION {Clone(s) : s \in RunPolicy("getattr", "search", dir)} :
           chosen \in RunPolicy("create", "create", dir)}

_remove_later_Never(b, path) == UNCHANGED toremove
_remove_later(b, path) == toremove' = Append(toremove, <<b, path>>)

(* An empty string: what oldfullpath holds when the clone failed. *)
NoPath == <<"">>

-----------------------------------------------------------------------------
rename(r) ==
  /\ r.op = "rename"
  /\ Request(r)
  /\ \E olds \in RunPolicy("rename", "action", r.path),
        found \in RunPolicy("getattr", "search", dirname(r.new)) :
       IF olds.errno # "none" THEN Fail(olds.errno)
       ELSE IF PreservePath
            THEN Loop([b \in Branches |-> b], ToSet(olds.paths), 1)
       ELSE IF found.errno # "none" THEN Fail(found.errno)
       ELSE Loop([b \in Branches |-> b], ToSet(olds.paths), found.paths[1])

_rename_create_path_core(b) ==
  \E c \in clonepath_as_root(src, b, dirname(req.new)) :
    IF c.errno # "none"
    THEN Visit(b, c) /\ _remove_later(b, NoPath)
    ELSE \E o \in sys_rename(c.tree, req.path, req.new, faulty) :
           /\ Visit(b, o)
           /\ IF o.errno # "none" THEN _remove_later(b, req.path)
              ELSE UNCHANGED toremove

(* The result of _clonepath_if_would_create is -1 and errno, or, when its  *)
(* search fails, -errno, which error::calc takes for a success.  What      *)
(* clonepath itself returns is ignored.                                    *)
RenameAgain(b) ==
  IfWouldCreate(b, dirname(req.new), LAMBDA s :
    IF s.errno # "none" THEN Refused(b, "none")
    ELSE UNION {{[o EXCEPT !.fault = @ \/ c.fault] :
                   o \in sys_rename(c.tree, req.path, req.new,
                                    faulty /\ ~c.fault)} :
                  c \in clonepath_as_root(s.paths[1], b, dirname(req.new))})

_rename_preserve_path_core(b) ==
  \E first \in sys_rename(fs[b], req.path, req.new, faulty) :
    \E o \in IF first.errno = "ENOENT" THEN RenameAgain(b) ELSE {first} :
      /\ Visit(b, o)
      /\ IF o.errno # "none" THEN _remove_later(b, req.path)
         ELSE UNCHANGED toremove

RenameLoop ==
  /\ pc = "loop" /\ todo # <<>> /\ req.op = "rename"
  /\ LET b == Head(todo)
     IN  IF b \notin members
         THEN /\ _remove_later(b, req.new)
              /\ todo' = Tail(todo)
              /\ UNCHANGED <<conf, fs, req, pc, members, src, error, faults,
                             calls, before>>
         ELSE IF PreservePath THEN _rename_preserve_path_core(b)
         ELSE _rename_create_path_core(b)

_remove_Stuck ==
  /\ pc = "remove" /\ toremove # <<>>
  /\ fs' = [fs EXCEPT ![Head(toremove)[1]][req.new] = @]
  /\ UNCHANGED <<conf, req, pc, todo, members, src, error, toremove, faults,
                 calls, before>>

_remove ==
  /\ pc = "remove" /\ toremove # <<>>
  /\ LET b == Head(toremove)[1]
         path == Head(toremove)[2]
     IN  \E o \in IF conf.drive[b].readonly THEN Refused(b, "EROFS")
                  ELSE sys_remove(fs[b], path, faulty) :
           fs' = [fs EXCEPT ![b] = o.tree] /\ Tried(o)
  /\ toremove' = Tail(toremove)
  /\ UNCHANGED <<conf, req, pc, todo, members, src, error, calls, before>>

_removed ==
  /\ pc = "remove" /\ toremove = <<>>
  /\ pc' = "done"
  /\ UNCHANGED <<conf, fs, req, todo, members, src, error, toremove, faults,
                 calls, before>>

-----------------------------------------------------------------------------
(* link_create_path is called with one argument less than it would need:   *)
(* the policy of link arrives as its search and that of create as its      *)
(* action policy.                                                          *)
link(r) ==
  /\ r.op = "link"
  /\ Request(r)
  /\ IF PreservePath
     THEN \E olds \in RunPolicy("link", "action", r.path) :
            IF olds.errno # "none" THEN Fail(olds.errno)
            ELSE Loop(olds.paths, {}, 1)
     ELSE \E olds \in RunPolicy("create", "action", r.path),
             found \in RunPolicy("link", "search", dirname(r.new)) :
            IF olds.errno # "none" THEN Fail(olds.errno)
            ELSE IF found.errno # "none" THEN Fail(found.errno)
            ELSE Loop(olds.paths, {}, found.paths[1])

CloneAndLink(from, b) ==
  AndThen(clonepath_as_root(from, b, dirname(req.new)),
          LAMBDA tree : sys_link(tree, req.path, req.new, faulty))

(* Here every failure comes back as -1. *)
LinkAgain(b) ==
  IfWouldCreate(b, dirname(req.new), LAMBDA s :
    IF s.errno # "none" THEN Refused(b, s.errno)
    ELSE CloneAndLink(s.paths[1], b))

link_preserve_path_core(b) ==
  UNION {IF first.errno = "ENOENT" THEN LinkAgain(b) ELSE {first} :
           first \in sys_link(fs[b], req.path, req.new, faulty)}

LinkLoop ==
  /\ pc = "loop" /\ todo # <<>> /\ req.op = "link"
  /\ LET b == Head(todo)
     IN  \E o \in IF PreservePath THEN link_preserve_path_core(b)
                  ELSE CloneAndLink(src, b) : Visit(b, o)
  /\ UNCHANGED toremove

-----------------------------------------------------------------------------
(* open: the file the search policy finds first, with the cache of         *)
(* policy results off (module OpenCache has it on).                        *)

open(r) ==
  /\ r.op \in OpenOps
  /\ Request(r)
  /\ \E found \in RunPolicy("open", "search", r.path) :
       IF found.errno # "none" THEN Fail(found.errno)
       ELSE Loop(<<found.paths[1]>>, {}, 1)

(* fs::cow::is_eligible: a regular file with other names, to be written *)
is_eligible_OffByOne(tree) ==
  /\ req.op = "open_rdwr"
  /\ tree[req.path].kind = "create" /\ Cardinality(Names(tree, req.path)) > 2

is_eligible(tree) ==
  /\ req.op = "open_rdwr"
  /\ tree[req.path].kind = "create" /\ Cardinality(Names(tree, req.path)) > 1

(* fs::cow::break_link: a copy, a new inode, is renamed over the name. *)
break_link(b) ==
  LET copy == [fs[b][req.path] EXCEPT !.id = <<b, req.path, calls>>]
  IN  IF conf.drive[b].readonly THEN Refused(b, "EROFS")
      ELSE Outcomes(fs[b], "none", [fs[b] EXCEPT ![req.path] = copy], faulty)

(* What becomes of break_link is ignored. *)
open_core(b) ==
  UNION {IF req.op = "open_rdwr" /\ conf.drive[b].readonly
         THEN Refused(b, "EROFS")
         ELSE {[o EXCEPT !.fault = @ \/ c.fault] :
                 o \in sys_reopen(c.tree, req.path, req.op = "open_rdwr",
                                  faulty /\ ~c.fault)} :
           c \in IF conf.link_cow /\ is_eligible(fs[b]) THEN break_link(b)
                 ELSE Refused(b, "none")}

OpenLoop ==
  /\ pc = "loop" /\ todo # <<>> /\ req.op \in OpenOps
  /\ LET b == Head(todo) IN \E o \in open_core(b) : Visit(b, o)
  /\ UNCHANGED toremove

-----------------------------------------------------------------------------
(* What a reader gets to see of the branches. *)

(* readdir: the names in every branch's directory, each listed once. *)
readdir(trees, dir) ==
  UNION {{p \in Paths : dirname(p) = dir /\ exists(trees[b], p)} :
           b \in {c \in Branches : isdir(trees[c], dir)}}

(* getattr: the entries lstat may be done on; none when it fails. *)
getattr(trees, path) ==
  {IF found.errno # "none" THEN None ELSE trees[found.paths[1]][path] :
     found \in Func(conf.policy["getattr"], "search", Snapshot(trees, path),
                    conf.minfreespace)}

-----------------------------------------------------------------------------
Begin(r) ==
  \/ create(r) \/ mkdir(r) \/ mknod(r) \/ symlink(r)
  \/ chmod(r) \/ chown(r) \/ utimens(r) \/ truncate(r)
  \/ setxattr(r) \/ removexattr(r) \/ unlink(r) \/ rmdir(r)
  \/ rename(r) \/ link(r) \/ open(r)

Handler ==
  CreateLoop \/ ActionLoop \/ RenameLoop \/ LinkLoop \/ OpenLoop
  \/ LoopEnd \/ _remove \/ _removed \/ Reply

Next == (\E r \in Requests : Begin(r)) \/ Handler

Spec == Init /\ [][Next]_vars /\ WF_vars(Handler)

-----------------------------------------------------------------------------
(* The states the handlers' variables can be in. *)
TypeOK ==
  /\ conf.mode \in [Branches -> Modes]
  /\ fs \in [Branches -> [Paths -> Entry]]
  /\ req \in Requests \cup {NoRequest}
  /\ pc \in {"idle", "loop", "remove", "done"}
  /\ todo \in Seq(Branches)
  /\ members \subseteq Branches
  /\ src \in Branches
  /\ toremove \in Seq(Branches \X (Paths \cup {NoPath}))
  /\ faults \in 0..MaxFaults
  /\ calls \in 0..MaxCalls

(* "mergerfs will return an error only if all attempts of an action fail"  *)
(* (README.md): as long as a request has not succeeded anywhere, and when  *)
(* it has failed, every file and every directory of every branch is what   *)
(* it was when the request came; only directories cloned on the way may be *)
(* new.  rename must not have removed anything by then.  (An open that     *)
(* fails may have broken a hard link, see CowIsPrivate.)                   *)
OnlyDirsAdded(was, is) ==
  \A b \in Branches, p \in Paths :
    was[b][p] = is[b][p] \/ (was[b][p] = None /\ is[b][p] = Dir)

FailureChangesNothing ==
  error # "none" /\ req.op \notin OpenOps => OnlyDirsAdded(before, fs)

(* Nor does a request that fails, open included, change what readers can   *)
(* see: the directories it may leave behind were already listed by readdir *)
(* and found by getattr, from another branch.                              *)
FailureInvisible ==
  error # "none" =>
    \A p \in Paths :
      /\ p \in readdir(fs, dirname(p)) <=> p \in readdir(before, dirname(p))
      /\ None \in getattr(fs, p) <=> None \in getattr(before, p)

(* link_cow (README.md): a file opened for writing is no other name's file *)
(* on its branch, if nothing unforeseen fails.  Whatever fails, open       *)
(* changes nothing but that name's inode, and that only for a copy.        *)
CowIsPrivate ==
  req.op \in OpenOps =>
    /\ \A b \in Branches, p \in Paths :
         \/ fs[b][p] = before[b][p]
         \/ /\ p = req.path /\ req.op = "open_rdwr" /\ conf.link_cow
            /\ [fs[b][p] EXCEPT !.id = <<>>] = [before[b][p] EXCEPT !.id = <<>>]
            /\ \E q \in Paths \ {p} : fs[b][q] = before[b][p]
    /\ pc = "done" /\ error = "none" /\ faults = 0
         /\ req.op = "open_rdwr" /\ conf.link_cow
       => \E b \in Branches : /\ fs[b][req.path].kind # "none"
                              /\ fs[b][req.path].kind = "create" =>
                                   Names(fs[b], req.path) = {req.path}

(* "Any success will lead to a success returned" (README.md), and nothing  *)
(* else does: a handler that answers 0 has done its work on some branch.   *)
DoneOn(b) ==
  LET was == before[b]
      is == fs[b]
      old == req.path
      new == req.new
  IN  CASE req.op \in CreateOps \cup OpenOps -> exists(is, old)
        [] req.op \in {"unlink", "rmdir"} -> exists(was, old) /\ ~exists(is, old)
        [] req.op = "removexattr" -> /\ "setxattr" \in was[old].attrs
                                     /\ "setxattr" \notin is[old].attrs
        [] req.op = "rename"      -> exists(was, old) /\ is[new] = was[old]
        [] req.op = "link"        -> exists(was, old) /\ is[new] = was[old]
        [] OTHER                  -> req.op \in is[old].attrs

SuccessIsReal ==
  pc = "done" /\ error = "none" => \E b \in Branches : DoneOn(b)

(* A rename never loses a file: at every step, failures included, what was *)
(* visible under the old name, the files of a directory included, is still *)
(* on some branch under the old or under the new name.  (The removals run  *)
(* only after a rename worked and never hit the last copy.)                *)
Target(path) == req.new \o SubSeq(path, Len(req.path) + 1, Len(path))

RenameKeepsData ==
  req.op = "rename" =>
    \A p \in {req.path} \cup Below(req.path) :
      LET copies == {before[b][p] : b \in Branches} \ {None}
      IN  copies # {} => \E b \in Branches :
                            fs[b][p] \in copies \/ fs[b][Target(p)] \in copies

(* What README.md's rename logic amounts to when nothing unforeseen fails  *)
(* and the rename policy takes every branch, all of them writable, for a   *)
(* file that no directory is in the way of: the old name is gone           *)
(* everywhere, and every file under the new one is a copy of the renamed   *)
(* file.                                                                   *)
AllWritable ==
  \A b \in Branches : /\ conf.mode[b] # "RO"
                      /\ conf.drive[b].ok /\ ~conf.drive[b].readonly

RenameIsComplete ==
  /\ pc = "done" /\ req.op = "rename" /\ error = "none" /\ faults = 0
  /\ AllWritable /\ conf.policy["rename"] \in {"all", "epall", "rand", "eprand"}
  /\ \A b \in Branches, p \in {req.path, req.new} : before[b][p].kind # "dir"
  =>
  \A b \in Branches :
    /\ exists(fs[b], req.path) => before[b][req.path] = before[b][req.new]
    /\ exists(fs[b], req.new) => fs[b][req.new] = before[b][req.path]

(* Branch modes and filters hold for whole handlers: what a create         *)
(* function adds, cloned directories included, goes to RW branches with    *)
(* room, and no loop changes an RO branch.  (The removals that end a       *)
(* rename do, and open when it breaks a link: search policies know no RO.) *)
ModesRespected ==
  [][\A b \in Branches : fs'[b] # fs[b] =>
       /\ req.op \in CreateOps => /\ conf.mode[b] = "RW"
                                  /\ conf.drive[b].avail >= conf.minfreespace
       /\ pc = "loop" => /\ conf.mode[b] # "RO" \/ req.op \in OpenOps
                         /\ ~conf.drive[b].readonly]_vars

(* Every handler comes to an end and answers. *)
HandlerAnswers == pc # "idle" ~> pc = "idle"

=============================================================================
