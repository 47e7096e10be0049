------------------------------ MODULE MoveFile ------------------------------
(***************************************************************************)
(* Writing with moveonenospc (fuse_write.cpp, fuse_write_buf.cpp): when a  *)
(* drive refuses a write for lack of space the file is copied to a roomier *)
(* one (fs_movefile.cpp), the descriptor exchanged and the write repeated. *)
(*                                                                         *)
(* One path, open through several handles, one write request at a time.    *)
(* A file's contents are the set of blocks written to it; each takes one   *)
(* unit of a drive's space.  Every branch is a drive of its own.           *)
(***************************************************************************)
EXTENDS Naturals, FiniteSets, FiniteSetsExt, Functions

CONSTANTS Branches, Handles, Blocks,
          MaxInodes,          \* a bound on the files ever made
          MaxSpace,           \* a bound on a drive's free space
          None

Inodes == 1 .. MaxInodes

VARIABLES space,    \* free space of each branch
          file,     \* the inode at the path on each branch
          temps,    \* temporary files beside it
          home,     \* the branch of every inode made so far
          data,     \* its contents
          fd,       \* FileInfo::fd: the inode each handle has open
          call,     \* the write being handled
          acked,    \* history: blocks whose write into the file succeeded
          mishaps   \* history: moves "onto itself", originals "kept"

vars == <<space, file, temps, home, data, fd, call, acked, mishaps>>

Made == DOMAIN home

(* `quiet' is history: the file copied is the one whose size was taken,    *)
(* and nobody else has used the space found for it.                        *)
Idle == [pc |-> "idle", h |-> None, block |-> None, src |-> None, dst |-> None,
         in |-> None, out |-> None, quiet |-> TRUE]

(* A file on one branch, perhaps an older copy on another. *)
Init ==
  /\ space \in [Branches -> 0 .. MaxSpace]
  /\ \E a \in Branches, copies \in SUBSET Branches :
       /\ a \notin copies /\ Cardinality(copies) <= 1
       /\ file = [b \in Branches |-> IF b = a THEN 1
                                     ELSE IF b \in copies THEN 2 ELSE None]
       /\ home = [i \in 1 .. 1 + Cardinality(copies) |->
                    IF i = 1 THEN a ELSE CHOOSE b \in copies : TRUE]
  /\ data = [i \in Inodes |-> {}]
  /\ temps = {}
  /\ fd = [h \in Handles |-> 1]
  /\ call = Idle
  /\ acked = {}
  /\ mishaps = {}

-----------------------------------------------------------------------------
(* System calls *)

Linked(i) == \E b \in Branches : file[b] = i

pwrite(i, k) ==
  /\ space[home[i]] > 0
  /\ space' = [space EXCEPT ![home[i]] = @ - 1]
  /\ data' = [data EXCEPT ![i] = @ \cup {k}]
  /\ acked' = IF Linked(i) THEN acked \cup {k} ELSE acked

(* Inodes that are not `kept', by a name or a descriptor, give back their  *)
(* space.                                                                  *)
Reclaim(kept) ==
  LET gone == Made \ kept
      freed(b) == Cardinality({p \in gone \X Blocks : home[p[1]] = b /\ p[2] \in data[p[1]]})
  IN  /\ space' = [b \in Branches |-> Min({MaxSpace, space[b] + freed(b)})]
      /\ data' = [i \in Inodes |-> IF i \in gone THEN {} ELSE data[i]]

-----------------------------------------------------------------------------
(* FUSE::write, FUSE::write_buf *)

(* The first attempt: it works, or fails for lack of space (ENOSPC) or of  *)
(* quota (EDQUOT), room or not.                                            *)
write(h, k) ==
  /\ call = Idle /\ k \notin UNION {data[i] : i \in Inodes}
  /\ \/ /\ pwrite(fd[h], k)
        /\ UNCHANGED call
     \/ /\ call' = [Idle EXCEPT !.pc = "findonfs", !.h = h, !.block = k]
        /\ UNCHANGED <<space, data, acked>>
  /\ UNCHANGED <<file, temps, home, fd, mishaps>>

(* movefile failed: -ENOSPC.  The second attempt's answer is passed on. *)
Answer == call' = Idle

retry ==
  /\ call.pc = "retry"
  /\ \/ pwrite(fd[call.h], call.block)
     \/ UNCHANGED <<space, data, acked>>
  /\ Answer
  /\ UNCHANGED <<file, temps, home, fd, mishaps>>

-----------------------------------------------------------------------------
(* fs::movefile *)

size == Cardinality(data[fd[call.h]])

Give_up == Answer /\ UNCHANGED <<space, file, temps, home, data, fd, acked, mishaps>>

(* The branch on the descriptor's drive that has something at the path. *)
findonfs ==
  LET b == home[fd[call.h]]
  IN  /\ call.pc = "findonfs"
      /\ \/ /\ file[b] # None
            /\ call' = [call EXCEPT !.pc = "mfs", !.src = b]
            /\ UNCHANGED <<space, file, temps, home, data, fd, acked, mishaps>>
         \/ Give_up

Roomy_Tight == {b \in Branches : space[b] >= size /\ space[b] > 0}

(* spaceavail < minfreespace and spaceavail <= mfs are skipped. *)
Roomy == {b \in Branches : space[b] >= size + 1 /\ space[b] > 0}

mfs_Unchecked ==
  /\ call.pc = "mfs"
  /\ \E b \in {c \in Roomy : \A other \in Roomy : space[other] <= space[c]} \cup {None} :
       call' = [call EXCEPT !.pc = "mkstemp", !.dst = b]
  /\ UNCHANGED <<space, file, temps, home, data, fd, acked, mishaps>>

(* The drive with the most room, whichever it is; then clonepath. *)
mfs ==
  /\ call.pc = "mfs"
  /\ \/ /\ \E b \in Roomy : /\ \A other \in Roomy : space[other] <= space[b]
                            /\ call' = [call EXCEPT !.pc = "mkstemp", !.dst = b]
        /\ UNCHANGED <<space, file, temps, home, data, fd, acked, mishaps>>
     \/ Give_up

(* The source is opened again by its name, the copy made under another. *)
mkstemp ==
  LET i == Cardinality(Made) + 1
  IN  /\ call.pc = "mkstemp"
      /\ \/ /\ i \in Inodes
            /\ home' = [j \in Made \cup {i} |-> IF j = i THEN call.dst ELSE home[j]]
            /\ temps' = temps \cup {i}
            /\ call' = [call EXCEPT !.pc = "clonefile", !.in = file[call.src], !.out = i,
                                    !.quiet = @ /\ file[call.src] = fd[call.h]]
            /\ UNCHANGED <<space, file, data, fd, acked, mishaps>>
         \/ Give_up

cleanup_Leaves ==
  /\ Answer
  /\ UNCHANGED <<space, file, temps, home, data, fd, acked, mishaps>>

(* Closes both descriptors and unlinks the temporary file. *)
cleanup ==
  /\ Answer
  /\ temps' = temps \ {call.out}
  /\ Reclaim(Made \ {call.out})
  /\ UNCHANGED <<file, home, fd, acked, mishaps>>

(* clonefile and setfl. *)
clonefile ==
  LET n == Cardinality(data[call.in])
  IN  /\ call.pc = "clonefile"
      /\ \/ /\ space[call.dst] >= n
            /\ space' = [space EXCEPT ![call.dst] = @ - n]
            /\ data' = [data EXCEPT ![call.out] = data[call.in]]
            /\ call' = [call EXCEPT !.pc = "rename"]
            /\ UNCHANGED <<file, temps, home, fd, acked, mishaps>>
         \/ cleanup

rename_UnlinkFirst ==
  /\ call.pc = "rename"
  /\ \/ /\ file' = [file EXCEPT ![call.src] = None]
        /\ call' = [call EXCEPT !.pc = "unlink"]
        /\ UNCHANGED <<space, temps, home, data, fd, acked, mishaps>>
     \/ cleanup

rename ==
  /\ call.pc = "rename"
  /\ \/ /\ file' = [file EXCEPT ![call.dst] = call.out]
        /\ temps' = temps \ {call.out}
        /\ call' = [call EXCEPT !.pc = "unlink"]
        /\ Reclaim(Range(file') \cup Range(fd))
        /\ UNCHANGED <<home, fd, acked, mishaps>>
     \/ cleanup

(* The old name is removed, if that works, and the descriptors exchanged. *)
unlink ==
  /\ call.pc = "unlink"
  /\ \/ /\ file' = [file EXCEPT ![call.src] = None]
        /\ mishaps' = IF call.src = call.dst THEN mishaps \cup {"onto itself"} ELSE mishaps
     \/ /\ UNCHANGED file
        /\ mishaps' = mishaps \cup {"kept"}
  /\ fd' = [fd EXCEPT ![call.h] = call.out]
  /\ Reclaim(Range(file') \cup Range(fd'))
  /\ call' = [call EXCEPT !.pc = "retry"]
  /\ UNCHANGED <<temps, home, acked>>

-----------------------------------------------------------------------------
(* Others use the drives too. *)
Consume(b) ==
  /\ space[b] > 0
  /\ space' = [space EXCEPT ![b] = @ - 1]
  /\ call' = [call EXCEPT !.quiet = @ /\ b # call.dst]
  /\ UNCHANGED <<file, temps, home, data, fd, acked, mishaps>>

Free(b) ==
  /\ space[b] < MaxSpace
  /\ space' = [space EXCEPT ![b] = @ + 1]
  /\ UNCHANGED <<file, temps, home, data, fd, call, acked, mishaps>>

Next ==
  \/ \E h \in Handles, k \in Blocks : write(h, k)
  \/ findonfs \/ mfs \/ mkstemp \/ clonefile \/ rename \/ unlink \/ retry
  \/ \E b \in Branches : Consume(b) \/ Free(b)

Spec == Init /\ [][Next]_vars

-----------------------------------------------------------------------------
(* The type invariant: a move under way has a drive to go to. *)
TypeOK ==
  /\ space \in [Branches -> 0 .. MaxSpace]
  /\ file \in [Branches -> Made \cup {None}]
  /\ Made \subseteq Inodes /\ temps \subseteq Made
  /\ \A i \in Made : home[i] \in Branches
  /\ data \in [Inodes -> SUBSET Blocks] /\ acked \subseteq Blocks
  /\ fd \in [Handles -> Made]
  /\ call.pc \in {"mkstemp", "clonefile", "rename", "unlink", "retry"} =>
       call.src \in Branches /\ call.dst \in Branches
  /\ call.pc \in {"clonefile", "rename", "unlink"} => {call.in, call.out} \subseteq Made

(* At every step, hence also after a crash, some branch has a file at the  *)
(* path with all that was successfully written to it, until a move goes to *)
(* the branch it comes from or leaves the original (fs_movefile.cpp:108).  *)
AckedWritesKept ==
  mishaps = {} =>
    \E b \in Branches : file[b] # None /\ acked \subseteq data[file[b]]

(* Whatever fails on the way, no temporary file outlives the request.      *)
NoTempLeft == call = Idle => temps = {}

(* README.md: the drive chosen has "at least the size of the file plus the *)
(* amount which failed to write": the write can be repeated, unless others *)
(* use up that space or the path names another file than the descriptor.   *)
MoveMakesRoom ==
  call.pc = "retry" /\ call.quiet => space[call.dst] > 0

(* README.md: "if successful the original is unlinked and the write        *)
(* retried": the original, so that the moved file is still there.          *)
MovedFileStays == \E b \in Branches : file[b] # None

=============================================================================
