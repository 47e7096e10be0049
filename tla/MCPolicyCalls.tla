--------------------------- MODULE MCPolicyCalls ---------------------------
(* Every snapshot of MCN branches over a few sizes and times. *)
EXTENDS PolicyCalls

CONSTANT MCN

MCFiles ==
  {[exists |-> FALSE, mtime |-> 0], [exists |-> TRUE, mtime |-> 1],
   [exists |-> TRUE, mtime |-> 2]}

(* A failing statvfs, a read-only mount, a full and two roomy drives. *)
MCDrives ==
  {[ok |-> FALSE, readonly |-> FALSE, avail |-> 0, used |-> 0],
   [ok |-> TRUE, readonly |-> TRUE, avail |-> 1, used |-> 1],
   [ok |-> TRUE, readonly |-> FALSE, avail |-> 0, used |-> 2],
   [ok |-> TRUE, readonly |-> FALSE, avail |-> 1, used |-> 2],
   [ok |-> TRUE, readonly |-> FALSE, avail |-> 2, used |-> 1]}

MCAnyBranch ==
  {[mode |-> m, exists |-> f.exists, mtime |-> f.mtime, ok |-> d.ok,
    readonly |-> d.readonly, avail |-> d.avail, used |-> d.used] :
     m \in Modes, f \in MCFiles, d \in MCDrives}

(* RO and NC branches come with roomy drives only: a bound, for size. *)
MCBranch ==
  {b \in MCAnyBranch : b.mode # "RW" => b.ok /\ ~b.readonly /\ b.avail > 0}

MCSnapshots == [1..MCN -> MCBranch]

=============================================================================
