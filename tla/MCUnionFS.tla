----------------------------- MODULE MCUnionFS -----------------------------
(* Configurations, directory layouts and requests for UnionFS. *)
EXTENDS UnionFS

CONSTANTS MCCreate,       \* policies tried for the create functions,
          MCAction,       \* for the action functions
          MCSearch,       \* and for getattr
          MCModes,        \* modes of the branches
          MCDriveKinds,   \* which of the drives below
          MCOps,          \* the functions called
          MCXattr,        \* settings of xattr
          MCIgnore,       \* settings of ignorepponrename
          MCCow,          \* settings of link_cow
          MCDeep          \* which of the two layouts

(* Two directories with a file of the same name in each, or a file and the *)
(* way down to another one.                                                *)
MCd == <<"d">>
MCe == <<"e">>
MCs == <<"d", "s">>
MCx == <<"d", "x">>
MCy == <<"e", "x">>
MCz == <<"d", "s", "x">>

MCPaths == IF MCDeep THEN {MCe, MCd, MCs, MCz} ELSE {MCd, MCe, MCx, MCy}

MCDirs == {MCd, MCs} \cup IF MCDeep THEN {} ELSE {MCe}

MCLayouts ==
  {there \in SUBSET MCPaths :
     \A p \in there : Len(p) > 1 => dirname(p) \in there}

MCTree(b, there) ==
  [p \in MCPaths |-> IF p \notin there THEN None
                     ELSE IF p \in MCDirs THEN Dir
                     ELSE Inode("create", <<b, p, 0>>)]

MCInitialFS ==
  {[b \in Branches |-> MCTree(b, layout[b])] :
     layout \in [Branches -> MCLayouts]}

MCDrives ==
  [roomy |-> [ok |-> TRUE, readonly |-> FALSE, avail |-> 2, used |-> 1],
   small |-> [ok |-> TRUE, readonly |-> FALSE, avail |-> 1, used |-> 2],
   full  |-> [ok |-> TRUE, readonly |-> FALSE, avail |-> 0, used |-> 2],
   ro    |-> [ok |-> TRUE, readonly |-> TRUE, avail |-> 2, used |-> 1]]

MCFuncs == CreateOps \cup ActionOps \cup {"rename", "link", "open", "getattr"}

MCConfigs ==
  {[mode |-> m, drive |-> [b \in Branches |-> MCDrives[d[b]]],
    policy |-> [f \in MCFuncs |-> CASE f \in CreateOps -> c
                                    [] f \in {"getattr", "open"} -> s
                                    [] OTHER -> a],
    minfreespace |-> 1, ignorepponrename |-> i, xattr |-> x,
    link_cow |-> w] :
     m \in [Branches -> MCModes], d \in [Branches -> MCDriveKinds],
     c \in MCCreate, a \in MCAction, s \in MCSearch,
     i \in MCIgnore, x \in MCXattr, w \in MCCow}

MCRequest(op, path, new) == [op |-> op, path |-> path, new |-> new]

MCRequests ==
  {r \in IF MCDeep
         THEN {MCRequest(op, MCz, <<>>) :
                 op \in {"create", "mkdir", "unlink", "setxattr", "removexattr"}}
              \cup {MCRequest(op, MCe, MCz) : op \in {"rename", "link"}}
              \cup {MCRequest("rename", MCz, MCe)}
              \cup {MCRequest(op, MCe, <<>>) : op \in OpenOps}
         ELSE {MCRequest(op, MCy, <<>>) : op \in CreateOps}
              \cup {MCRequest("mkdir", MCe, <<>>)}
              \cup {MCRequest(op, MCx, <<>>) : op \in ActionOps}
              \cup {MCRequest("rmdir", MCd, <<>>)}
              \cup {MCRequest("rename", MCx, MCy), MCRequest("link", MCx, MCy),
                    MCRequest("rename", MCd, MCe)} :
     r.op \in MCOps}

=============================================================================
