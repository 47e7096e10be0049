----------------------------- MODULE MCUgidLinux -----------------------------
(* More users than records; one has too many groups, one no account.       *)
EXTENDS UgidLinux

User(uid, gid) == [uid |-> uid, gid |-> gid]

MCUsers == {Root, User(0, 5), User(1, 0), User(1, 1), User(1, 5),
            User(2, 2), User(3, 3), User(4, 4)}

MCGroups == [uid \in 0 .. 3 |-> CASE uid = 0 -> {0}
                                  [] uid = 1 -> {1, 6}
                                  [] uid = 2 -> {2, 6, 7}
                                  [] uid = 3 -> {3, 6, 7, 8, 9}]

=============================================================================
