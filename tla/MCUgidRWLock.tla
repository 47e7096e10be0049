---------------------------- MODULE MCUgidRWLock ----------------------------
(* Two users and root on a few threads. *)
EXTENDS UgidRWLock

MCUsers == {Root, [uid |-> 1, gid |-> 1], [uid |-> 2, gid |-> 1]}

=============================================================================
