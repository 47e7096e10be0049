----------------------------- MODULE Credentials -----------------------------
(***************************************************************************)
(* What ugid::Set does to the credentials it finds.  A user is [uid, gid]; *)
(* credentials are the effective ids and the supplementary groups.         *)
(***************************************************************************)
EXTENDS Naturals

Root == [uid |-> 0, gid |-> 0]

(* current: the user the credentials were last set for; groups: what       *)
(* initgroups(new.uid, new.gid) installs.  Only root may change an id.     *)
become(cred, current, new, groups) ==
  LET reset   == IF current.uid # 0
                 THEN [cred EXCEPT !.euid = 0, !.egid = 0] ELSE cred
      grouped == IF new.gid # 0
                 THEN [reset EXCEPT !.egid = new.gid, !.groups = groups]
                 ELSE reset
  IN  IF new.uid # 0 THEN [grouped EXCEPT !.euid = new.uid] ELSE grouped

=============================================================================
