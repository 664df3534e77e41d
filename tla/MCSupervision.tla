---------------------------- MODULE MCSupervision ----------------------------
(***************************************************************************)
(* Supervision on small instances, and the kinds of failure each run uses. *)
(***************************************************************************)
EXTENDS Supervision

(* Failures the threads handle themselves. *)
RetriedFailures == {"connect", "login", "pasv", "accept", "timeout", "closed", "headers"}

(* All that the main thread may have to deal with. *)
AllFailures ==
  RetriedFailures \cup {"cwd", "rest", "notfound", "norange", "auth", "write"}
=============================================================================
