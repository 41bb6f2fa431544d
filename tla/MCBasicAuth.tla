---------------------------- MODULE MCBasicAuth ----------------------------
EXTENDS BasicAuth, TLC

CONSTANTS t1, t2, c1, c2, c3, u1, p1, p2, MCEmpty, MCNoUser

MCThreads == {t1, t2}
MCCreds == {c1, c2, c3}
MCUsers == {u1}
MCPasswords == {p1, p2}
MCExpiry == 1
MCMaxTime == 4

(***************************************************************************)
(* c1 and c2 are u1 with two passwords, so changing u1's password revokes *)
(* one of them; c3 is ":p1", which parse_credentials rejects.             *)
(***************************************************************************)
MCDecode ==
  [c \in MCCreds |->
     CASE c = c1 -> [base64 |-> TRUE, user |-> u1, sep |-> TRUE, pass |-> p1]
       [] c = c2 -> [base64 |-> TRUE, user |-> u1, sep |-> TRUE, pass |-> p2]
       [] c = c3 -> [base64 |-> TRUE, user |-> MCEmpty, sep |-> TRUE, pass |-> p1]]

(* No header, "Basic " alone, "Basic <c>", and another scheme. *)
MCAuthorizations ==
  {[scheme |-> "none", cred |-> MCEmpty], [scheme |-> "Basic", cred |-> MCEmpty],
   [scheme |-> "other", cred |-> c1]}
  \cup {[scheme |-> "Basic", cred |-> c] : c \in MCCreds}

(* Threads are interchangeable. *)
MCSymmetry == Permutations(MCThreads)
=============================================================================
