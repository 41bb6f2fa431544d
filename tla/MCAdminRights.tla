--------------------------- MODULE MCAdminRights ---------------------------
(* Model-checking instance of AdminRights: two worker threads, uids and   *)
(* gids 0..2, and passwd/group lines that reach every outcome of          *)
(* find_system_id: a normal entry, an entry with an empty password field *)
(* (split then shifts the fields), a third field that is not numeric,     *)
(* another user's entry, and a name listed twice.                         *)
EXTENDS AdminRights

CONSTANTS t1, t2, alice, bob, x, gecos, empty

MCThreads == {t1, t2}
MCNames == {alice, bob}
MCIds == 0..2
MCOthers == {x, gecos}

(* name:passwd:uid:gecos *)
LNormal    == <<alice, x, 1, gecos>>
LNoPasswd  == <<alice, empty, 2, 0>>
LNotNumber == <<alice, empty, 1, gecos>>
LOther     == <<bob, x, 2, gecos>>
MCLines == {LNormal, LNoPasswd, LNotNumber, LOther}

MCPasswdFiles == SeqOf(MCLines, 2) \ {<<>>}
MCGroupFiles == {<<LNormal>>, <<LNoPasswd>>, <<LOther>>}
MCStartIds == {0, 1}
MCPlatforms == {"posix", "win32"}

MCSymmetry == Permutations(MCThreads)
=============================================================================
