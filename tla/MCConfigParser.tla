--------------------------- MODULE MCConfigParser ---------------------------
EXTENDS ConfigParser

MCWords == {"path", "auth", "restrict", "user", "service", "option",
            "basic", "cookie", "x"}

(***************************************************************************)
(* Line shapes of a configuration file.  The well-formed ones cover every *)
(* command, inner and repeated blanks, a trailing '/' and a comment.        *)
(***************************************************************************)
LPath     == <<"path", " ", "x", "\n">>
LAuth     == <<"auth", " ", "basic", "\n">>
LCookie   == <<"auth", " ", " ", "cookie", "\n">>
LRestrict == <<"restrict", " ", "/", "x", "\n">>
LUser     == <<"user", " ", "x", " ", "x", " ", "x", "\n">>
LService  == <<"service", " ", "/", "x", "/", " ", "x", "\n">>
LOption   == <<"option", " ", "/", "x", " ", "x", "=", "x", "\n">>
LComment  == <<"#", "x", " ", "\n">>
LEmpty    == <<"\n">>

(* Malformed lines, and a last line with no line end. *)
LBadCommand == <<"x", " ", "x", "\n">>
LNoValue    == <<"service", " ", "/", "x", "\n">>
LNoEquals   == <<"option", " ", "/", "x", " ", "x", "\n">>
LBadAuth    == <<"auth", " ", "x", "\n">>
LUnended    == <<"path", " ", "x">>

WellFormed == {LPath, LAuth, LCookie, LService, LOption, LComment, LEmpty}
Malformed  == {LBadCommand, LNoValue, LNoEquals, LBadAuth}

(* Files of up to three lines; restrict and user lines follow an auth line. *)
MCWellFormedConfigs ==
  { <<l>> : l \in WellFormed }
  \cup { <<l1, l2>> : l1, l2 \in WellFormed }
  \cup { <<a, r, l>> : a \in {LAuth, LCookie}, r \in {LRestrict, LUser},
                       l \in WellFormed \cup {LRestrict, LUser} }
  \cup { <<l1, l2, l3>> : l1, l2, l3 \in {LPath, LService, LOption, LComment} }

(* Any two lines, the last possibly unended. *)
MCAnyConfigs ==
  LET L == WellFormed \cup Malformed \cup {LRestrict, LUser} IN
  { <<l>> : l \in L \cup {LUnended} }
  \cup { <<l1, l2>> : l1 \in L, l2 \in L \cup {LUnended} }
=============================================================================
