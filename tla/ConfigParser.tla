---------------------------- MODULE ConfigParser ----------------------------
(***************************************************************************)
(* pion::http::plugin_server::load_service_config                           *)
(* (src/src/http_plugin_server.cpp): a character-at-a-time state machine   *)
(* over the configuration file.  One action per case of its switch, each   *)
(* followed by the loop's config_stream.get().                              *)
(*                                                                          *)
(* Characters are abstracted to symbols: an alphabetic run is one symbol   *)
(* (a word such as "path" or "x"), and " " (space or tab), "\n" (CR or    *)
(* LF), "#", "=" and "/" stand for themselves.  A string is a sequence of  *)
(* symbols, so command_string = <<"path">> is the code's "path".           *)
(*                                                                          *)
(* The calls the parser makes are recorded: `server` holds the calls to    *)
(* add_plugin_directory, load_service and set_service_option in order;    *)
(* `auth` is my_auth_ptr: null, or the object with the restrict and user   *)
(* rules added to it; `installed` is what set_authentication received.    *)
(***************************************************************************)
EXTENDS Integers, SequencesExt

CONSTANTS
  Words,     \* alphabetic symbols, including the command words
  Configs    \* the configuration files: sequences of lines

Blank == " "
NL == "\n"
Null == [kind |-> "null", rules |-> <<>>]   \* an empty auth_ptr
IsAlpha(c) == c \in Words
Str(w) == <<w>>               \* a one-word string literal

VARIABLES
  lines,            \* the file, as a sequence of lines
  i,                \* index of c in the file; c = get()
  parse_state,
  command_string, resource_string, username_string, value_string,
  auth,             \* my_auth_ptr
  server,           \* calls made on the server, in order
  installed,        \* the argument of set_authentication
  pc                \* "parsing", "done" or "crashed"

vars == <<lines, i, parse_state, command_string, resource_string,
          username_string, value_string, auth, server, installed, pc>>

File == FlattenSeq(lines)
c == File[i]

(* strip_trailing_slash: drop one trailing '/'. *)
strip_trailing_slash(r) == IF r # <<>> /\ Last(r) = "/" THEN Front(r) ELSE r

(* The loop's `c = config_stream.get()` after each case. *)
Advance(ps) ==
  /\ i' = i + 1
  /\ parse_state' = ps

(* Mutant: an off-by-one that keeps the '=' in the option's value. *)
OptionSplitKeepsEq(v) ==
  LET pos == SelectInSeq(v, LAMBDA x : x = "=") IN
  IF pos = 0 THEN <<v, v>>
  ELSE <<SubSeq(v, 1, pos - 1), SubSeq(v, pos, Len(v))>>

(***************************************************************************)
(* Lines 210-215: split at the first '='.  With no '=', pos is npos:      *)
(* substr(0, npos) is the whole value and substr(npos + 1) wraps to       *)
(* substr(0), the whole value again.                                        *)
(***************************************************************************)
OptionSplit(v) ==
  LET pos == SelectInSeq(v, LAMBDA x : x = "=") IN
  IF pos = 0 THEN <<v, v>>
  ELSE <<SubSeq(v, 1, pos - 1), SubSeq(v, pos + 1, Len(v))>>

(* Lines 166-171, 205-217: the server call a finished line makes, if any. *)
ServerCall(cmd, r, v) ==
  CASE cmd = Str("path")    -> <<<<"add_plugin_directory", v>>>>
    [] cmd = Str("service") -> <<<<"load_service", strip_trailing_slash(r), v>>>>
    [] cmd = Str("option")  -> <<<<"set_service_option", strip_trailing_slash(r)>> \o OptionSplit(v)>>
    [] OTHER                -> <<>>

(* Lines 172-184: "auth basic" or "auth cookie" replaces my_auth_ptr by a *)
(* new object; any other value is reported and ignored.                    *)
NewAuth(cmd, v, a) ==
  IF cmd = Str("auth") /\ v \in {Str("basic"), Str("cookie")}
  THEN [kind |-> v[1], rules |-> <<>>]
  ELSE a

(* Lines 193 and 204: add_restrict(value) or add_user(username, value). *)
AuthRule(cmd, u, v) ==
  IF cmd = Str("restrict") THEN <<"restrict", v>> ELSE <<"user", u, v>>

(***************************************************************************)
(* Lines 166-218, a non-empty value finished by a line end: carry out the *)
(* command.  "restrict" and "user" report a missing auth object and then  *)
(* call through it anyway: a null dereference, and the process crashes.   *)
(***************************************************************************)
FinishValue ==
  IF command_string \in {Str("restrict"), Str("user")}
  THEN IF auth = Null
       THEN pc' = "crashed" /\ UNCHANGED <<auth, server>>
       ELSE /\ auth' = [auth EXCEPT !.rules =
                          Append(@, AuthRule(command_string, username_string, value_string))]
            /\ UNCHANGED <<server, pc>>
  ELSE /\ auth' = NewAuth(command_string, value_string, auth)
       /\ server' = server \o ServerCall(command_string, resource_string, value_string)
       /\ UNCHANGED pc

-----------------------------------------------------------------------------
Parsing == pc = "parsing" /\ i <= Len(File)

(* case PARSE_NEWLINE: '#' starts a comment, a letter a command; anything *)
(* else but a line end is reported and skipped.                            *)
ParseNewline ==
  /\ Parsing /\ parse_state = "NEWLINE"
  /\ CASE c = "#"      -> Advance("COMMENT") /\ UNCHANGED command_string
       [] IsAlpha(c)   -> Advance("COMMAND") /\ command_string' = Append(command_string, c)
       [] OTHER        -> Advance("NEWLINE") /\ UNCHANGED command_string
  /\ UNCHANGED <<lines, resource_string, username_string, value_string, auth, server, installed, pc>>

(***************************************************************************)
(* case PARSE_COMMAND: a blank ends the command; a known one moves on and *)
(* clears the next field.  An unknown command, or a non-letter, is only   *)
(* reported: the state stays PARSE_COMMAND and command_string is kept.    *)
(***************************************************************************)
ParseCommand ==
  /\ Parsing /\ parse_state = "COMMAND"
  /\ IF c = Blank
     THEN CASE command_string \in {Str("path"), Str("auth"), Str("restrict")} ->
                 Advance("VALUE") /\ value_string' = <<>> /\ UNCHANGED <<resource_string, username_string>>
            [] command_string \in {Str("service"), Str("option")} ->
                 Advance("RESOURCE") /\ resource_string' = <<>> /\ UNCHANGED <<username_string, value_string>>
            [] command_string = Str("user") ->
                 Advance("USERNAME") /\ username_string' = <<>> /\ UNCHANGED <<resource_string, value_string>>
            [] OTHER ->
                 Advance("COMMAND") /\ UNCHANGED <<resource_string, username_string, value_string>>
     ELSE /\ Advance("COMMAND")
          /\ UNCHANGED <<resource_string, username_string, value_string>>
  /\ command_string' = IF c # Blank /\ IsAlpha(c) THEN Append(command_string, c) ELSE command_string
  /\ UNCHANGED <<lines, auth, server, installed, pc>>

(* case PARSE_RESOURCE: skip leading blanks; a blank after the resource   *)
(* moves to the value; a line end is only reported.                        *)
ParseResource ==
  /\ Parsing /\ parse_state = "RESOURCE"
  /\ CASE c = Blank /\ resource_string # <<>> ->
            Advance("VALUE") /\ value_string' = <<>> /\ UNCHANGED resource_string
       [] c \in {Blank, NL} ->
            Advance("RESOURCE") /\ UNCHANGED <<resource_string, value_string>>
       [] OTHER ->
            Advance("RESOURCE") /\ resource_string' = Append(resource_string, c) /\ UNCHANGED value_string
  /\ UNCHANGED <<lines, command_string, username_string, auth, server, installed, pc>>

(* case PARSE_USERNAME: the same for the user name of a "user" line. *)
ParseUsername ==
  /\ Parsing /\ parse_state = "USERNAME"
  /\ CASE c = Blank /\ username_string # <<>> ->
            Advance("VALUE") /\ value_string' = <<>> /\ UNCHANGED username_string
       [] c \in {Blank, NL} ->
            Advance("USERNAME") /\ UNCHANGED <<username_string, value_string>>
       [] OTHER ->
            Advance("USERNAME") /\ username_string' = Append(username_string, c) /\ UNCHANGED value_string
  /\ UNCHANGED <<lines, command_string, resource_string, auth, server, installed, pc>>

(***************************************************************************)
(* case PARSE_VALUE: a line end finishes the value (FinishValue), clears  *)
(* command_string and returns to PARSE_NEWLINE; leading blanks are        *)
(* skipped; every other symbol, inner blanks included, is appended.       *)
(***************************************************************************)
ParseValue ==
  /\ Parsing /\ parse_state = "VALUE"
  /\ IF c = NL
     THEN /\ IF value_string = <<>> THEN UNCHANGED <<auth, server, pc>> ELSE FinishValue
          /\ command_string' = <<>>
          /\ Advance("NEWLINE")
          /\ UNCHANGED value_string
     ELSE /\ value_string' = IF c = Blank /\ value_string = <<>> THEN value_string
                             ELSE Append(value_string, c)
          /\ Advance("VALUE")
          /\ UNCHANGED <<command_string, auth, server, pc>>
  /\ UNCHANGED <<lines, resource_string, username_string, installed>>

(* case PARSE_COMMENT: skip to the line end. *)
ParseComment ==
  /\ Parsing /\ parse_state = "COMMENT"
  /\ Advance(IF c = NL THEN "NEWLINE" ELSE "COMMENT")
  /\ UNCHANGED <<lines, command_string, resource_string, username_string,
                 value_string, auth, server, installed, pc>>

(* The stream is exhausted: the loop ends and set_authentication(my_auth_ptr). *)
EndOfFile ==
  /\ pc = "parsing" /\ i > Len(File)
  /\ installed' = auth
  /\ pc' = "done"
  /\ UNCHANGED <<lines, i, parse_state, command_string, resource_string,
                 username_string, value_string, auth, server>>

Init ==
  /\ lines \in Configs
  /\ i = 1
  /\ parse_state = "NEWLINE"
  /\ command_string = <<>> /\ resource_string = <<>>
  /\ username_string = <<>> /\ value_string = <<>>
  /\ auth = Null
  /\ server = <<>>
  /\ installed = Null
  /\ pc = "parsing"

Next ==
  \/ ParseNewline \/ ParseCommand \/ ParseResource \/ ParseUsername
  \/ ParseValue \/ ParseComment \/ EndOfFile

Spec == Init /\ [][Next]_vars /\ WF_vars(Next)
-----------------------------------------------------------------------------
(***************************************************************************)
(* Reference: the file read line by line, each complete line applied on   *)
(* its own, as the parser's "bad config" messages promise.  A line is a    *)
(* command word, blanks, and its fields separated by blanks; a malformed   *)
(* line, an unsupported auth scheme, an "option" without '=' and a        *)
(* "restrict" or "user" line before any "auth" line change nothing.       *)
(***************************************************************************)
RECURSIVE DropBlanks(_)
DropBlanks(s) == IF s # <<>> /\ s[1] = Blank THEN DropBlanks(Tail(s)) ELSE s

RefLine(st, l) ==
  LET s    == DropBlanks(Front(l))
      cmd  == s[1]
      rest == DropBlanks(SubSeq(s, 3, Len(s)))
      k    == SelectInSeq(rest, LAMBDA x : x = Blank)
      fld  == SubSeq(rest, 1, k - 1)
      arg  == DropBlanks(SubSeq(rest, k + 1, Len(rest)))
      two  == k > 1 /\ arg # <<>>
      eq   == SelectInSeq(arg, LAMBDA x : x = "=")
      res  == IF Last(fld) = "/" THEN SubSeq(fld, 1, Len(fld) - 1) ELSE fld
      Call(x) == [st EXCEPT !.server = Append(@, x)]
      Rule(x) == [st EXCEPT !.auth.rules = Append(@, x)]
  IN
  IF l = <<>> \/ Last(l) # NL \/ s = <<>> \/ s[1] = "#"
     \/ ~(Len(s) >= 2 /\ IsAlpha(cmd) /\ s[2] = Blank)
  THEN st
  ELSE CASE cmd = "path" /\ rest # <<>> -> Call(<<"add_plugin_directory", rest>>)
         [] cmd = "auth" /\ rest \in {Str("basic"), Str("cookie")} ->
              [st EXCEPT !.auth = [kind |-> rest[1], rules |-> <<>>]]
         [] cmd = "restrict" /\ rest # <<>> /\ st.auth # Null -> Rule(<<"restrict", rest>>)
         [] cmd = "user" /\ two /\ st.auth # Null -> Rule(<<"user", fld, arg>>)
         [] cmd = "service" /\ two -> Call(<<"load_service", res, arg>>)
         [] cmd = "option" /\ two /\ eq > 0 ->
              Call(<<"set_service_option", res, SubSeq(arg, 1, eq - 1),
                     SubSeq(arg, eq + 1, Len(arg))>>)
         [] OTHER -> st

RefConfig(ls) == FoldLeft(RefLine, [auth |-> Null, server |-> <<>>], ls)

(***************************************************************************)
(* load_service_config applies every line of the file the way the         *)
(* reference does: it does not crash, and when it returns the server has  *)
(* received exactly the reference's calls and set_authentication the      *)
(* reference's auth object.                                                 *)
(***************************************************************************)
AppliesEachLine ==
  /\ pc # "crashed"
  /\ pc = "done" => /\ server = RefConfig(lines).server
                    /\ installed = RefConfig(lines).auth
=============================================================================
