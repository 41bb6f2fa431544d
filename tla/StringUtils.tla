---------------------------- MODULE StringUtils ----------------------------
(***************************************************************************)
(* The other helpers of src/src/string_utils.cpp that pion's code relies  *)
(* on, and http::types::make_query_string (src/src/http_types.cpp), which *)
(* builds on url_encode.  All are pure functions, so all are operators    *)
(* over byte strings, each checked against a definition of what its       *)
(* documentation (string_utils.hpp) promises.  The properties are stated  *)
(* of UrlCodec's `plain`, which ranges over every string over Alphabet of *)
(* up to MaxLen characters, paired where needed with the strings Texts.   *)
(***************************************************************************)
EXTENDS UrlCodec

CONSTANT Texts   \* query parameters for make_query_string

SLASH == 47
BACKSLASH == 92
AMP == 38
EQ == 61

NotSpace(c) == ~IsSpace(c)

(* Mutant: the reverse search that ends the trimmed range is left out. *)
trimFrontOnly(s) ==
  LET f == SelectInSeq(s, NotSpace) IN
  IF f = 0 THEN <<>> ELSE SubSeq(s, f, Len(s))

(***************************************************************************)
(* trim: wsfront is the first non-space (find_if_not); the end is one past*)
(* the last non-space, found by a reverse find_if_not that stops at       *)
(* wsfront, so an all-space string gives the empty range.                 *)
(***************************************************************************)
trim(s) ==
  LET f == SelectInSeq(s, NotSpace) IN
  IF f = 0 THEN <<>> ELSE SubSeq(s, f, SelectLastInSeq(s, NotSpace))

(* std::tolower in the C locale, and to_lower's transform over the string. *)
tolower(c) == IF c \in 65 .. 90 THEN c + 32 ELSE c
to_lower(s) == [i \in 1 .. Len(s) |-> tolower(s[i])]

(* iequals: equal sizes, then tolower of each pair of characters. *)
iequals(a, b) ==
  Len(a) = Len(b) /\ \A i \in 1 .. Len(a) : tolower(a[i]) = tolower(b[i])

(* Mutant: the directory is returned without its trailing separator. *)
strip_filename_DropSep(p) ==
  LET sep == SelectLastInSeq(p, LAMBDA c : c \in {SLASH, BACKSLASH}) IN
  IF sep # 0 /\ sep < Len(p) THEN SubSeq(p, 1, sep - 1) ELSE p

(***************************************************************************)
(* strip_filename: find_last_of("/\\"); if there is a separatorarator and it is *)
(* not the last character, everything up to and including it; otherwise  *)
(* the whole path.                                                         *)
(***************************************************************************)
strip_filename(p) ==
  LET sep == SelectLastInSeq(p, LAMBDA c : c \in {SLASH, BACKSLASH}) IN
  IF sep # 0 /\ sep < Len(p) THEN SubSeq(p, 1, sep) ELSE p

(***************************************************************************)
(* strip_parent_dir: in a copy with '\\' replaced by '/' and the trailing *)
(* '/'s removed, find the last '/'; none: the whole path; otherwise the   *)
(* original path from just after it (trailing separators included).       *)
(***************************************************************************)
strip_parent_dir(p) ==
  LET replaced == [i \in 1 .. Len(p) |-> IF p[i] = BACKSLASH THEN SLASH ELSE p[i]]
      unslashed == SubSeq(replaced, 1, SelectLastInSeq(replaced, LAMBDA c : c # SLASH))
      sep == SelectLastInSeq(unslashed, LAMBDA c : c = SLASH)
  IN  IF sep = 0 THEN p ELSE SubSeq(p, sep + 1, Len(p))

(***************************************************************************)
(* make_query_string: in the map's iteration order, "key=value" with both *)
(* url_encode'd, joined by '&'.                                            *)
(***************************************************************************)
make_query_string(ps) ==
  FlattenSeq([i \in 1 .. Len(ps) |->
                (IF i > 1 THEN <<AMP>> ELSE <<>>)
                \o url_encode(ps[i][1]) \o <<EQ>> \o url_encode(ps[i][2])])

-----------------------------------------------------------------------------
(***************************************************************************)
(* replace_all(str, snippet, replacement) is a loop, so it is a state     *)
(* machine of its own beside url_decode's, sharing no state with it.  It  *)
(* is called on `plain` once url_decode has returned, with the other two  *)
(* arguments from Replacements.  Each iteration looks for the snippet     *)
(* from the start of the string again and replaces that first occurrence. *)
(* A step that would make the string longer than MaxReplaceLen is not     *)
(* explored: the loop is cut off there.                                   *)
(***************************************************************************)
CONSTANTS Replacements, MaxReplaceLen

ASSUME Replacements \subseteq Seq(Alphabet) \X Seq(Alphabet)
       /\ MaxReplaceLen \in Nat

VARIABLES str, snippet, replacement, rpc

rvars == <<str, snippet, replacement, rpc>>
allvars == <<vars, rvars>>

(* if (snippet.empty()) return str; otherwise the loop begins. *)
CallReplaceAll ==
  /\ Decoded /\ rpc = "idle"
  /\ \E r \in Replacements : snippet' = r[1] /\ replacement' = r[2]
  /\ str' = plain
  /\ rpc' = IF snippet' = <<>> THEN "done" ELSE "loop"
  /\ UNCHANGED vars

(* Mutant: replace(pos, 0, replacement) inserts before the occurrence. *)
ReplaceStepInsert ==
  /\ rpc = "loop" /\ snippet \in SubSeqs(str)
  /\ str' = ReplaceSubSeqAt(IndexFirstSubSeq(snippet, str),
                         replacement \o snippet, snippet, str)
  /\ Len(str') <= MaxReplaceLen
  /\ UNCHANGED <<snippet, replacement, rpc>> /\ UNCHANGED vars

(* str.find(snippet) finds it; str.replace(pos, snippet.length(), replacement). *)
ReplaceStep ==
  /\ rpc = "loop" /\ snippet \in SubSeqs(str)
  /\ str' = ReplaceFirstSubSeq(replacement, snippet, str)
  /\ Len(str') <= MaxReplaceLen
  /\ UNCHANGED <<snippet, replacement, rpc>> /\ UNCHANGED vars

(* str.find(snippet) returns npos: return str. *)
ReplaceReturn ==
  /\ rpc = "loop" /\ snippet \notin SubSeqs(str)
  /\ rpc' = "done"
  /\ UNCHANGED <<str, snippet, replacement>> /\ UNCHANGED vars

StringInit ==
  /\ Init
  /\ rpc = "idle" /\ str = <<>> /\ snippet = <<>> /\ replacement = <<>>

StringNext ==
  \/ Next /\ UNCHANGED rvars
  \/ CallReplaceAll \/ ReplaceStep \/ ReplaceReturn

(* The loop runs in its caller's thread: once entered it keeps stepping. *)
StringSpec ==
  StringInit /\ [][StringNext]_allvars
  /\ WF_allvars(ReplaceStep) /\ WF_allvars(ReplaceReturn)

(* The fields of s between the delimiters d, empty ones included. *)
RECURSIVE Fields(_, _)
Fields(s, d) ==
  LET i == SelectInSeq(s, LAMBDA c : c = d) IN
  IF i = 0 THEN <<s>>
  ELSE <<SubSeq(s, 1, i - 1)>> \o Fields(SubSeq(s, i + 1, Len(s)), d)

(***************************************************************************)
(* trim removes exactly the white space at both ends: the result is the  *)
(* string less a run of spaces before and after it, and starts and ends  *)
(* with a non-space (string_utils.hpp: "@return trimmed string").          *)
(***************************************************************************)
TrimStripsSpace ==
  LET t == trim(plain) IN
  /\ t # <<>> => NotSpace(t[1]) /\ NotSpace(t[Len(t)])
  /\ \E k \in 0 .. Len(plain) - Len(t) :
       /\ SubSeq(plain, k + 1, k + Len(t)) = t
       /\ \A i \in 1 .. k : IsSpace(plain[i])
       /\ \A i \in k + Len(t) + 1 .. Len(plain) : IsSpace(plain[i])

(***************************************************************************)
(* For a path naming a file in a directory (a separator, not at the end), *)
(* strip_filename gives the directory and strip_parent_dir the file name, *)
(* and together they are the path, with '/' and '\\' mixed.              *)
(***************************************************************************)
PathSplits ==
  (plain # <<>> /\ plain[Len(plain)] \notin {SLASH, BACKSLASH}
   /\ \E i \in 1 .. Len(plain) : plain[i] \in {SLASH, BACKSLASH})
    => strip_filename(plain) \o strip_parent_dir(plain) = plain

(***************************************************************************)
(* A query string made by make_query_string splits back, at '&' and then  *)
(* at the first '=', into the encoded keys and values it was made of:     *)
(* url_encode escapes both separators.                                     *)
(***************************************************************************)
QueryParsesBack ==
  \A k \in Texts :
    LET ps == <<<<plain, k>>, <<k, plain>>>>
        fs == Fields(make_query_string(ps), AMP)
    IN  /\ Len(fs) = Len(ps)
        /\ \A i \in 1 .. Len(ps) :
             Fields(fs[i], EQ) = <<url_encode(ps[i][1]), url_encode(ps[i][2])>>

(***************************************************************************)
(* replace_all returns whenever the replacement is shorter than the       *)
(* snippet, although it searches the whole string again after each        *)
(* replacement and so also replaces occurrences that earlier replacements *)
(* created: each iteration makes the string shorter.                      *)
(***************************************************************************)
ReplaceAllReturns ==
  (rpc = "loop" /\ Len(replacement) < Len(snippet)) ~> rpc = "done"
=============================================================================
