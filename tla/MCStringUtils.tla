--------------------------- MODULE MCStringUtils ---------------------------
EXTENDS StringUtils

(***************************************************************************)
(* NUL, ' ', '%', '+', '-', '0', '4', 'G' and one byte above 127: enough  *)
(* for every case of url_decode's and url_encode's switches, for escapes  *)
(* that strtol parses fully, partly ("4G"), with a sign ("-4") or with    *)
(* white space (" 4"), for "%00", and for a negative signed char.  Then   *)
(* '/', '\\', '&', '=' and 'g': the path separators, the query separators *)
(* and a lower-case letter for iequals.                                    *)
(***************************************************************************)
MCAlphabet == {0, 32, 37, 43, 45, 48, 52, 71, 200, 47, 92, 38, 61, 103}
MCMaxLen == 3

(* Up to two of 'G', 'g' and '&'. *)
MCTexts == SeqOf({71, 103, 38}, 2)

(***************************************************************************)
(* replace_all's snippet and replacement: "G" by "" and "Gg" by "g"       *)
(* (shorter), "g" by "G" (as long), "G" by "GG" (contains the snippet, so *)
(* the loop runs until MCMaxReplaceLen cuts it off) and the empty snippet.*)
(***************************************************************************)
MCReplacements ==
  {<<<<71>>, <<>>>>, <<<<71, 103>>, <<103>>>>, <<<<103>>, <<71>>>>,
   <<<<71>>, <<71, 71>>>>, <<<<>>, <<103>>>>}
MCMaxReplaceLen == 5
=============================================================================
