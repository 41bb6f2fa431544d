----------------------------- MODULE UrlCodec -----------------------------
(***************************************************************************)
(* pion::algorithm::url_decode and url_encode (src/src/string_utils.cpp). *)
(* Characters are byte values 0..255.  url_encode is a pure function and   *)
(* is an operator; the loop of url_decode is a state machine whose state   *)
(* is the loop index pos (0-based, as in the code) and the result built so *)
(* far, one action per case of its switch.                                 *)
(*                                                                         *)
(* The input is either a string `plain` over Alphabet, or url_encode of    *)
(* it, so the decoder is run both on arbitrary text and on encoder output. *)
(***************************************************************************)
EXTENDS Integers, SequencesExt

CONSTANTS
  Alphabet,   \* the byte values strings are made of
  MaxLen      \* the longest plain string

ASSUME Alphabet \subseteq 0..255 /\ MaxLen \in Nat

Bytes == 0..255

(* isspace() in the C locale, and the hex digits strtol accepts. *)
IsSpace(c) == c \in {9, 10, 11, 12, 13, 32}
IsHex(c) == c \in (48..57) \cup (65..70) \cup (97..102)
HexVal(c) == CASE c \in 48..57 -> c - 48
               [] c \in 65..70 -> c - 55
               [] OTHER        -> c - 87

(***************************************************************************)
(* std::strtol(decode_buf, 0, 16) of the two-character buffer "ab": skip *)
(* leading white space, take an optional sign, then the longest run of    *)
(* hex digits ("0x" with no digit after it parses as 0).  No digit: 0.     *)
(***************************************************************************)
strtol16(a, b) ==
  LET tail == IF IsHex(b) THEN HexVal(b) ELSE 0 IN
  CASE IsSpace(a)     -> tail
    [] a = 43         -> tail
    [] a = 45         -> -tail
    [] IsHex(a)       -> IF IsHex(b) THEN 16 * HexVal(a) + HexVal(b) ELSE HexVal(a)
    [] OTHER          -> 0

(* static_cast<char>: the low byte of the long. *)
ToChar(v) == v % 256

(* The characters url_encode escapes besides those outside 33..126. *)
Special == {32, 36, 38, 43, 44, 47, 58, 59, 61, 63, 64, 34, 60, 62, 35, 37,
            123, 125, 124, 92, 94, 126, 91, 93, 96}

(* Mutant: '+' left out of the escaped set. *)
NeedsEscapeNoPlus(c) == ~(c > 32 /\ c < 127) \/ c \in Special \ {43}

(* Mutant: '&' and '=' left out of the escaped set. *)
NeedsEscapeKeepsSeparators(c) == ~(c > 32 /\ c < 127) \/ c \in Special \ {38, 61}

(***************************************************************************)
(* The switch of url_encode: a char outside 33..126 (a byte >= 128 is a   *)
(* negative signed char) or one of the listed ones is escaped.             *)
(***************************************************************************)
NeedsEscape(c) == ~(c > 32 /\ c < 127) \/ c \in Special

(* sprintf("%.2X"): an upper-case hex digit. *)
HexDigit(d) == IF d < 10 THEN 48 + d ELSE 55 + d

RECURSIVE url_encode(_)
url_encode(s) ==
  IF s = <<>> THEN <<>>
  ELSE (IF NeedsEscape(s[1])
        THEN <<37, HexDigit(s[1] \div 16), HexDigit(s[1] % 16)>>
        ELSE <<s[1]>>) \o url_encode(Tail(s))

-----------------------------------------------------------------------------
VARIABLES plain, input, pos, result

vars == <<plain, input, pos, result>>

Cur == input[pos + 1]   \* str[pos]

(* case '+': result += ' '. *)
DecodePlus ==
  /\ pos < Len(input) /\ Cur = 43
  /\ result' = Append(result, 32)
  /\ pos' = pos + 1
  /\ UNCHANGED <<plain, input>>

(* Mutant: the strtol result appended without the cast to char. *)
DecodeEscapeNoCast ==
  /\ pos < Len(input) /\ Cur = 37 /\ pos + 2 < Len(input)
  /\ LET v == strtol16(input[pos + 2], input[pos + 3]) IN
       IF ToChar(v) = 0
       THEN result' = Append(result, 37) /\ pos' = pos + 1
       ELSE result' = Append(result, v) /\ pos' = pos + 3
  /\ UNCHANGED <<plain, input>>

(***************************************************************************)
(* case '%' with two characters after it: decode them with strtol; a      *)
(* decoded '\0' appends '%' and backs pos up so that both characters are  *)
(* read again as text (pos -= 2, then the loop's ++pos).                   *)
(***************************************************************************)
DecodeEscape ==
  /\ pos < Len(input) /\ Cur = 37 /\ pos + 2 < Len(input)
  /\ LET c == ToChar(strtol16(input[pos + 2], input[pos + 3])) IN
       IF c = 0
       THEN result' = Append(result, 37) /\ pos' = pos + 1
       ELSE result' = Append(result, c) /\ pos' = pos + 3
  /\ UNCHANGED <<plain, input>>

(* case '%' too close to the end: result += '%'. *)
DecodePercentAtEnd ==
  /\ pos < Len(input) /\ Cur = 37 /\ ~(pos + 2 < Len(input))
  /\ result' = Append(result, 37)
  /\ pos' = pos + 1
  /\ UNCHANGED <<plain, input>>

(* default: the character is copied. *)
DecodeOther ==
  /\ pos < Len(input) /\ Cur \notin {37, 43}
  /\ result' = Append(result, Cur)
  /\ pos' = pos + 1
  /\ UNCHANGED <<plain, input>>

Init ==
  /\ plain \in SeqOf(Alphabet, MaxLen)
  /\ input \in {plain, url_encode(plain)}
  /\ pos = 0
  /\ result = <<>>

Next == DecodePlus \/ DecodeEscape \/ DecodePercentAtEnd \/ DecodeOther

Spec == Init /\ [][Next]_vars

Decoded == pos = Len(input)

-----------------------------------------------------------------------------
TypeOK ==
  /\ plain \in Seq(Alphabet)
  /\ input \in Seq(Bytes)
  /\ pos \in 0..Len(input)
  /\ result \in Seq(Bytes)

(***************************************************************************)
(* url_decode inverts url_encode on every string without a NUL byte (NUL  *)
(* is encoded as "%00", which url_decode deliberately leaves undecoded).  *)
(***************************************************************************)
RoundTrip ==
  (Decoded /\ input = url_encode(plain) /\ \A i \in 1..Len(plain) : plain[i] # 0)
    => result = plain
=============================================================================
