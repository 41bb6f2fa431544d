---------------------------- MODULE ChunkedBody ----------------------------
(***************************************************************************)
(* Chunked transfer coding on the wire, byte by byte: how http::writer    *)
(* frames a chunk (spec.md 4.4: "<hex-size>\r\n<bytes>\r\n", terminator   *)
(* "0\r\n\r\n") and how the message reader decodes a chunked body in its  *)
(* AwaitingChunkedBody state (spec.md 4.3: hexadecimal sizes, chunk       *)
(* extensions after ';' ignored, a zero-size chunk ending the body,       *)
(* optional trailer lines, Error on a size that is not hexadecimal).      *)
(* Neither http::writer nor the parser is under src/.                      *)
(*                                                                         *)
(* A byte is a control byte ("CR", "LF", ";"), a hex digit "0".."f", or a *)
(* body byte (any other value, the pieces of body of RequestWriter).      *)
(* "x" stands for the text of an extension or a trailer line.             *)
(***************************************************************************)
EXTENDS Integers, SequencesExt

HexDigits == <<"0", "1", "2", "3", "4", "5", "6", "7",
               "8", "9", "a", "b", "c", "d", "e", "f">>
HexChars == {HexDigits[i] : i \in 1 .. 16}
HexValue(c) == CHOOSE v \in 0 .. 15 : HexDigits[v + 1] = c
CRLF == <<"CR", "LF">>

-----------------------------------------------------------------------------
(* The writer's size field: the chunk's length in lower-case hex. *)
RECURSIVE Hex(_)
Hex(n) == IF n < 16 THEN <<HexDigits[n + 1]>>
          ELSE Hex(n \div 16) \o <<HexDigits[(n % 16) + 1]>>

(* One chunk of body, as send_chunk frames it. *)
ChunkBytes(data) == Hex(Len(data)) \o CRLF \o data \o CRLF

(* The last chunk, as send_final_chunk appends it. *)
LastChunkBytes == <<"0">> \o CRLF \o CRLF

-----------------------------------------------------------------------------
(***************************************************************************)
(* The decoder's state: where it is in the chunk grammar, the size read  *)
(* so far (-1 before its first digit; the partial token kept across      *)
(* reads), the body bytes of the current chunk still to come, and the    *)
(* body decoded so far.                                                    *)
(***************************************************************************)
ChunkStates == {"size", "ext", "size_lf", "data", "data_cr", "data_lf", "trailer",
                "trailer_line", "trailer_lf", "end_lf", "done", "error"}
ChunkStart == [st |-> "size", size |-> -1, left |-> 0, body |-> <<>>]

(* A hex digit appended to the size read so far. *)
HexAccum(n, v) == (IF n < 0 THEN 0 ELSE n) * 16 + v

(* A byte of the size line: a hex digit, then ';' or CR once a digit has *)
(* been read; anything else is not a hexadecimal size.                    *)
SizeStep(p, b) ==
  CASE b \in HexChars -> [p EXCEPT !.size = HexAccum(p.size, HexValue(b))]
    [] p.size >= 0 /\ b = ";" -> [p EXCEPT !.st = "ext"]
    [] p.size >= 0 /\ b = "CR" -> [p EXCEPT !.st = "size_lf"]
    [] OTHER -> [p EXCEPT !.st = "error"]

(* After a chunk's CRLF: the next size line, its size not yet read. *)
NextChunk(p) == [p EXCEPT !.st = "size", !.size = -1]

(* Feed one byte b to the decoder in state p. *)
ChunkStep(p, b) ==
  LET go(s) == [p EXCEPT !.st = s]
      bad == go("error")
  IN
  CASE p.st = "size" -> SizeStep(p, b)
    [] p.st = "ext" -> IF b = "CR" THEN go("size_lf") ELSE p
    [] p.st = "size_lf" ->
         IF b # "LF" THEN bad
         ELSE IF p.size = 0 THEN go("trailer")
         ELSE [p EXCEPT !.st = "data", !.left = p.size]
    [] p.st = "data" ->
         [p EXCEPT !.body = Append(@, b), !.left = @ - 1,
                   !.st = IF p.left = 1 THEN "data_cr" ELSE "data"]
    [] p.st = "data_cr" -> IF b = "CR" THEN go("data_lf") ELSE bad
    [] p.st = "data_lf" ->
         IF b = "LF" THEN NextChunk(p) ELSE bad
    \* after the zero chunk: trailer lines, then the empty line
    [] p.st = "trailer" -> IF b = "CR" THEN go("end_lf") ELSE go("trailer_line")
    [] p.st = "trailer_line" -> IF b = "CR" THEN go("trailer_lf") ELSE p
    [] p.st = "trailer_lf" -> IF b = "LF" THEN go("trailer") ELSE bad
    [] p.st = "end_lf" -> IF b = "LF" THEN go("done") ELSE bad
    \* Finished and Error take no more bytes
    [] p.st \in {"done", "error"} -> p

(* The bytes of one read, fed in order: the state carries over to the   *)
(* next read, mid-token included.                                          *)
RECURSIVE ChunkFeed(_, _)
ChunkFeed(p, s) == IF s = <<>> THEN p ELSE ChunkFeed(ChunkStep(p, Head(s)), Tail(s))
=============================================================================
