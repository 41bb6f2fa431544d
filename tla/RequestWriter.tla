---------------------------- MODULE RequestWriter ----------------------------
(***************************************************************************)
(* pion::http::request_writer (src/include/pion/http/request_writer.hpp) *)
(* on top of http::writer, whose send/send_chunk/send_final_chunk and     *)
(* write are not under src/ and are modelled from spec.md 4.4.            *)
(*                                                                         *)
(* One writer per message m \in Msgs.  A piece of body is a model value;  *)
(* lengths count pieces.  What goes on the wire is a sequence of frames:  *)
(* the header block (with its framing: Content-Length n, or chunked), a   *)
(* body, a chunk, or the last chunk "0\r\n\r\n".                           *)
(*                                                                         *)
(* The request's own content, set by the caller before the writer is      *)
(* created, is "none" (length 0), "text", or "nul" (non-empty, first byte  *)
(* '\0'); it is the piece Content.                                         *)
(***************************************************************************)
EXTENDS Integers, SequencesExt, ChunkedBody

CONSTANTS
  Msgs,             \* the messages (one request_writer each)
  Data,             \* pieces of body the caller writes
  Content,          \* the request's content, as one piece
  RequestContents,  \* the shapes of request content explored
  MaxWrites         \* the most pieces a caller hands to one writer

ASSUME RequestContents \subseteq {"none", "text", "nul"} /\ Content \notin Data

VARIABLES
  wpc,           \* wpc[m]: "new", "ready", "writing", "done" or "failed"
  content,       \* content[m]: the shape of request m's content
  cl,            \* cl[m]: the request's Content-Length
  payload,       \* payload[m]: the writer's content buffers
  headers_sent,  \* headers_sent[m]: the header block has gone out
  chunking,      \* chunking[m]: sending_chunked_message()
  final,         \* final[m]: the outstanding write ends the message
  outgoing,      \* outgoing[m]: the buffers of the outstanding async_write
  wire,          \* wire[m]: the frames the peer has received
  written,       \* written[m]: the body the caller handed over (history)
  peer           \* peer[m]: the peer's chunk decoder (ChunkedBody), fed each write

wvars == <<wpc, content, cl, payload, headers_sent, chunking, final, outgoing,
           wire, written, peer>>

Frame(k, te, n, s) == [kind |-> k, te |-> te, cl |-> n, data |-> s]
LastChunk == Frame("last", "none", 0, <<>>)

-----------------------------------------------------------------------------
(***************************************************************************)
(* request_writer(tcp_conn, http_request_ptr, handler): if the request    *)
(* has content (length > 0, non-NULL) whose first byte is not '\0', it is *)
(* the initial payload (write_no_copy).  Either way the request carries   *)
(* it: written records what the caller asked to send.                     *)
(***************************************************************************)
Create(m) ==
  /\ wpc[m] = "new"
  /\ payload' = [payload EXCEPT ![m] = IF content[m] = "text" THEN <<Content>> ELSE <<>>]
  /\ written' = [written EXCEPT ![m] = IF content[m] # "none" THEN <<Content>> ELSE <<>>]
  /\ cl' = [cl EXCEPT ![m] = IF content[m] = "none" THEN 0 ELSE 1]
  /\ wpc' = [wpc EXCEPT ![m] = "ready"]
  /\ UNCHANGED <<content, headers_sent, chunking, final, outgoing, wire, peer>>

(* http::writer::write (operator<<): one more piece of body. *)
Write(m, d) ==
  /\ wpc[m] = "ready"
  /\ Len(written[m]) < MaxWrites
  /\ payload' = [payload EXCEPT ![m] = Append(@, d)]
  /\ written' = [written EXCEPT ![m] = Append(@, d)]
  /\ UNCHANGED <<wpc, content, cl, headers_sent, chunking, final, outgoing, wire, peer>>

(***************************************************************************)
(* prepare_buffers_for_send: the writer's content length, if any, becomes *)
(* the request's Content-Length; then the header block is framed for     *)
(* chunks or by that length.                                               *)
(***************************************************************************)
ContentLength(m) == IF Len(payload[m]) > 0 THEN Len(payload[m]) ELSE cl[m]

HeaderBlock(m, chunked) ==
  Frame("headers", IF chunked THEN "chunked" ELSE "length", ContentLength(m), <<>>)

(***************************************************************************)
(* http::writer::send_more_data (spec 4.4): the header block the first    *)
(* time, then the payload (as one chunk when chunking), then the last     *)
(* chunk if this ends a chunked message; one async_write of them all,     *)
(* completing in handle_write.                                             *)
(***************************************************************************)
SendMoreData(m, chunked, ends) ==
  /\ wpc[m] = "ready"
  /\ outgoing' = [outgoing EXCEPT ![m] =
        (IF headers_sent[m] THEN <<>> ELSE <<HeaderBlock(m, chunked)>>)
        \o (IF payload[m] = <<>> THEN <<>>
            ELSE <<Frame(IF chunked THEN "chunk" ELSE "body", "none", 0, payload[m])>>)
        \o (IF chunked /\ ends THEN <<LastChunk>> ELSE <<>>)]
  /\ cl' = IF headers_sent[m] THEN cl ELSE [cl EXCEPT ![m] = ContentLength(m)]
  /\ headers_sent' = [headers_sent EXCEPT ![m] = TRUE]
  /\ chunking' = [chunking EXCEPT ![m] = chunked]
  /\ final' = [final EXCEPT ![m] = ends]
  /\ wpc' = [wpc EXCEPT ![m] = "writing"]
  /\ UNCHANGED <<content, payload, wire, written, peer>>

(* send(): the whole message, framed by Content-Length. *)
Send(m) == ~chunking[m] /\ SendMoreData(m, FALSE, TRUE)

(* send_chunk(): the payload so far as one chunk. *)
SendChunk(m) == SendMoreData(m, TRUE, FALSE)

(* send_final_chunk(): the rest as a chunk, and the last chunk. *)
SendFinalChunk(m) == SendMoreData(m, TRUE, TRUE)

(***************************************************************************)
(* The bytes of a frame after the header block: a chunk and the last     *)
(* chunk in the chunked coding (ChunkedBody), a body as it is.  The peer  *)
(* reads the bytes of each write as they arrive and feeds them to its     *)
(* decoder, which keeps its state between reads.                           *)
(***************************************************************************)
FrameBytes(f) ==
  CASE f.kind = "chunk" -> ChunkBytes(f.data)
    [] f.kind = "last"  -> LastChunkBytes
    [] f.kind = "body"  -> f.data
    [] OTHER            -> <<>>

BodyBytes(fs) == FlattenSeq([i \in 1 .. Len(fs) |-> FrameBytes(fs[i])])

(* The peer reads bytes of message m: a chunked body goes to its decoder. *)
PeerReads(m, bytes) ==
  peer' = [peer EXCEPT ![m] = IF chunking[m] THEN ChunkFeed(@, bytes) ELSE @]

(* Mutant: handle_write without the clear() after a chunk. *)
HandleWriteNoClear(m) ==
  /\ wpc[m] = "writing"
  /\ wire' = [wire EXCEPT ![m] = @ \o outgoing[m]]
  /\ PeerReads(m, BodyBytes(outgoing[m]))
  /\ outgoing' = [outgoing EXCEPT ![m] = <<>>]
  /\ wpc' = [wpc EXCEPT ![m] = IF final[m] THEN "done" ELSE "ready"]
  /\ UNCHANGED <<content, cl, payload, headers_sent, chunking, final, written>>

(***************************************************************************)
(* handle_write(ec, bytes) after a successful async_write: a chunk's      *)
(* content is clear()ed so the next chunk starts empty; then              *)
(* finished_writing tells the caller, who may go on if the message is     *)
(* not finished.                                                           *)
(***************************************************************************)
HandleWrite(m) ==
  /\ wpc[m] = "writing"
  /\ wire' = [wire EXCEPT ![m] = @ \o outgoing[m]]
  /\ PeerReads(m, BodyBytes(outgoing[m]))
  /\ outgoing' = [outgoing EXCEPT ![m] = <<>>]
  /\ payload' = [payload EXCEPT ![m] = IF chunking[m] THEN <<>> ELSE @]
  /\ wpc' = [wpc EXCEPT ![m] = IF final[m] THEN "done" ELSE "ready"]
  /\ UNCHANGED <<content, cl, headers_sent, chunking, final, written>>

(***************************************************************************)
(* handle_write with a write error: some prefix of the bytes got out, k  *)
(* whole buffers and j bytes of the next (a chunk may be cut anywhere,    *)
(* its size line included); finished_writing(error) tells the caller, and *)
(* nothing more is sent.                                                   *)
(***************************************************************************)
HandleWriteError(m) ==
  /\ wpc[m] = "writing"
  /\ \E k \in 0 .. Len(outgoing[m]) :
       LET sent == SubSeq(outgoing[m], 1, k)
           cut  == IF k < Len(outgoing[m]) THEN FrameBytes(outgoing[m][k + 1]) ELSE <<>>
       IN  \E j \in 0 .. Len(cut) :
             /\ wire' = [wire EXCEPT ![m] = @ \o sent]
             /\ PeerReads(m, BodyBytes(sent) \o SubSeq(cut, 1, j))
  /\ outgoing' = [outgoing EXCEPT ![m] = <<>>]
  /\ wpc' = [wpc EXCEPT ![m] = "failed"]
  /\ UNCHANGED <<content, cl, payload, headers_sent, chunking, final, written>>

-----------------------------------------------------------------------------
(***************************************************************************)
(* What the peer decodes from the frames: with a Content-Length, the first*)
(* n pieces of body of the buffers that reached it whole; when chunked, what its chunk *)
(* decoder has made of the bytes so far.                                   *)
(***************************************************************************)
Received(m) ==
  LET w == wire[m]
      bytes == BodyBytes(w)
  IN  IF w = <<>> THEN <<>>
      ELSE IF w[1].te = "chunked"
           THEN peer[m].body
           ELSE SubSeq(bytes, 1, IF w[1].cl < Len(bytes) THEN w[1].cl ELSE Len(bytes))

InitWriters ==
  /\ wpc = [m \in Msgs |-> "new"]
  /\ content \in [Msgs -> RequestContents]
  /\ cl = [m \in Msgs |-> 0]
  /\ payload = [m \in Msgs |-> <<>>]
  /\ headers_sent = [m \in Msgs |-> FALSE]
  /\ chunking = [m \in Msgs |-> FALSE]
  /\ final = [m \in Msgs |-> FALSE]
  /\ outgoing = [m \in Msgs |-> <<>>]
  /\ wire = [m \in Msgs |-> <<>>]
  /\ written = [m \in Msgs |-> <<>>]
  /\ peer = [m \in Msgs |-> ChunkStart]

(* One step of writer m and its caller. *)
WriterNext(m) ==
  \/ Create(m)
  \/ \E d \in Data : Write(m, d)
  \/ Send(m) \/ SendChunk(m) \/ SendFinalChunk(m)
  \/ HandleWrite(m) \/ HandleWriteError(m)

Spec == InitWriters /\ [][\E m \in Msgs : WriterNext(m)]_wvars

Piece == Data \cup {Content}
Frames == [kind : {"headers", "body", "chunk", "last"},
           te : {"length", "chunked", "none"}, cl : 0 .. MaxWrites + 1,
           data : Seq(Piece)]

TypeOK ==
  /\ wpc \in [Msgs -> {"new", "ready", "writing", "done", "failed"}]
  /\ content \in [Msgs -> RequestContents]
  /\ cl \in [Msgs -> 0 .. MaxWrites + 1]
  /\ payload \in [Msgs -> Seq(Piece)]
  /\ headers_sent \in [Msgs -> BOOLEAN]
  /\ chunking \in [Msgs -> BOOLEAN]
  /\ final \in [Msgs -> BOOLEAN]
  /\ outgoing \in [Msgs -> Seq(Frames)]
  /\ wire \in [Msgs -> Seq(Frames)]
  /\ written \in [Msgs -> Seq(Piece)]
  /\ peer \in [Msgs -> [st : ChunkStates, size : Int, left : Nat, body : Seq(Piece)]]
=============================================================================
