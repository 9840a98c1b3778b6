---------------------------- MODULE HttpFraming ----------------------------
(***************************************************************************)
(* What Http.write makes of the res record of a connection and a message,  *)
(* and what an HTTP client makes of what it receives.                      *)
(*                                                                         *)
(* A string given to uv_write is a piece: the header block it starts with, *)
(* if any, and a message, with or without the framing of a chunk.          *)
(***************************************************************************)
EXTENDS Naturals, Sequences

CONSTANT Texts   \* the non-empty strings the program writes

----------------------------------------------------------------------------
Empty == "empty"
Messages == Texts \cup {Empty}

(* What matters of the Transfer-Encoding entry of res.headers.             *)
Encodings == {"chunked", "other"}
Statuses == {200, 404}

Res == [statusCode : Statuses, encoding : Encodings, wroteHeaders : BOOLEAN]

(* The header block of a piece: absent, or its status line and encoding.   *)
NoHead == [statusCode |-> 0, encoding |-> "none"]
HeaderBlock == [statusCode : Statuses, encoding : Encodings]

Piece == [head : HeaderBlock \cup {NoHead}, framed : BOOLEAN, msg : Messages]

(* Mutant: createServer leaves the status code unset. *)
NewRes_no_status ==
  [statusCode |-> 0, encoding |-> "chunked", wroteHeaders |-> FALSE]

(* The record createServer makes for a connection.                         *)
NewRes == [statusCode |-> 200, encoding |-> "chunked", wroteHeaders |-> FALSE]

(* Mutant: every write sends the header block. *)
piece_always_head(r, m) ==
  [head |-> [statusCode |-> r.statusCode, encoding |-> r.encoding],
   framed |-> r.encoding = "chunked", msg |-> m]

(* Mutant: every message is framed, whatever the encoding. *)
piece_always_framed(r, m) ==
  [head |-> IF r.wroteHeaders THEN NoHead
            ELSE [statusCode |-> r.statusCode, encoding |-> r.encoding],
   framed |-> TRUE, msg |-> m]

(* What Http.write passes to uv_write.  A chunk of length zero is what     *)
(* ends a chunked body.                                                    *)
piece(r, m) ==
  [head |-> IF r.wroteHeaders THEN NoHead
            ELSE [statusCode |-> r.statusCode, encoding |-> r.encoding],
   framed |-> r.encoding = "chunked", msg |-> m]

wrote(r) == [r EXCEPT !.wroteHeaders = TRUE]

----------------------------------------------------------------------------
(***************************************************************************)
(* The client.  It reads a header block, then a body in the encoding the   *)
(* block names: chunks up to an empty one, or everything until the close.  *)
(*   state  "head": nothing read;  "chunks" or "close": in the body;       *)
(*          "done": after the empty chunk;  "bad": what came is not HTTP   *)
(*   body   the texts of the body                                          *)
(*   extra  did anything follow the end of the response?                   *)
(***************************************************************************)
Reader(state, body, extra) == [state |-> state, body |-> body, extra |-> extra]

ReadHead(c, p) ==
  IF p.head = NoHead THEN c
  ELSE IF c.state = "head"
       THEN [c EXCEPT !.state = IF p.head.encoding = "chunked"
                                THEN "chunks" ELSE "close"]
       ELSE [c EXCEPT !.state = "bad"]

ReadBody(c, p) ==
  CASE c.state = "done" ->
         [c EXCEPT !.extra = @ \/ p.framed \/ p.msg # Empty]
    [] c.state \in {"chunks", "close"} /\ ~p.framed /\ p.msg = Empty -> c
    [] c.state = "chunks" /\ p.framed /\ p.msg = Empty ->
         [c EXCEPT !.state = "done"]
    [] \/ c.state = "chunks" /\ p.framed /\ p.msg # Empty
       \/ c.state = "close" /\ ~p.framed /\ p.msg # Empty ->
         [c EXCEPT !.body = Append(@, p.msg)]
    [] OTHER -> [c EXCEPT !.state = "bad"]

Read(c, p) == ReadBody(ReadHead(c, p), p)

Client(pieces) ==
  LET read[n \in 0 .. Len(pieces)] ==
        IF n = 0 THEN Reader("head", <<>>, FALSE)
        ELSE Read(read[n - 1], pieces[n])
  IN  read[Len(pieces)]
=============================================================================
