---------------------------- MODULE HttpResponse ----------------------------
(***************************************************************************)
(* The response half of Http.re: any program that calls Http.write,        *)
(* Http.setHeader and Http.endConnection on the res record of a connection *)
(* and sets its status code, and the client that reads the result.         *)
(***************************************************************************)
EXTENDS Naturals, HttpFraming

CONSTANT MaxWrites   \* bound: calls of write and endConnection

ASSUME MaxWritesAssumption == MaxWrites \in Nat

VARIABLES
  res,     \* the resT of the connection
  out,     \* the pieces given to uv_write, in order
  ended,   \* uv_shutdown was called
  said     \* history: the messages given to Http.write, Empty for the end

vars == <<res, out, ended, said>>

----------------------------------------------------------------------------
Init == res = NewRes /\ out = <<>> /\ ended = FALSE /\ said = <<>>

write(m) ==
  /\ Len(out) < MaxWrites
  /\ out' = Append(out, piece(res, m))
  /\ res' = wrote(res)
  /\ said' = Append(said, m)
  /\ UNCHANGED ended

setHeader(e) ==
  /\ res' = [res EXCEPT !.encoding = e]
  /\ UNCHANGED <<out, ended, said>>

setStatusCode(s) ==
  /\ res' = [res EXCEPT !.statusCode = s]
  /\ UNCHANGED <<out, ended, said>>

(* Nothing keeps the program from writing or ending again afterwards.      *)
endConnection ==
  /\ Len(out) < MaxWrites
  /\ out' = Append(out, piece(res, Empty))
  /\ res' = wrote(res)
  /\ said' = Append(said, Empty)
  /\ ended' = TRUE

Next ==
  \/ \E m \in Messages : write(m)
  \/ \E e \in Encodings : setHeader(e)
  \/ \E s \in Statuses : setStatusCode(s)
  \/ endConnection

Spec == Init /\ [][Next]_vars

----------------------------------------------------------------------------
(* Properties. *)

(* The response is well formed data. *)
TypeOK ==
  /\ res \in Res
  /\ out \in Seq(Piece)
  /\ ended \in BOOLEAN
  /\ said \in Seq(Messages) /\ Len(said) = Len(out)

(* The transfer encoding was the same whenever something was written.      *)
Steady == \A i \in DOMAIN out : out[i].framed <=> out[1].framed

UpToEmpty(s) ==
  LET stops == {i \in DOMAIN s : s[i] = Empty}
  IN  IF stops = {} THEN s
      ELSE SubSeq(s, 1, (CHOOSE i \in stops : \A k \in stops : i <= k) - 1)

(* In the default encoding the client reads the texts written before the   *)
(* first empty one, and takes the response as complete exactly then,       *)
(* whether that was endConnection or a program that wrote "".  All that is *)
(* written later is outside of any response.                               *)
ClientReadsChunks ==
  (out # <<>> /\ Steady /\ out[1].head.encoding = "chunked") =>
    LET c == Client(out)
        n == Len(UpToEmpty(said))
    IN  /\ c.body = UpToEmpty(said)
        /\ c.state = IF n < Len(said) THEN "done" ELSE "chunks"
        /\ c.extra <=> Len(said) > n + 1
        /\ ended => c.state = "done"

(* b is the non-empty texts of s, each of them once and in their order.     *)
TextsOf(b, s) ==
  \E at \in [DOMAIN b -> {i \in DOMAIN s : s[i] # Empty}] :
    /\ \A k, l \in DOMAIN b : k < l => at[k] < at[l]
    /\ \A i \in DOMAIN s : s[i] # Empty => \E k \in DOMAIN b : at[k] = i
    /\ \A k \in DOMAIN b : b[k] = s[at[k]]

(* In another encoding it reads every text, and only the close of the      *)
(* connection tells it that there are no more.                             *)
ClientReadsPlain ==
  (out # <<>> /\ Steady /\ out[1].head.encoding # "chunked") =>
    LET c == Client(out) IN TextsOf(c.body, said) /\ c.state = "close"

----------------------------------------------------------------------------
(***************************************************************************)
(* The inductive invariant of HttpResponseProofs.  A piece carries the     *)
(* message said, the first one and no other carries a header block, and    *)
(* once the encoding is steady what the client has read is determined.     *)
(***************************************************************************)
PiecesInv ==
  /\ res.wroteHeaders <=> out # <<>>
  /\ \A i \in DOMAIN out :
       /\ out[i].msg = said[i]
       /\ out[i].head = NoHead <=> i # 1
       /\ i = 1 => (out[i].framed <=> out[i].head.encoding = "chunked")
  /\ ended => \E i \in DOMAIN said : said[i] = Empty

ReadInv ==
  (out # <<>> /\ Steady) =>
    IF out[1].framed
    THEN LET n == Len(UpToEmpty(said)) IN
         Client(out) = Reader(IF n < Len(said) THEN "done" ELSE "chunks",
                              UpToEmpty(said), Len(said) > n + 1)
    ELSE LET b == Client(out).body IN
         /\ Client(out) = Reader("close", b, FALSE)
         /\ b \in Seq(Messages) /\ TextsOf(b, said)

IInv == TypeOK /\ PiecesInv /\ ReadInv
=============================================================================
