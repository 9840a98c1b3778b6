------------------------- MODULE HttpResponseProofs -------------------------
(***************************************************************************)
(* What the client of Http.write reads of a response, however many         *)
(* messages are written and whatever the program does to its res record:   *)
(* the inductive invariant ReadInv says what the client has made of the    *)
(* output so far, and each write adds one piece to it.                     *)
(***************************************************************************)
EXTENDS HttpResponse, HttpFramingProofs

(* The string a write passes to uv_write, for each state of the res        *)
(* record.                                                                 *)
LEMMA PieceIs ==
  ASSUME NEW r \in Res, NEW m \in Messages
  PROVE  /\ piece(r, m) \in Piece
         /\ piece(r, m).msg = m
         /\ piece(r, m).framed <=> r.encoding = "chunked"
         /\ piece(r, m).framed \in BOOLEAN
         /\ r.wroteHeaders => piece(r, m).head = NoHead
         /\ ~r.wroteHeaders =>
              /\ piece(r, m).head # NoHead
              /\ piece(r, m).head.encoding = r.encoding
         /\ wrote(r) \in Res /\ wrote(r).wroteHeaders
  <1> DEFINE b == [statusCode |-> r.statusCode, encoding |-> r.encoding]
             p == piece(r, m)
  <1>1. /\ r.statusCode \in Statuses /\ r.encoding \in Encodings
        /\ r.wroteHeaders \in BOOLEAN
    BY DEF Res
  <1>2. b \in HeaderBlock /\ b.encoding = r.encoding
    BY <1>1 DEF HeaderBlock
  <1>3. b # NoHead
    <2>1. r.encoding # "none"
      BY <1>1 DEF Encodings
    <2> QED BY <1>2, <2>1 DEF NoHead
  <1>4. p = [head |-> IF r.wroteHeaders THEN NoHead ELSE b,
             framed |-> r.encoding = "chunked", msg |-> m]
    BY Zenon DEF piece
  <1>5. wrote(r) \in Res /\ wrote(r).wroteHeaders
    BY DEF wrote, Res
  <1> HIDE DEF b, p
  <1>6. /\ p.head = IF r.wroteHeaders THEN NoHead ELSE b
        /\ p.framed = (r.encoding = "chunked") /\ p.msg = m
    BY <1>4
  <1>7. p \in Piece
    <2>1. (IF r.wroteHeaders THEN NoHead ELSE b) \in HeaderBlock \cup {NoHead}
      BY <1>2
    <2> QED BY <1>4, <2>1 DEF Piece
  <1>8. r.wroteHeaders => p.head = NoHead
    BY <1>6
  <1>9. ~r.wroteHeaders => p.head # NoHead /\ p.head.encoding = r.encoding
    BY <1>2, <1>3, <1>6
  <1>10. p.framed \in BOOLEAN /\ (p.framed <=> r.encoding = "chunked")
    BY <1>6
  <1> QED BY <1>5, <1>6, <1>7, <1>8, <1>9, <1>10 DEF p

(* Appending, in the terms the proofs use.                                 *)
LEMMA Appended ==
  ASSUME NEW S, NEW s \in Seq(S), NEW x \in S
  PROVE  /\ Append(s, x) \in Seq(S)
         /\ Len(Append(s, x)) = Len(s) + 1
         /\ DOMAIN Append(s, x) = 1 .. Len(s) + 1
         /\ DOMAIN s = 1 .. Len(s) /\ Len(s) \in Nat
         /\ Append(s, x)[Len(s) + 1] = x
         /\ \A i \in 1 .. Len(s) : Append(s, x)[i] = s[i] /\ s[i] \in S
  OBVIOUS

(* The first empty message of a sequence that has one.                     *)
LEMMA FirstOf ==
  ASSUME NEW s \in Seq(Messages), NEW k \in DOMAIN s, s[k] = Empty
  PROVE  \E f \in DOMAIN s : /\ s[f] = Empty
                             /\ \A i \in DOMAIN s : s[i] = Empty => f <= i
                             /\ UpToEmpty(s) = SubSeq(s, 1, f - 1)
  <1> DEFINE stops == {i \in DOMAIN s : s[i] = Empty}
             First(i) == i \in stops /\ \A j \in stops : i <= j
  <1>1. DOMAIN s = 1 .. Len(s) /\ Len(s) \in Nat
    OBVIOUS
  <1>2. stops \in SUBSET Nat /\ stops # {}
    BY <1>1
  <1>3. \E i : First(i)
    <2> HIDE DEF stops
    <2> QED BY <1>2, Least
  <1> DEFINE f == CHOOSE i \in stops : \A j \in stops : i <= j
  <1>4. First(f)
    BY <1>3, Zenon
  <1>5. UpToEmpty(s) = SubSeq(s, 1, f - 1)
    BY <1>2, Zenon DEF UpToEmpty
  <1> HIDE DEF f
  <1> QED BY <1>4, <1>5

(* Without one, nothing ends the response.                                 *)
LEMMA NoStop ==
  ASSUME NEW s \in Seq(Messages), \A i \in DOMAIN s : s[i] # Empty
  PROVE  UpToEmpty(s) = s
  BY DEF UpToEmpty

(* UpToEmpty is the messages before the first empty one, or all.           *)
LEMMA UpToEmptyIs ==
  ASSUME NEW s \in Seq(Messages)
  PROVE  /\ UpToEmpty(s) \in Seq(Messages)
         /\ (\E i \in DOMAIN s : s[i] = Empty) <=> Len(UpToEmpty(s)) < Len(s)
         /\ Len(UpToEmpty(s)) \in Nat /\ Len(s) \in Nat
         /\ Len(UpToEmpty(s)) <= Len(s)
  <1>1. CASE \E i \in DOMAIN s : s[i] = Empty
    <2>1. PICK f \in DOMAIN s : UpToEmpty(s) = SubSeq(s, 1, f - 1)
      BY <1>1, FirstOf
    <2> QED BY <1>1, <2>1
  <1>2. CASE \A i \in DOMAIN s : s[i] # Empty
    BY <1>2, NoStop
  <1> QED BY <1>1, <1>2

(* One more message counts if nothing has ended the response.              *)
LEMMA UpToEmptyAppend ==
  ASSUME NEW s \in Seq(Messages), NEW m \in Messages
  PROVE  UpToEmpty(Append(s, m))
           = IF m = Empty \/ Len(UpToEmpty(s)) < Len(s) THEN UpToEmpty(s)
             ELSE Append(s, m)
  <1> DEFINE t == Append(s, m)
  <1>1. t \in Seq(Messages) /\ Len(t) = Len(s) + 1
        /\ DOMAIN t = 1 .. Len(s) + 1
        /\ DOMAIN s = 1 .. Len(s) /\ Len(s) \in Nat
        /\ t[Len(s) + 1] = m /\ \A i \in 1 .. Len(s) : t[i] = s[i]
    OBVIOUS
  <1>6. \A f \in 1 .. Len(s) : SubSeq(t, 1, f - 1) = SubSeq(s, 1, f - 1)
    OBVIOUS
  <1>7. SubSeq(t, 1, Len(s)) = s
    OBVIOUS
  <1> HIDE DEF t
  <1>2. CASE \E i \in DOMAIN s : s[i] = Empty
    <2>1. PICK f \in DOMAIN s : /\ s[f] = Empty
                             /\ \A i \in DOMAIN s : s[i] = Empty => f <= i
                             /\ UpToEmpty(s) = SubSeq(s, 1, f - 1)
      BY <1>2, FirstOf
    <2>2. f \in DOMAIN t /\ t[f] = Empty
      BY <1>1, <2>1
    <2>3. PICK g \in DOMAIN t : /\ t[g] = Empty
                             /\ \A i \in DOMAIN t : t[i] = Empty => g <= i
                             /\ UpToEmpty(t) = SubSeq(t, 1, g - 1)
      BY <1>1, <2>2, FirstOf
    <2>4. f = g
      BY <1>1, <2>1, <2>2, <2>3
    <2> QED BY <1>2, <1>1, <1>6, <2>1, <2>3, <2>4, UpToEmptyIs DEF t
  <1>3. CASE (\A i \in DOMAIN s : s[i] # Empty) /\ m # Empty
    <2>1. \A i \in DOMAIN t : t[i] # Empty
      BY <1>1, <1>3
    <2>2. ~ (Len(UpToEmpty(s)) < Len(s))
      BY <1>3, UpToEmptyIs
    <2>3. UpToEmpty(t) = t
      BY <1>1, <2>1, NoStop
    <2> QED BY <1>3, <2>2, <2>3 DEF t
  <1>4. CASE (\A i \in DOMAIN s : s[i] # Empty) /\ m = Empty
    <2>1. Len(s) + 1 \in DOMAIN t /\ t[Len(s) + 1] = Empty
      BY <1>1, <1>4
    <2>2. PICK g \in DOMAIN t : /\ t[g] = Empty
                             /\ UpToEmpty(t) = SubSeq(t, 1, g - 1)
      BY <1>1, <2>1, FirstOf
    <2>3. g = Len(s) + 1
      BY <1>1, <1>4, <2>2
    <2>4. UpToEmpty(t) = SubSeq(t, 1, Len(s))
      BY <1>1, <2>2, <2>3
    <2>5. UpToEmpty(s) = s
      BY <1>4, NoStop
    <2> QED BY <1>4, <1>7, <2>4, <2>5 DEF t
  <1> QED BY <1>2, <1>3, <1>4

(* The texts among the messages: of none, of an empty one, of a text.      *)
LEMMA TextsOfNothing == TextsOf(<<>>, <<>>)
  <1> DEFINE at == [k \in DOMAIN <<>> |-> k]
  <1>1. DOMAIN <<>> = {}
    OBVIOUS
  <1>2. at \in [DOMAIN <<>> -> {i \in DOMAIN <<>> : <<>>[i] # Empty}]
    BY <1>1
  <1> QED BY <1>1, <1>2 DEF TextsOf

LEMMA TextsOfEmpty ==
  ASSUME NEW b \in Seq(Messages), NEW s \in Seq(Messages), TextsOf(b, s)
  PROVE  TextsOf(b, Append(s, Empty))
  <1> DEFINE t == Append(s, Empty)
  <1>1. DOMAIN t = 1 .. Len(s) + 1 /\ DOMAIN s = 1 .. Len(s) /\ Len(s) \in Nat
        /\ t[Len(s) + 1] = Empty /\ \A i \in 1 .. Len(s) : t[i] = s[i]
    OBVIOUS
  <1> HIDE DEF t
  <1>2. {i \in DOMAIN t : t[i] # Empty} = {i \in DOMAIN s : s[i] # Empty}
    BY <1>1
  <1>3. PICK at \in [DOMAIN b -> {i \in DOMAIN s : s[i] # Empty}] :
           /\ \A k, l \in DOMAIN b : k < l => at[k] < at[l]
           /\ \A i \in DOMAIN s : s[i] # Empty => \E k \in DOMAIN b : at[k] = i
           /\ \A k \in DOMAIN b : b[k] = s[at[k]]
    BY DEF TextsOf
  <1>4. at \in [DOMAIN b -> {i \in DOMAIN t : t[i] # Empty}]
    BY <1>2, <1>3
  <1>5. \A i \in DOMAIN t : t[i] # Empty => \E k \in DOMAIN b : at[k] = i
    BY <1>1, <1>3
  <1>6. \A k \in DOMAIN b : b[k] = t[at[k]]
    BY <1>1, <1>3
  <1> QED BY <1>3, <1>4, <1>5, <1>6 DEF TextsOf, t

LEMMA TextsOfText ==
  ASSUME NEW b \in Seq(Messages), NEW s \in Seq(Messages), TextsOf(b, s),
         NEW m \in Messages, m # Empty
  PROVE  TextsOf(Append(b, m), Append(s, m))
  <1> DEFINE t == Append(s, m)
             c == Append(b, m)
             n == Len(s)
             l == Len(b)
  <1>1. /\ DOMAIN t = 1 .. n + 1 /\ DOMAIN s = 1 .. n /\ n \in Nat
        /\ t[n + 1] = m /\ \A i \in 1 .. n : t[i] = s[i]
        /\ DOMAIN c = 1 .. l + 1 /\ DOMAIN b = 1 .. l /\ l \in Nat
        /\ c[l + 1] = m /\ \A i \in 1 .. l : c[i] = b[i]
    OBVIOUS
  <1> HIDE DEF t, c, n, l
  <1>2. PICK at \in [1 .. l -> {i \in 1 .. n : s[i] # Empty}] :
           /\ \A k, j \in 1 .. l : k < j => at[k] < at[j]
           /\ \A i \in 1 .. n : s[i] # Empty => \E k \in 1 .. l : at[k] = i
           /\ \A k \in 1 .. l : b[k] = s[at[k]]
    <2>1. PICK at \in [DOMAIN b -> {i \in DOMAIN s : s[i] # Empty}] :
           /\ \A k, j \in DOMAIN b : k < j => at[k] < at[j]
           /\ \A i \in DOMAIN s : s[i] # Empty => \E k \in DOMAIN b : at[k] = i
           /\ \A k \in DOMAIN b : b[k] = s[at[k]]
      BY Zenon DEF TextsOf
    <2>2. at \in [1 .. l -> {i \in 1 .. n : s[i] # Empty}]
      BY <1>1, <2>1
    <2>3. /\ \A k, j \in 1 .. l : k < j => at[k] < at[j]
          /\ \A i \in 1 .. n : s[i] # Empty => \E k \in 1 .. l : at[k] = i
          /\ \A k \in 1 .. l : b[k] = s[at[k]]
      BY <1>1, <2>1
    <2> QED BY <2>2, <2>3
  <1> DEFINE bt == [k \in 1 .. l + 1 |-> IF k = l + 1 THEN n + 1 ELSE at[k]]
  <1>3. bt[l + 1] = n + 1 /\ \A k \in 1 .. l : bt[k] = at[k]
        /\ at[k] \in 1 .. n /\ s[at[k]] # Empty
    BY <1>1, <1>2
  <1>4. bt \in [1 .. l + 1 -> {i \in 1 .. n + 1 : t[i] # Empty}]
    BY <1>1, <1>2
  <1> HIDE DEF bt
  <1>5. \A k, j \in 1 .. l + 1 : k < j => bt[k] < bt[j]
    <2> TAKE k, j \in 1 .. l + 1
    <2> HAVE k < j
    <2>1. k \in 1 .. l /\ at[k] \in 1 .. n /\ bt[k] = at[k]
      BY <1>1, <1>3
    <2>2. CASE j = l + 1
      BY <1>1, <1>3, <2>1, <2>2
    <2>3. CASE j \in 1 .. l
      BY <1>2, <1>3, <2>1, <2>3
    <2> QED BY <1>1, <2>2, <2>3
  <1>6. \A i \in 1 .. n + 1 : t[i] # Empty => \E k \in 1 .. l + 1 : bt[k] = i
    <2> TAKE i \in 1 .. n + 1
    <2> HAVE t[i] # Empty
    <2>2. CASE i = n + 1
      BY <1>1, <1>3, <2>2
    <2>3. CASE i \in 1 .. n
      <3>1. PICK k \in 1 .. l : at[k] = i
        BY <1>1, <1>2, <2>3
      <3> QED BY <1>1, <1>3, <3>1
    <2> QED BY <1>1, <2>2, <2>3
  <1>7. \A k \in 1 .. l + 1 : c[k] = t[bt[k]]
    <2> TAKE k \in 1 .. l + 1
    <2>2. CASE k = l + 1
      BY <1>1, <1>3, <2>2
    <2>3. CASE k \in 1 .. l
      BY <1>1, <1>2, <1>3, <2>3
    <2> QED BY <1>1, <2>2, <2>3
  <1>8. bt \in [DOMAIN c -> {i \in DOMAIN t : t[i] # Empty}]
    BY <1>1, <1>4
  <1>9. /\ \A k, j \in DOMAIN c : k < j => bt[k] < bt[j]
        /\ \A i \in DOMAIN t : t[i] # Empty => \E k \in DOMAIN c : bt[k] = i
        /\ \A k \in DOMAIN c : c[k] = t[bt[k]]
    BY <1>1, <1>5, <1>6, <1>7
  <1>10. TextsOf(c, t)
    BY <1>8, <1>9, Zenon DEF TextsOf
  <1> QED BY <1>10 DEF t, c

----------------------------------------------------------------------------
(* What a write does to the pieces and to the client, as Http.write and    *)
(* endConnection do it.                                                    *)
LEMMA WriteType ==
  ASSUME TypeOK, NEW m \in Messages,
         out' = Append(out, piece(res, m)), res' = wrote(res),
         said' = Append(said, m), ended' \in BOOLEAN
  PROVE  TypeOK'
  <1>1. piece(res, m) \in Piece /\ wrote(res) \in Res
    BY PieceIs DEF TypeOK
  <1> QED BY <1>1 DEF TypeOK

(* The first piece has the header block and the encoding it announces; the *)
(* others have neither while the encoding stays.                           *)
LEMMA WritePieces ==
  ASSUME TypeOK, PiecesInv, NEW m \in Messages,
         out' = Append(out, piece(res, m)), res' = wrote(res),
         said' = Append(said, m), ended' => ended \/ m = Empty
  PROVE  PiecesInv'
  <1> DEFINE p == piece(res, m)
             n == Len(out)
  <1>1. /\ DOMAIN out' = 1 .. n + 1 /\ DOMAIN out = 1 .. n /\ n \in Nat
        /\ out'[n + 1] = p /\ \A i \in 1 .. n : out'[i] = out[i]
        /\ DOMAIN said' = 1 .. n + 1 /\ DOMAIN said = 1 .. n
        /\ said'[n + 1] = m /\ \A i \in 1 .. n : said'[i] = said[i]
        /\ out = <<>> <=> n = 0
        /\ out' # <<>>
    <2>1. p \in Piece
      BY PieceIs DEF TypeOK
    <2> HIDE DEF p
    <2> QED BY <2>1 DEF TypeOK, p
  <1>2. /\ p.msg = m /\ res'.wroteHeaders
        /\ p.framed <=> res.encoding = "chunked"
        /\ res.wroteHeaders => p.head = NoHead
        /\ ~res.wroteHeaders =>
              p.head # NoHead /\ p.head.encoding = res.encoding
    BY PieceIs DEF TypeOK
  <1> HIDE DEF p, n
  <1>3. res.wroteHeaders <=> n # 0
    BY <1>1 DEF PiecesInv
  <1>4. ASSUME NEW i \in DOMAIN out'
        PROVE  /\ out'[i].msg = said'[i]
               /\ out'[i].head = NoHead <=> i # 1
               /\ i = 1 =>
                    (out'[i].framed <=> out'[i].head.encoding = "chunked")
    <2>1. CASE i = n + 1
      BY <1>1, <1>2, <1>3, <2>1
    <2>2. CASE i \in 1 .. n
      BY <1>1, <2>2 DEF PiecesInv
    <2> QED BY <1>1, <2>1, <2>2
  <1>5. ended' => \E i \in DOMAIN said' : said'[i] = Empty
    <2>1. CASE m = Empty
      BY <1>1, <2>1
    <2>2. CASE ended
      <3>1. PICK i \in DOMAIN said : said[i] = Empty
        BY <2>2 DEF PiecesInv
      <3> QED BY <1>1, <3>1
    <2> QED BY <2>1, <2>2
  <1> QED BY <1>1, <1>2, <1>4, <1>5 DEF PiecesInv

(* In the default encoding, the client reads one more chunk.               *)
LEMMA WriteChunks ==
  ASSUME TypeOK, PiecesInv, ReadInv, NEW m \in Messages,
         out' = Append(out, piece(res, m)), said' = Append(said, m),
         Steady', out'[1].framed
  PROVE  Client(out') =
           Reader(IF Len(UpToEmpty(said')) < Len(said') THEN "done"
                  ELSE "chunks",
                  UpToEmpty(said'), Len(said') > Len(UpToEmpty(said')) + 1)
  <1> DEFINE p == piece(res, m)
             n == Len(out)
             u == UpToEmpty(said)
             v == UpToEmpty(said')
             all == Append(said, m)
             x == n > Len(u) + 1
  <1>1. p \in Piece /\ p.msg = m /\ p.framed \in BOOLEAN
        /\ (res.wroteHeaders => p.head = NoHead)
        /\ (~res.wroteHeaders =>
              p.head # NoHead /\ p.head.encoding = res.encoding)
        /\ (p.framed <=> res.encoding = "chunked")
    BY PieceIs DEF TypeOK
  <1> HIDE DEF p
  <1>2. /\ DOMAIN out' = 1 .. n + 1 /\ DOMAIN out = 1 .. n /\ n \in Nat
        /\ out'[n + 1] = p /\ \A i \in 1 .. n : out'[i] = out[i]
        /\ Len(said) = n /\ Len(said') = n + 1 /\ Len(all) = n + 1
        /\ out = <<>> <=> n = 0
    BY <1>1 DEF TypeOK, p
  <1>3. Client(out') = Read(Client(out), p)
    BY <1>1, ClientOfAppend DEF TypeOK, p
  <1>4. p.framed /\ (n # 0 => Steady /\ out[1].framed)
    BY <1>2 DEF Steady
  <1>5. v = IF m = Empty \/ Len(u) < n THEN u ELSE all
    BY <1>2, UpToEmptyAppend DEF TypeOK
  <1>6. u \in Seq(Messages) /\ Len(u) \in Nat /\ Len(u) <= n
    BY <1>2, UpToEmptyIs DEF TypeOK
  <1>7. ~ (Len(u) < n) => u = said
    <2>1. ~ (Len(u) < n) => \A i \in DOMAIN said : said[i] # Empty
      BY <1>2, UpToEmptyIs DEF TypeOK
    <2> QED BY <2>1, NoStop DEF TypeOK
  <1>8. said = <<>> <=> n = 0
    BY <1>2 DEF TypeOK
  <1>14. x \in BOOLEAN
    BY <1>2, <1>6
  <1> HIDE DEF n, u, v, all, x
  <1>9. Client(out') =
          ReadBody(Reader(IF Len(u) < n THEN "done" ELSE "chunks", u, x), p)
    <2>1. CASE n = 0
      <3>1. Client(out) = Reader("head", <<>>, FALSE)
        BY <1>2, <2>1, ClientOfNothing
      <3>2. p.head # NoHead /\ p.head.encoding = "chunked"
        BY <1>1, <1>2, <1>4, <2>1 DEF PiecesInv
      <3>3. Client(out') = ReadBody(Reader("chunks", <<>>, FALSE), p)
        BY <1>3, <3>1, <3>2, HeadRead
      <3>4. u = <<>> /\ ~ (Len(u) < n) /\ x = FALSE
        BY <1>6, <1>7, <1>8, <2>1 DEF x
      <3> QED BY <3>3, <3>4
    <2>2. CASE n # 0
      <3>1. p.head = NoHead
        BY <1>1, <1>2, <2>2 DEF PiecesInv
      <3>2. Client(out) = Reader(IF Len(u) < n THEN "done" ELSE "chunks", u, x)
        BY <1>2, <1>4, <2>2 DEF ReadInv, u, x
      <3> QED BY <1>3, <3>1, <3>2, NoHeadRead
    <2> QED BY <2>1, <2>2
  <1>10. Len(said') = n + 1
    BY <1>2
  <1>11. CASE Len(u) < n
    <2>1. v = u
      BY <1>5, <1>11
    <2>5. Client(out') = ReadBody(Reader("done", u, x), p)
      BY <1>9, <1>11
    <2>6. p.framed \in BOOLEAN /\ p.framed /\ p.msg = m
      BY <1>1, <1>4, <1>11
    <2>2. Client(out') = Reader("done", u, TRUE)
      <3>1. p.framed = TRUE
        BY <2>6
      <3>2. ReadBody(Reader("done", u, x), p) = Reader("done", u, TRUE)
        BY <3>1, DoneRead, Zenon
      <3> QED BY <2>5, <3>2
    <2>3. Len(u) < n + 1 /\ (n + 1 > Len(u) + 1) = TRUE
      BY <1>2, <1>6, <1>11
    <2> QED BY <1>10, <2>1, <2>2, <2>3 DEF v
  <1>12. CASE ~ (Len(u) < n) /\ m = Empty
    <2>1. v = u
      BY <1>5, <1>12
    <2>5. Client(out') = ReadBody(Reader("chunks", u, x), p)
      BY <1>9, <1>12
    <2>6. p.framed \in BOOLEAN /\ p.framed /\ p.msg = m /\ m = Empty
      BY <1>1, <1>4, <1>12
    <2>2. Client(out') = Reader("done", u, x)
      <3>1. p.framed = TRUE
        BY <2>6
      <3>2. ReadBody(Reader("chunks", u, x), p) = Reader("done", u, x)
        BY <2>6, <3>1, ChunkRead
      <3> QED BY <2>5, <3>2
    <2>3. Len(u) < n + 1 /\ (n + 1 > Len(u) + 1) = x
      BY <1>2, <1>6, <1>12 DEF x
    <2> QED BY <1>10, <2>1, <2>2, <2>3 DEF v
  <1>13. CASE ~ (Len(u) < n) /\ m # Empty
    <2>1. v = Append(u, m)
      BY <1>5, <1>7, <1>13 DEF all
    <2>5. Client(out') = ReadBody(Reader("chunks", u, x), p)
      BY <1>9, <1>13
    <2>6. p.framed \in BOOLEAN /\ p.framed /\ p.msg = m /\ m # Empty
      BY <1>1, <1>4, <1>13
    <2>2. Client(out') = Reader("chunks", v, x)
      <3>1. p.framed = TRUE
        BY <2>6
      <3>2. ReadBody(Reader("chunks", u, x), p)
              = Reader("chunks", Append(u, p.msg), x)
        BY <2>6, <3>1, ChunkRead
      <3> QED BY <2>5, <2>6, <2>1, <3>2
    <2>3. Len(v) = Len(u) + 1
      BY <1>6, <2>1
    <2>4. ~ (Len(v) < n + 1) /\ (n + 1 > Len(v) + 1) = x
      BY <1>2, <1>6, <1>13, <2>3 DEF x
    <2> QED BY <1>10, <2>2, <2>4 DEF v
  <1> QED BY <1>11, <1>12, <1>13

(* In another encoding, the client reads the texts until the connection    *)
(* closes.                                                                 *)
LEMMA WritePlain ==
  ASSUME TypeOK, PiecesInv, ReadInv, NEW m \in Messages,
         out' = Append(out, piece(res, m)), said' = Append(said, m),
         Steady', ~ out'[1].framed
  PROVE  LET b == Client(out').body IN
         /\ Client(out') = Reader("close", b, FALSE)
         /\ b \in Seq(Messages) /\ TextsOf(b, said')
  <1> DEFINE p == piece(res, m)
             n == Len(out)
             all == Append(said, m)
  <1>1. p \in Piece /\ p.msg = m
        /\ (res.wroteHeaders => p.head = NoHead)
        /\ (~res.wroteHeaders =>
              p.head # NoHead /\ p.head.encoding = res.encoding)
        /\ (p.framed <=> res.encoding = "chunked")
    BY PieceIs DEF TypeOK
  <1>13. p.framed \in BOOLEAN
    BY PieceIs DEF TypeOK
  <1> HIDE DEF p
  <1>2. /\ DOMAIN out' = 1 .. n + 1 /\ DOMAIN out = 1 .. n /\ n \in Nat
        /\ out'[n + 1] = p /\ \A i \in 1 .. n : out'[i] = out[i]
        /\ Len(said) = n
        /\ out = <<>> <=> n = 0
    BY <1>1 DEF TypeOK, p
  <1>3. Client(out') = Read(Client(out), p)
    BY <1>1, ClientOfAppend DEF TypeOK, p
  <1>4. ~p.framed /\ (n # 0 => Steady /\ ~out[1].framed)
    BY <1>2 DEF Steady
  <1>5. p.framed = FALSE
    BY <1>4, <1>13
  <1>8. said = <<>> <=> n = 0
    BY <1>2 DEF TypeOK
  <1> HIDE DEF n, all
  <1>9. \E b \in Seq(Messages) :
          TextsOf(b, said)
            /\ Client(out') = ReadBody(Reader("close", b, FALSE), p)
    <2>1. CASE n = 0
      <3>1. Client(out) = Reader("head", <<>>, FALSE)
        BY <1>2, <2>1, ClientOfNothing
      <3>2. p.head # NoHead /\ p.head.encoding # "chunked"
        BY <1>1, <1>2, <1>4, <2>1 DEF PiecesInv
      <3>3. Client(out') = ReadBody(Reader("close", <<>>, FALSE), p)
        BY <1>3, <3>1, <3>2, HeadRead
      <3>4. TextsOf(<<>>, said) /\ <<>> \in Seq(Messages)
        BY <1>8, <2>1, TextsOfNothing
      <3> QED BY <3>3, <3>4
    <2>2. CASE n # 0
      <3>1. p.head = NoHead
        BY <1>1, <1>2, <2>2 DEF PiecesInv
      <3>2. LET b == Client(out).body IN
            /\ Client(out) = Reader("close", b, FALSE)
            /\ b \in Seq(Messages) /\ TextsOf(b, said)
        BY <1>2, <1>4, <2>2 DEF ReadInv
      <3>3. Client(out') = ReadBody(Client(out), p)
        BY <1>3, <3>1, NoHeadRead
      <3> QED BY <3>2, <3>3
    <2> QED BY <2>1, <2>2
  <1>10. PICK b \in Seq(Messages) :
          TextsOf(b, said)
            /\ Client(out') = ReadBody(Reader("close", b, FALSE), p)
    BY <1>9
  <1>11. \E c \in Seq(Messages) :
           TextsOf(c, said') /\ Client(out') = Reader("close", c, FALSE)
    <2>1. CASE m = Empty
      <3>1. Client(out') = Reader("close", b, FALSE)
        BY <1>1, <1>5, <1>10, <2>1, PlainRead
      <3>2. TextsOf(b, said')
        BY <1>10, <2>1, TextsOfEmpty DEF TypeOK
      <3> QED BY <3>1, <3>2
    <2>2. CASE m # Empty
      <3>1. Client(out') = Reader("close", Append(b, m), FALSE)
        BY <1>1, <1>5, <1>10, <2>2, PlainRead
      <3>2. TextsOf(Append(b, m), said')
        BY <1>10, <2>2, TextsOfText DEF TypeOK
      <3>3. Append(b, m) \in Seq(Messages)
        BY <1>10
      <3> QED BY <3>1, <3>2, <3>3
    <2> QED BY <2>1, <2>2
  <1>12. PICK c \in Seq(Messages) :
           TextsOf(c, said') /\ Client(out') = Reader("close", c, FALSE)
    BY <1>11
  <1>14. Client(out').body = c
    BY <1>12 DEF Reader
  <1> QED BY <1>12, <1>14

(* Every part of the invariant, for one write.                             *)
LEMMA WriteInv ==
  ASSUME IInv, NEW m \in Messages,
         out' = Append(out, piece(res, m)), res' = wrote(res),
         said' = Append(said, m), ended' \in BOOLEAN,
         ended' => ended \/ m = Empty
  PROVE  IInv'
  <1>1. TypeOK'
    BY WriteType DEF IInv
  <1>2. PiecesInv'
    BY WritePieces DEF IInv
  <1>3. ReadInv'
    BY WriteChunks, WritePlain DEF IInv, ReadInv
  <1> QED BY <1>1, <1>2, <1>3 DEF IInv

LEMMA InitInv == Init => IInv
  <1> SUFFICES ASSUME Init PROVE IInv
    OBVIOUS
  <1>1. TypeOK
    <2>1. NewRes \in Res
      BY DEF NewRes, Res, Statuses, Encodings
    <2>2. <<>> \in Seq(Piece) /\ <<>> \in Seq(Messages)
      OBVIOUS
    <2> QED BY <2>1, <2>2 DEF Init, TypeOK
  <1>2. PiecesInv
    BY DEF Init, PiecesInv, NewRes
  <1>3. ReadInv
    BY DEF Init, ReadInv
  <1> QED BY <1>1, <1>2, <1>3 DEF IInv

LEMMA StepInv == IInv /\ [Next]_vars => IInv'
  <1> SUFFICES ASSUME IInv, [Next]_vars PROVE IInv'
    OBVIOUS
  <1>1. ASSUME NEW m \in Messages, write(m) PROVE IInv'
    BY <1>1, WriteInv DEF write, IInv, TypeOK
  <1>2. CASE endConnection
    <2>1. Empty \in Messages
      BY DEF Messages
    <2> QED BY <1>2, <2>1, WriteInv DEF endConnection
  <1>3. ASSUME UNCHANGED <<out, ended, said>>, res' \in Res,
               res'.wroteHeaders = res.wroteHeaders
        PROVE  IInv'
    <2>1. TypeOK'
      BY <1>3 DEF IInv, TypeOK
    <2>2. PiecesInv'
      BY <1>3 DEF IInv, PiecesInv
    <2>3. ReadInv'
      BY <1>3 DEF IInv, ReadInv, Steady
    <2> QED BY <2>1, <2>2, <2>3 DEF IInv
  <1>4. ASSUME NEW e \in Encodings, setHeader(e) PROVE IInv'
    BY <1>3, <1>4 DEF setHeader, IInv, TypeOK, Res
  <1>5. ASSUME NEW s \in Statuses, setStatusCode(s) PROVE IInv'
    BY <1>3, <1>5 DEF setStatusCode, IInv, TypeOK, Res
  <1>6. CASE UNCHANGED vars
    BY <1>3, <1>6 DEF vars, IInv, TypeOK
  <1> QED BY <1>1, <1>2, <1>4, <1>5, <1>6 DEF Next

(* The invariant: what was passed to uv_write is well formed, and the      *)
(* client has read from it what the program said (Http.re:97-126).         *)
LEMMA IInvAlways == Spec => []IInv
  BY InitInv, StepInv, PTL DEF Spec

(* The res record and the output are well formed.                          *)
THEOREM TypeCorrect == Spec => []TypeOK
  <1>1. IInv => TypeOK
    BY DEF IInv
  <1> QED BY <1>1, IInvAlways, PTL

(* In the default encoding, while the program keeps the encoding it began  *)
(* with, the client reads the messages up to the first empty one, and what *)
(* is said after that is not part of the response; endConnection           *)
(* (Http.re:138) ends it.                                                  *)
THEOREM ChunksRead == Spec => []ClientReadsChunks
  <1>1. IInv => ClientReadsChunks
    <2> SUFFICES ASSUME IInv, out # <<>>, Steady,
                        out[1].head.encoding = "chunked"
                 PROVE  LET c == Client(out)
                            n == Len(UpToEmpty(said))
                        IN  /\ c.body = UpToEmpty(said)
                            /\ c.state = IF n < Len(said) THEN "done"
                                         ELSE "chunks"
                            /\ c.extra <=> Len(said) > n + 1
                            /\ ended => c.state = "done"
      BY DEF ClientReadsChunks
    <2> DEFINE n == Len(UpToEmpty(said))
    <2>1. 1 \in DOMAIN out
      BY DEF IInv, TypeOK
    <2>2. out[1].framed
      BY <2>1 DEF IInv, PiecesInv
    <2>3. Client(out) = Reader(IF n < Len(said) THEN "done" ELSE "chunks",
                               UpToEmpty(said), Len(said) > n + 1)
      BY <2>2 DEF IInv, ReadInv
    <2>4. ended => n < Len(said)
      BY UpToEmptyIs DEF IInv, TypeOK, PiecesInv
    <2> HIDE DEF n
    <2>5. /\ Client(out).body = UpToEmpty(said)
          /\ Client(out).state = IF n < Len(said) THEN "done" ELSE "chunks"
      BY <2>3 DEF Reader
    <2>6. Client(out).extra = (Len(said) > n + 1)
      <3> DEFINE x == Len(said) > n + 1
                 st == IF n < Len(said) THEN "done" ELSE "chunks"
      <3>1. Client(out) = Reader(st, UpToEmpty(said), x)
        BY <2>3
      <3> HIDE DEF x, st
      <3>3. Client(out).extra = Reader(st, UpToEmpty(said), x).extra
        BY <3>1
      <3>4. Reader(st, UpToEmpty(said), x).extra = x
        BY ReaderFields
      <3>2. Client(out).extra = x
        BY <3>3, <3>4
      <3> QED BY <3>2 DEF x
    <2>7. ended => Client(out).state = "done"
      BY <2>4, <2>5
    <2> QED BY <2>5, <2>6, <2>7, Zenon DEF n
  <1> QED BY <1>1, IInvAlways, PTL

(* In another encoding, the client reads every text said, in order, and no *)
(* end of the response until the connection closes.                        *)
THEOREM PlainTextsRead == Spec => []ClientReadsPlain
  <1>1. IInv => ClientReadsPlain
    <2> SUFFICES ASSUME IInv, out # <<>>, Steady,
                        out[1].head.encoding # "chunked"
                 PROVE  LET c == Client(out) IN
                        TextsOf(c.body, said) /\ c.state = "close"
      BY DEF ClientReadsPlain
    <2>1. 1 \in DOMAIN out
      BY DEF IInv, TypeOK
    <2>2. ~out[1].framed
      BY <2>1 DEF IInv, PiecesInv
    <2>3. LET b == Client(out).body IN
          /\ Client(out) = Reader("close", b, FALSE)
          /\ TextsOf(b, said)
      BY <2>2 DEF IInv, ReadInv
    <2> QED BY <2>3 DEF Reader
  <1> QED BY <1>1, IInvAlways, PTL

=============================================================================
