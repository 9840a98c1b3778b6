------------------------- MODULE HttpFramingProofs --------------------------
(***************************************************************************)
(* What the client of HttpFraming reads, for output of any length: a       *)
(* client that has read some pieces and gets one more is the client of all *)
(* of them. The recursion of Client is on the number of pieces, so this    *)
(* takes an induction: one on a set of numbers, from the fact that every   *)
(* set of numbers has a least element.                                     *)
(***************************************************************************)
EXTENDS HttpFraming, WellFoundedInduction, NaturalsInduction, TLAPS

(* A nonempty set of numbers has a least element.                          *)
LEMMA Least ==
  ASSUME NEW T \in SUBSET Nat, T # {}
  PROVE \E x \in T : \A y \in T : x <= y
  <1> DEFINE R == OpToRel(<, Nat)
  <1>1. IsWellFoundedOn(R, Nat)
    BY NatLessThanWellFounded
  <1>2. \A x, y \in Nat : y < x => <<y, x>> \in R
    BY SMT DEF OpToRel
  <1> HIDE DEF R
  <1>3. PICK x \in T : \A y \in T : ~ (<<y, x>> \in R)
    BY <1>1, WFMin
  <1>4. \A y \in T : x \in Nat /\ y \in Nat /\ ~ (y < x)
    BY <1>2, <1>3
  <1> QED BY <1>4

(* A set that holds 0 and the successor of each of its members is Nat.     *)
LEMMA SetInduction ==
  ASSUME NEW S \in SUBSET Nat, 0 \in S, \A n \in S : n + 1 \in S
  PROVE  S = Nat
  <1> SUFFICES ASSUME Nat \ S # {} PROVE FALSE
    OBVIOUS
  <1>1. PICK x \in Nat \ S : \A y \in Nat \ S : x <= y
    BY Least
  <1>2. x # 0 /\ x - 1 \in Nat
    BY <1>1
  <1>3. x - 1 \in S
    BY <1>1, <1>2
  <1> QED BY <1>1, <1>3

Reads(f, s, n) ==
  f = [k \in 0 .. n |-> IF k = 0 THEN Reader("head", <<>>, FALSE)
                        ELSE Read(f[k - 1], s[k])]

(* The reader starts before its header block and reads piece after piece. *)
Steps(f, s, n) ==
  /\ f[0] = Reader("head", <<>>, FALSE)
  /\ \A k \in 0 .. n : k + 1 \in 0 .. n => f[k + 1] = Read(f[k], s[k + 1])

(* A function that reads the first n pieces is determined from piece to    *)
(* piece.                                                                  *)
LEMMA ReadsAt ==
  ASSUME NEW f, NEW s, NEW n \in Nat, Reads(f, s, n)
  PROVE  Steps(f, s, n)
  <1> DEFINE F(k) == IF k = 0 THEN Reader("head", <<>>, FALSE)
                     ELSE Read(f[k - 1], s[k])
  <1>1. f = [k \in 0 .. n |-> F(k)]
    BY Zenon DEF Reads
  <1>2. \A k \in 0 .. n : f[k] = F(k)
    <2> HIDE DEF F
    <2> QED BY <1>1
  <1>3. 0 \in 0 .. n
    OBVIOUS
  <1>4. F(0) = Reader("head", <<>>, FALSE)
    OBVIOUS
  <1>5. ASSUME NEW k \in 0 .. n, k + 1 \in 0 .. n
        PROVE  f[k + 1] = Read(f[k], s[k + 1])
    <2>1. k + 1 # 0 /\ (k + 1) - 1 = k
      OBVIOUS
    <2>2. F(k + 1) = Read(f[(k + 1) - 1], s[k + 1])
      BY <2>1
    <2> HIDE DEF F
    <2> QED BY <1>2, <1>5, <2>1, <2>2
  <1> HIDE DEF F
  <1> QED BY <1>2, <1>3, <1>4, <1>5 DEF Steps

(* There is one for every number of pieces.                                *)
LEMMA ReadsExist ==
  ASSUME NEW s, NEW n \in Nat
  PROVE  \E f : Reads(f, s, n)
  <1> DEFINE S == {k \in Nat : \E f : Reads(f, s, k)}
  <1>1. 0 \in S
    <2> DEFINE f == [k \in 0 .. 0 |-> Reader("head", <<>>, FALSE)]
    <2>1. \A k \in 0 .. 0 : k = 0
      OBVIOUS
    <2>2. Reads(f, s, 0)
      BY <2>1 DEF Reads
    <2> QED BY <2>2
  <1>2. ASSUME NEW k \in S PROVE k + 1 \in S
    <2>1. PICK f : Reads(f, s, k)
      OBVIOUS
    <2> DEFINE g == [i \in 0 .. k + 1 |->
                       IF i = k + 1 THEN Read(f[k], s[i]) ELSE f[i]]
    <2>2. f[0] = Reader("head", <<>>, FALSE)
          /\ \A i \in 0 .. k : i + 1 \in 0 .. k =>
               f[i + 1] = Read(f[i], s[i + 1])
      <3>1. k \in Nat
        OBVIOUS
      <3>2. Steps(f, s, k)
        BY <2>1, <3>1, ReadsAt, Zenon
      <3> QED BY <3>2, Zenon DEF Steps
    <2>3. \A i \in 0 .. k : f[i] = g[i]
      OBVIOUS
    <2>6. g[k + 1] = Read(f[k], s[k + 1])
      OBVIOUS
    <2>7. g = [i \in 0 .. k + 1 |-> g[i]]
      OBVIOUS
    <2>8. 0 \in 0 .. k /\ k \in 0 .. k /\ (k + 1) - 1 = k /\ k + 1 # 0
      OBVIOUS
    <2> HIDE DEF g
    <2>4. ASSUME NEW i \in 0 .. k + 1
          PROVE  g[i] = IF i = 0 THEN Reader("head", <<>>, FALSE)
                        ELSE Read(g[i - 1], s[i])
      <3>1. CASE i = 0
        BY <3>1, <2>2, <2>3, <2>8
      <3>2. CASE i = k + 1
        BY <3>2, <2>3, <2>6, <2>8
      <3>3. CASE i # 0 /\ i # k + 1
        <4>1. i - 1 \in 0 .. k /\ (i - 1) + 1 = i /\ i \in 0 .. k
          BY <3>3
        <4>2. f[i] = Read(f[i - 1], s[i])
          BY <4>1, <2>2
        <4> QED BY <4>1, <4>2, <2>3, <3>3
      <3> QED BY <3>1, <3>2, <3>3
    <2>5. Reads(g, s, k + 1)
      BY <2>4, <2>7, Zenon DEF Reads
    <2> QED BY <2>5
  <1>3. S = Nat
    <2> HIDE DEF S
    <2>1. S \in SUBSET Nat BY DEF S
    <2> QED BY <1>1, <1>2, <2>1, SetInduction
  <1> QED BY <1>3

(* Functions that read the same pieces agree on them.                      *)
LEMMA ReadsAgree ==
  ASSUME NEW s, NEW t, NEW n \in Nat, NEW m \in Nat, n <= m,
         \A k \in 1 .. n : s[k] = t[k],
         NEW f, NEW g, Reads(f, s, n), Reads(g, t, m)
  PROVE  f[n] = g[n]
  <1> DEFINE S == {k \in Nat : k <= n => f[k] = g[k]}
  <1>1. 0 \in S
    BY DEF Reads
  <1>2. ASSUME NEW k \in S PROVE k + 1 \in S
    <2> SUFFICES ASSUME k + 1 <= n PROVE f[k + 1] = g[k + 1]
      OBVIOUS
    <2>1. f[k] = g[k] /\ s[k + 1] = t[k + 1]
      OBVIOUS
    <2>2. f[k + 1] = Read(f[k], s[k + 1])
      <3>1. k \in 0 .. n /\ k + 1 \in 0 .. n
        OBVIOUS
      <3>2. Steps(f, s, n)
        BY ReadsAt, Zenon
      <3> QED BY <3>1, <3>2, Zenon DEF Steps
    <2>3. k \in 0 .. m /\ k + 1 \in 0 .. m
      OBVIOUS
    <2>4. g[k + 1] = Read(g[k], t[k + 1])
      <3>1. Steps(g, t, m)
        BY ReadsAt, Zenon
      <3> QED BY <2>3, <3>1, Zenon DEF Steps
    <2> QED BY <2>1, <2>2, <2>4
  <1>3. S = Nat
    <2> HIDE DEF S
    <2>1. S \in SUBSET Nat BY DEF S
    <2> QED BY <1>1, <1>2, <2>1, SetInduction
  <1> QED BY <1>3

(* Client is the last value of the function that reads all pieces.         *)
LEMMA ClientIs ==
  ASSUME NEW s, Len(s) \in Nat
  PROVE  \E f : Reads(f, s, Len(s)) /\ Client(s) = f[Len(s)]
  <1>1. Client(s) =
         (CHOOSE f : Reads(f, s, Len(s)))[Len(s)]
    BY DEF Client, Reads
  <1> QED BY <1>1, ReadsExist

(* Before it reads, the client waits for a header block.                   *)
LEMMA ClientOfNothing == Client(<<>>) = Reader("head", <<>>, FALSE)
  <1>1. PICK f : Reads(f, <<>>, 0) /\ Client(<<>>) = f[0]
    BY ClientIs, Len(<<>>) = 0
  <1> QED BY <1>1 DEF Reads

(* One more piece is one more read.                                        *)
LEMMA ClientOfAppend ==
  ASSUME NEW S, NEW s \in Seq(S), NEW p \in S
  PROVE  Client(Append(s, p)) = Read(Client(s), p)
  <1> DEFINE t == Append(s, p)
             n == Len(s)
  <1>1. n \in Nat /\ Len(t) = n + 1 /\ t[n + 1] = p
        /\ \A k \in 1 .. n : s[k] = t[k]
    OBVIOUS
  <1> HIDE DEF t, n
  <1>2. PICK f : Reads(f, s, n) /\ Client(s) = f[n]
    BY <1>1, ClientIs DEF n
  <1>3. PICK g : Reads(g, t, n + 1) /\ Client(t) = g[n + 1]
    BY <1>1, ClientIs
  <1>4. f[n] = g[n]
    BY <1>1, <1>2, <1>3, ReadsAgree, n + 1 \in Nat, n <= n + 1
  <1>5. g[n + 1] = Read(g[n], p)
    <2>1. n \in 0 .. n + 1 /\ n + 1 \in 0 .. n + 1 /\ n + 1 \in Nat
      BY <1>1
    <2>2. Steps(g, t, n + 1)
      BY <1>3, <2>1, ReadsAt, Zenon
    <2> QED BY <1>1, <2>1, <2>2, Zenon DEF Steps
  <1> QED BY <1>2, <1>3, <1>4, <1>5 DEF t

----------------------------------------------------------------------------
(* What the client makes of one piece, case by case. *)
LEMMA ReaderFields ==
  ASSUME NEW a, NEW b, NEW x
  PROVE  /\ Reader(a, b, x).state = a /\ Reader(a, b, x).body = b
         /\ Reader(a, b, x).extra = x
  BY DEF Reader

LEMMA HeadRead ==
  ASSUME NEW b, NEW x, NEW p, p.head # NoHead
  PROVE  Read(Reader("head", b, x), p)
           = ReadBody(Reader(IF p.head.encoding = "chunked" THEN "chunks"
                             ELSE "close", b, x), p)
  BY DEF Read, ReadHead, Reader

LEMMA NoHeadRead ==
  ASSUME NEW c, NEW p, p.head = NoHead
  PROVE  Read(c, p) = ReadBody(c, p)
  BY DEF Read, ReadHead

LEMMA ChunkRead ==
  ASSUME NEW b, NEW x, NEW p, p.framed = TRUE
  PROVE  ReadBody(Reader("chunks", b, x), p)
           = IF p.msg = Empty THEN Reader("done", b, x)
             ELSE Reader("chunks", Append(b, p.msg), x)
  <1>1. p.framed
    OBVIOUS
  <1> DEFINE c == Reader("chunks", b, x)
             e == Append(b, p.msg)
  <1>4. c.state = "chunks" /\ c.body = b
    BY DEF Reader
  <1>5. ~(c.state = "done")
    BY <1>4
  <1>6. /\ [c EXCEPT !.body = e] = Reader("chunks", e, x)
        /\ [c EXCEPT !.state = "done"] = Reader("done", b, x)
    <2> HIDE DEF e
    <2> QED BY DEF Reader
  <1> HIDE DEF c
  <1>2. CASE p.msg = Empty
    <2>1. ReadBody(c, p) = [c EXCEPT !.state = "done"]
      BY <1>1, <1>2, <1>4, <1>5 DEF ReadBody
    <2> QED BY <1>2, <1>6, <2>1 DEF c
  <1>3. CASE p.msg # Empty
    <2>1. ReadBody(c, p) = [c EXCEPT !.body = Append(c.body, p.msg)]
      BY <1>1, <1>3, <1>4, <1>5 DEF ReadBody
    <2>2. ReadBody(c, p) = [c EXCEPT !.body = e]
      BY <1>4, <2>1
    <2> HIDE DEF e
    <2>3. ReadBody(c, p) = Reader("chunks", e, x)
      BY <1>6, <2>2
    <2> QED BY <1>3, <2>3 DEF c, e
  <1> QED BY <1>2, <1>3, Zenon DEF c

LEMMA PlainRead ==
  ASSUME NEW b, NEW x, NEW p, p.framed = FALSE
  PROVE  ReadBody(Reader("close", b, x), p)
           = IF p.msg = Empty THEN Reader("close", b, x)
             ELSE Reader("close", Append(b, p.msg), x)
  <1>1. ~p.framed
    OBVIOUS
  <1> DEFINE c == Reader("close", b, x)
             e == Append(b, p.msg)
  <1>4. c.state = "close" /\ c.body = b
    BY DEF Reader
  <1>5. ~(c.state = "done") /\ ~(c.state = "chunks")
    BY <1>4
  <1>6. [c EXCEPT !.body = e] = Reader("close", e, x)
    <2> HIDE DEF e
    <2> QED BY DEF Reader
  <1> HIDE DEF c
  <1>2. CASE p.msg = Empty
    <2>1. ReadBody(c, p) = c
      BY <1>1, <1>2, <1>4, <1>5, Zenon DEF ReadBody
    <2> QED BY <1>2, <2>1 DEF c
  <1>3. CASE p.msg # Empty
    <2>1. ReadBody(c, p) = [c EXCEPT !.body = Append(c.body, p.msg)]
      BY <1>1, <1>3, <1>4, <1>5 DEF ReadBody
    <2>2. ReadBody(c, p) = [c EXCEPT !.body = e]
      BY <1>4, <2>1
    <2> HIDE DEF e
    <2>3. ReadBody(c, p) = Reader("close", e, x)
      BY <1>6, <2>2
    <2> QED BY <1>3, <2>3 DEF c, e
  <1> QED BY <1>2, <1>3, Zenon DEF c

LEMMA DoneRead ==
  ASSUME NEW b, NEW x, NEW p, p.framed = TRUE
  PROVE  ReadBody(Reader("done", b, x), p) = Reader("done", b, TRUE)
  BY DEF ReadBody, Reader

=============================================================================
