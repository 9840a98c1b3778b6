-------------------------- MODULE HttpRequestProofs --------------------------
(***************************************************************************)
(* The invariants of HttpRequest, for any names and bounds.  The three     *)
(* actions that report a text differ in the text only: either it is whole, *)
(* or the packet ended in it and there is one cut more, behind all others  *)
(* of the connection; so there is where a value goes on on the next line.  *)
(* The second half is about the lists of names and values, which is only   *)
(* known while there is no cut.                                            *)
(***************************************************************************)
EXTENDS HttpRequest, SequenceTheorems, FiniteSetTheorems,
        WellFoundedInduction, NaturalsInduction, TLAPS

----------------------------------------------------------------------------
(* Sequences of whatever they consist of.                                  *)
LEMMA SeqFacts ==
  ASSUME NEW s, IsSeq(s)
  PROVE  Len(s) \in Nat /\ DOMAIN s = 1 .. Len(s)
  BY LenProperties DEF IsSeq

LEMMA RangeSeq ==
  ASSUME NEW S, NEW t \in Seq(S)
  PROVE  t \in Seq(Range(t))
  <1>1. Len(t) \in Nat /\ t \in [1 .. Len(t) -> S]
    BY LenProperties
  <1>2. t \in [1 .. Len(t) -> Range(t)]
    BY <1>1 DEF Range
  <1> QED BY <1>1, <1>2, SeqDef

LEMMA AppendSeq ==
  ASSUME NEW s, IsSeq(s), NEW e
  PROVE  /\ IsSeq(Append(s, e)) /\ Len(Append(s, e)) = Len(s) + 1
         /\ \A i \in 1 .. Len(s) : Append(s, e)[i] = s[i]
         /\ Append(s, e)[Len(s) + 1] = e
  <1> DEFINE S == Range(s) \cup {e}
             t == Append(s, e)
  <1>1. s \in Seq(S) /\ e \in S
    BY SeqMonotonic DEF IsSeq
  <1>2. /\ t \in Seq(S) /\ Len(t) = Len(s) + 1
        /\ \A i \in 1 .. Len(s) : t[i] = s[i]
        /\ t[Len(s) + 1] = e
    BY <1>1, AppendProperties
  <1>3. t \in Seq(Range(t))
    BY <1>2, RangeSeq
  <1> QED BY <1>2, <1>3 DEF IsSeq

LEMMA PushSeq ==
  ASSUME NEW s, IsSeq(s), NEW e
  PROVE  IsSeq(<<e>> \o s) /\ Len(<<e>> \o s) = Len(s) + 1
  <1> DEFINE S == Range(s) \cup {e}
             t == <<e>> \o s
  <1>1. s \in Seq(S) /\ <<e>> \in Seq(S) /\ Len(<<e>>) = 1
    BY SeqMonotonic DEF IsSeq
  <1>2. t \in Seq(S) /\ Len(t) = Len(s) + 1
    BY <1>1, ConcatProperties
  <1>3. t \in Seq(Range(t))
    BY <1>2, RangeSeq
  <1> QED BY <1>2, <1>3 DEF IsSeq

(* The greatest element of a set of numbers is the latest.                 *)
LEMMA LatestIs ==
  ASSUME NEW S, NEW x \in S, \A y \in S : y \in Nat /\ y <= x
  PROVE  Latest(S) = x
  <1>1. \A y \in S : (\A z \in S : z <= y) => y = x
    OBVIOUS
  <1>2. \E y \in S : \A z \in S : z <= y
    OBVIOUS
  <1>3. (CHOOSE y \in S : \A z \in S : z <= y) = x
    BY <1>1, <1>2
  <1> QED BY <1>3 DEF Latest

----------------------------------------------------------------------------
(* Where the parser is.                                                    *)
Flags == alive \in BOOLEAN /\ exec \in BOOLEAN /\ err \in BOOLEAN

SentOK == sent \in Seq(Message) /\ Len(sent) <= MaxMessages

AtOK ==
  /\ at.tok \in {"start", "url", "field", "value", "complete", "body", "end"}
  /\ at.i \in 0 .. MaxHeaders
  /\ at.tok \in {"field", "value"} => at.i \in 1 .. Len(msg.headers)
  /\ at.tok = "field" => ~Continues(at.i)
  /\ off \in 0 .. MaxLen
  /\ off > 0 => at.tok \in {"url", "field", "value"}

GotOK ==
  /\ onData \in 0 .. Len(got) /\ onEnd \in 0 .. Len(got)
  /\ Len(got) <= Len(sent)

LEMMA TypeParts == TypeOK <=> Flags /\ SentOK /\ AtOK /\ GotOK
  BY Zenon DEF TypeOK, Flags, SentOK, AtOK, GotOK

LEMMA SentFacts ==
  ASSUME SentOK
  PROVE  /\ j \in Nat /\ DOMAIN sent = 1 .. j
         /\ \A m \in 1 .. j : sent[m] \in Message
  BY LenProperties, ElementOfSeq DEF SentOK, j

LEMMA MsgFacts ==
  ASSUME NEW m \in Message
  PROVE  /\ m.url \in 1 .. MaxLen
         /\ Len(m.headers) \in 0 .. MaxHeaders
         /\ \A i \in 1 .. Len(m.headers) : m.headers[i].len \in 0 .. MaxLen
         /\ 1 <= Len(m.headers) => m.headers[1].name # NoName
  <1>1. /\ m.url \in 1 .. MaxLen /\ m.headers \in BoundedSeq(Line, MaxHeaders)
        /\ WellFolded(m.headers)
    BY DEF Message
  <1>2. PICK n \in 0 .. MaxHeaders : m.headers \in [1 .. n -> Line]
    BY <1>1 DEF BoundedSeq, SeqOf
  <1>3. n \in Nat /\ n \in 0 .. MaxHeaders
    BY BoundsAssumption
  <1>4. m.headers \in Seq(Line)
    BY <1>2, <1>3, SeqDef
  <1>5. Len(m.headers) = n
    BY <1>2, <1>3, <1>4, LenProperties
  <1>6. \A i \in 1 .. n : m.headers[i].len \in 0 .. MaxLen
    BY <1>2 DEF Line
  <1>7. 1 <= n => m.headers[1].name # NoName
    BY <1>1, <1>2, <1>3 DEF WellFolded
  <1> QED BY <1>1, <1>3, <1>5, <1>6, <1>7

LEMMA HeaderFacts ==
  ASSUME SentOK, j > 0
  PROVE  /\ msg \in Message
         /\ msg.url \in 1 .. MaxLen
         /\ Len(msg.headers) \in Nat /\ Len(msg.headers) <= MaxHeaders
         /\ \A i \in 1 .. Len(msg.headers) : msg.headers[i].len \in 0 .. MaxLen
         /\ 1 <= Len(msg.headers) => ~Continues(1)
         /\ MaxHeaders \in Nat
  <1>1. msg \in Message
    BY SentFacts DEF msg
  <1>2. MaxHeaders \in Nat
    BY BoundsAssumption
  <1> QED BY <1>1, <1>2, MsgFacts DEF Continues

LEMMA PlaceFacts ==
  ASSUME NEW tok, NEW i
  PROVE  Place(tok, i).tok = tok /\ Place(tok, i).i = i
  BY DEF Place

(* Behind a line is another one, or the end of the headers.                *)
LEMMA NextHeaderFacts ==
  ASSUME SentOK, j > 0, NEW k \in 0 .. Len(msg.headers)
  PROVE  \/ /\ NextHeader(k) = Place("field", k + 1)
            /\ k + 1 \in 1 .. Len(msg.headers) /\ ~Continues(k + 1)
         \/ /\ NextHeader(k) = Place("value", k + 1) /\ k > 0
            /\ k + 1 \in 1 .. Len(msg.headers) /\ Continues(k + 1)
         \/ /\ NextHeader(k) = Place("complete", 0) /\ k = Len(msg.headers)
  BY HeaderFacts DEF NextHeader

LEMMA RankFacts ==
  ASSUME NEW i \in 0 .. MaxHeaders
  PROVE  /\ Rank(Place("url", i)) = 0
         /\ Rank(Place("field", i)) = 2 * i - 1
         /\ Rank(Place("value", i)) = 2 * i
         /\ \A tok \in {"start", "complete", "body", "end"} :
              Rank(Place(tok, i)) = 2 * MaxHeaders + 1
  BY PlaceFacts DEF Rank

LEMMA RankOfAt ==
  ASSUME SentOK, AtOK
  PROVE  /\ MaxHeaders \in Nat
         /\ at.tok = "url" => Rank(at) = 0
         /\ at.tok = "field" => Rank(at) = 2 * at.i - 1 /\ at.i \in Nat
         /\ at.tok = "value" => Rank(at) = 2 * at.i /\ at.i \in Nat
         /\ at.tok \in {"start", "complete", "body", "end"} =>
              Rank(at) = 2 * MaxHeaders + 1
         /\ Rank(at) \in Int /\ Rank(at) <= 2 * MaxHeaders + 1
  <1>1. MaxHeaders \in Nat
    BY BoundsAssumption
  <1>a. at.i \in 0 .. MaxHeaders
    BY Zenon DEF AtOK
  <1>2. at.i \in Nat /\ at.i <= MaxHeaders
    BY <1>1, <1>a
  <1>3. at.tok \in {"start", "url", "field", "value", "complete", "body",
        "end"}
    BY Zenon DEF AtOK
  <1> QED BY <1>1, <1>2, <1>3 DEF Rank

----------------------------------------------------------------------------
(* A text that is whole, or the packet ended in it.                        *)
Whole(next) ==
  /\ off' = 0 /\ at' = next
  /\ cuts' = cuts \cup FoldCut(next)
  /\ UNCHANGED exec

CutAt(to) ==
  /\ to \in Nat /\ off < to /\ to <= MaxLen
  /\ off' = to /\ exec' = FALSE
  /\ cuts' = cuts \cup {<<j, at, to>>}
  /\ UNCHANGED at

LEMMA ReportCases ==
  ASSUME AtOK, NEW len \in 0 .. MaxLen, NEW to \in off .. len, NEW next,
         Report(len, to, next)
  PROVE  (Whole(next) /\ to = len) \/ CutAt(to)
  <1>1. off \in Nat /\ len \in Nat /\ len <= MaxLen /\ MaxLen \in Nat
    BY BoundsAssumption DEF AtOK
  <1>2. CASE /\ to = len
             /\ off' = 0 /\ at' = next
             /\ cuts' = cuts \cup FoldCut(next)
             /\ UNCHANGED exec
    BY <1>2 DEF Whole
  <1>3. CASE /\ to \in off + 1 .. len
             /\ off' = to /\ exec' = FALSE
             /\ cuts' = cuts \cup {<<j, at, to>>}
             /\ UNCHANGED at
    <2>1. to \in Nat /\ off < to /\ to <= MaxLen
      BY <1>1, <1>3
    <2> QED BY <1>3, <2>1, Zenon DEF CutAt
  <1> QED BY <1>2, <1>3 DEF Report

(* Nothing is cut between two texts, except at a fold.                     *)
LEMMA WholeSame ==
  ASSUME NEW next, Whole(next), ~Fold(next)
  PROVE  cuts' = cuts
  BY DEF Whole, FoldCut

LEMMA FoldIsValue ==
  ASSUME NEW next, Fold(next)
  PROVE  next.tok = "value" /\ FoldCut(next) = {<<j, next, 0>>}
  BY DEF Fold, FoldCut

(* A whole text is passed with all its cuts.                               *)
LEMMA WholeCuts ==
  ASSUME SentOK, AtOK, CutsInv, j > 0, UNCHANGED sent,
         NEW next, Whole(next), Rank(next) \in Int, Rank(at) < Rank(next)
  PROVE  CutsInv' /\ (Fold(next) => <<j, next, 0>> \notin cuts)
  <1> DEFINE new == <<j, next, 0>>
  <1>1. j' = j /\ j \in 1 .. j
    BY SentFacts DEF j
  <1>2. Rank(at) \in Int
    BY RankOfAt
  <1>3. ASSUME NEW c \in cuts, c[1] = j
        PROVE  Rank(c[2]) < Rank(next)
    <2>1. Rank(c[2]) \in Int
      BY DEF CutsInv
    <2>2. Rank(c[2]) <= Rank(at)
      BY <1>2, <1>3, <2>1 DEF CutsInv
    <2> QED BY <1>2, <2>1, <2>2
  <1>4. new[1] = j /\ new[2] = next /\ new[3] = 0
    OBVIOUS
  <1>5. new \notin cuts
    BY <1>3, <1>4
  <1> HIDE DEF new
  <1>6. at' = next /\ off' = 0
    BY DEF Whole
  <1>7. CASE ~Fold(next)
    <2>1. cuts' = cuts
      BY <1>7, WholeSame
    <2> QED BY <1>1, <1>3, <1>6, <1>7, <2>1 DEF CutsInv, Rank
  <1>8. CASE Fold(next)
    <2>1. cuts' = cuts \cup {new} /\ next.tok = "value"
      BY <1>8, FoldIsValue DEF Whole, new
    <2>2. IsFiniteSet(cuts')
      BY <2>1, FS_AddElement DEF CutsInv
    <2>3. ASSUME NEW c \in cuts'
          PROVE  /\ c[1] \in 1 .. j /\ c[3] \in Nat /\ Rank(c[2]) \in Int
                 /\ \/ c[1] = j => Rank(c[2]) < Rank(next)
                    \/ c[2] = next /\ c[3] <= 0
      <3>1. CASE c \in cuts
        BY <1>3, <3>1 DEF CutsInv
      <3>2. CASE c = new
        BY <1>1, <1>4, <3>2
      <3> QED BY <2>1, <3>1, <3>2
    <2>4. CutsInv'
      BY <1>1, <1>6, <2>1, <2>2, <2>3 DEF CutsInv, Rank
    <2> QED BY <1>5, <2>4 DEF new
  <1> QED BY <1>7, <1>8

(* A cut lies behind all other cuts.                                       *)
LEMMA CutIsNew ==
  ASSUME SentOK, AtOK, CutsInv, j > 0, NEW to, CutAt(to), UNCHANGED sent
  PROVE  <<j, at, to>> \notin cuts /\ CutsInv'
  <1>1. j' = j /\ j \in 1 .. j
    BY SentFacts DEF j
  <1>2. Rank(at) \in Int /\ off \in Nat /\ to \in Nat /\ off < to
    BY RankOfAt, BoundsAssumption DEF AtOK, CutAt
  <1> DEFINE new == <<j, at, to>>
  <1>3. new[1] = j /\ new[2] = at /\ new[3] = to
    OBVIOUS
  <1>4. new \notin cuts
    BY <1>2, <1>3 DEF CutsInv
  <1> HIDE DEF new
  <1>5. /\ cuts' = cuts \cup {new} /\ off' = to /\ at' = at
    BY DEF new, CutAt
  <1>6. IsFiniteSet(cuts')
    BY <1>5, FS_AddElement DEF CutsInv
  <1>7. \A c \in cuts' : c[1] \in 1 .. j /\ c[3] \in Nat /\ Rank(c[2]) \in Int
    BY <1>1, <1>2, <1>3, <1>5 DEF CutsInv
  <1>8. ASSUME NEW c \in cuts', c[1] = j
        PROVE  \/ Rank(c[2]) < Rank(at)
               \/ c[2] = at /\ c[3] <= to /\ (to > 0 \/ at.tok = "value")
    <2>1. CASE c = new
      BY <1>2, <1>3, <2>1
    <2>2. CASE c \in cuts
      BY <1>2, <1>8, <2>2 DEF CutsInv
    <2> QED BY <1>5, <2>1, <2>2
  <1>9. CutsInv'
    BY <1>1, <1>5, <1>6, <1>7, <1>8 DEF CutsInv, Rank
  <1> QED BY <1>4, <1>9 DEF new

(* The cuts of names, or of values.                                        *)
Of(C, tok) == {c \in C : c[2].tok = tok}

LEMMA AllCutsAre ==
  ASSUME NEW n \in Nat, NEW C, \A c \in C : c[1] \in 1 .. n, NEW tok
  PROVE  UNION {{c \in C : c[1] = m /\ c[2].tok = tok} : m \in 1 .. n}
           = Of(C, tok)
  BY DEF Of

LEMMA AllCutsOf ==
  ASSUME SentOK, CutsInv
  PROVE  \A tok : AllCuts(tok) = Of(cuts, tok)
  <1>1. j \in Nat /\ DOMAIN sent = 1 .. j
    BY SentFacts
  <1>2. \A c \in cuts : c[1] \in 1 .. j
    BY DEF CutsInv
  <1> QED BY <1>1, <1>2, AllCutsAre DEF AllCuts, Cuts

LEMMA OfFinite ==
  ASSUME NEW C, IsFiniteSet(C), NEW tok
  PROVE  IsFiniteSet(Of(C, tok)) /\ Cardinality(Of(C, tok)) \in Nat
  BY FS_Subset, FS_CardinalityType DEF Of

LEMMA OfMore ==
  ASSUME NEW C, IsFiniteSet(C), NEW tok, NEW c, c \notin C
  PROVE  Cardinality(Of(C \cup {c}, tok))
           = Cardinality(Of(C, tok)) + (IF c[2].tok = tok THEN 1 ELSE 0)
  <1>1. Cardinality(Of(C, tok)) \in Nat /\ IsFiniteSet(Of(C, tok))
    BY OfFinite
  <1>2. CASE c[2].tok = tok
    <2>1. Of(C \cup {c}, tok) = Of(C, tok) \cup {c} /\ c \notin Of(C, tok)
      BY <1>2 DEF Of
    <2>2. Cardinality(Of(C, tok) \cup {c}) = Cardinality(Of(C, tok)) + 1
      BY <1>1, <2>1, FS_AddElement
    <2> QED BY <1>2, <2>1, <2>2
  <1>3. CASE c[2].tok # tok
    <2>1. Of(C \cup {c}, tok) = Of(C, tok)
      BY <1>3 DEF Of
    <2> QED BY <1>1, <1>3, <2>1
  <1> QED BY <1>2, <1>3

LEMMA CutCounts ==
  ASSUME SentOK, AtOK, CutsInv, j > 0, NEW to, CutAt(to), UNCHANGED sent,
         NEW tok
  PROVE  /\ Cardinality(Of(cuts, tok)) \in Nat
         /\ Cardinality(Of(cuts', tok)) =
              Cardinality(Of(cuts, tok)) + (IF at.tok = tok THEN 1 ELSE 0)
  <1> DEFINE new == <<j, at, to>>
  <1>1. new \notin cuts /\ new[2].tok = at.tok /\ IsFiniteSet(cuts)
    BY CutIsNew DEF CutsInv
  <1>2. cuts' = cuts \cup {new}
    BY DEF CutAt
  <1> HIDE DEF new
  <1> QED BY <1>1, <1>2, OfFinite, OfMore

LEMMA FoldCounts ==
  ASSUME SentOK, AtOK, CutsInv, j > 0, UNCHANGED sent, NEW tok,
         NEW next, Whole(next), Rank(next) \in Int, Rank(at) < Rank(next),
         Fold(next)
  PROVE  Cardinality(Of(cuts', tok)) =
           Cardinality(Of(cuts, tok)) + (IF "value" = tok THEN 1 ELSE 0)
  <1> DEFINE new == <<j, next, 0>>
  <1>1. /\ new \notin cuts /\ new[2].tok = "value" /\ IsFiniteSet(cuts)
        /\ cuts' = cuts \cup {new}
    BY WholeCuts, FoldIsValue DEF CutsInv, Whole
  <1> HIDE DEF new
  <1> QED BY <1>1, OfMore

LEMMA CountIs ==
  ASSUME SentOK, CutsInv
  PROVE  CountInv <=>
           Len(fields) + Cardinality(Of(cuts, "value")) =
             Len(values) + Cardinality(Of(cuts, "field"))
               + (IF at.tok = "value" THEN 1 ELSE 0)
  BY AllCutsOf DEF CountInv

LEMMA CountIsNext ==
  ASSUME SentOK', CutsInv'
  PROVE  CountInv' <=>
           Len(fields') + Cardinality(Of(cuts', "value")) =
             Len(values') + Cardinality(Of(cuts', "field"))
               + (IF at.tok' = "value" THEN 1 ELSE 0)
  <1>1. j' \in Nat /\ DOMAIN sent' = 1 .. j'
    BY LenProperties DEF SentOK, j
  <1>2. \A c \in cuts' : c[1] \in 1 .. j'
    BY DEF CutsInv
  <1>3. \A tok : AllCuts(tok)' = Of(cuts', tok)
    BY <1>1, <1>2, AllCutsAre DEF AllCuts, Cuts
  <1> QED BY <1>3 DEF CountInv

----------------------------------------------------------------------------
(* The last cut of a URL.                                                  *)
LEMMA LastCutSame ==
  ASSUME NEW c, cuts' = cuts \cup {c}, NEW m, c[1] # m \/ c[2].tok # "url"
  PROVE  LastCut(m)' = LastCut(m)
  <1>1. Cuts(m, "url")' = Cuts(m, "url")
    BY DEF Cuts
  <1>2. {d[3] : d \in Cuts(m, "url")}' = {d[3] : d \in Cuts(m, "url")}
    BY <1>1
  <1> QED BY <1>2, Zenon DEF LastCut

LEMMA LastCutNew ==
  ASSUME SentOK, AtOK, CutsInv, j > 0, at.tok = "url", NEW to, CutAt(to),
         UNCHANGED sent
  PROVE  LastCut(j)' = to
  <1> DEFINE S == {c[3] : c \in {d \in cuts' : d[1] = j /\ d[2].tok = "url"}}
             new == <<j, at, to>>
  <1>1. new[1] = j /\ new[2] = at /\ new[3] = to /\ cuts' = cuts \cup {new}
    BY DEF CutAt
  <1>2. to \in S
    BY <1>1
  <1>3. off \in Nat /\ to \in Nat /\ off < to
    BY BoundsAssumption DEF AtOK, CutAt
  <1>4. ASSUME NEW c \in cuts', c[1] = j, c[2].tok = "url"
        PROVE  c[3] \in Nat /\ c[3] <= to
    <2>1. CASE c = new
      BY <1>1, <1>3, <2>1
    <2>2. CASE c \in cuts
      <3>1. Rank(c[2]) = 0 /\ Rank(at) = 0
        BY <1>4 DEF Rank
      <3> QED BY <1>3, <1>4, <2>2, <3>1 DEF CutsInv
    <2> QED BY <1>1, <2>1, <2>2
  <1>5. \A y \in S : y \in Nat /\ y <= to
    BY <1>4
  <1>6. Latest(S) = to
    BY <1>2, <1>5, LatestIs
  <1>7. j' = j
    BY DEF j
  <1>8. {c[3] : c \in Cuts(j, "url")}' = S
    BY <1>7 DEF Cuts
  <1> QED BY <1>6, <1>8, Zenon DEF LastCut

LEMMA LastCutNone ==
  ASSUME NEW m, \A c \in cuts : c[1] # m
  PROVE  LastCut(m) = 0
  BY DEF LastCut, Cuts, Latest

----------------------------------------------------------------------------
(* What every report of a text keeps.                                      *)
NextOK(next) ==
  /\ next.tok \in {"field", "value", "complete"}
  /\ next.i \in 0 .. MaxHeaders
  /\ next.tok \in {"field", "value"} => next.i \in 1 .. Len(msg.headers)
  /\ next.tok = "field" => ~Continues(next.i)
  /\ Rank(next) \in Int /\ Rank(at) < Rank(next)

Rest ==
  /\ alive /\ exec /\ j > 0 /\ at.tok \in {"url", "field", "value"}
  /\ UNCHANGED <<alive, err, sent, resFields, got, dataTo, endTo>>

LEMMA TextAt ==
  ASSUME TypeOK, Rest, NEW to, NEW next,
         (Whole(next) /\ NextOK(next)) \/ CutAt(to)
  PROVE  TypeOK'
  <1>1. SentOK' /\ GotOK' /\ j' = j /\ msg' = msg
    BY TypeParts DEF SentOK, GotOK, Rest, resFields, j, msg
  <1>2. Flags'
    BY TypeParts, Zenon DEF Flags, Rest, Whole, CutAt
  <1>3. AtOK'
    <2>1. CASE Whole(next) /\ NextOK(next)
      <3>1. 0 \in 0 .. MaxLen /\ ~(0 > 0)
        BY BoundsAssumption
      <3> QED BY <1>1, <2>1, <3>1 DEF AtOK, Whole, NextOK, Continues
    <2>2. CASE CutAt(to)
      <3>1. to \in 0 .. MaxLen
        BY <2>2 DEF CutAt
      <3>2. /\ at.tok' = at.tok /\ at.i' = at.i /\ off' = to
        BY <2>2 DEF CutAt
      <3>3. at.tok \in {"url", "field", "value"}
        BY DEF Rest
      <3>4. at.tok = "field" => ~Continues(at.i)'
        BY <1>1, <3>2, TypeParts DEF AtOK, Continues
      <3> QED BY <1>1, <3>1, <3>2, <3>3, <3>4, TypeParts, Zenon DEF AtOK
    <2> QED BY <2>1, <2>2
  <1> QED BY <1>1, <1>2, <1>3, TypeParts, Zenon
             DEF TypeOK, Flags, SentOK, AtOK, GotOK

LEMMA TextCuts ==
  ASSUME TypeOK, CutsInv, Rest, NEW to, NEW next,
         (Whole(next) /\ NextOK(next)) \/ CutAt(to)
  PROVE  CutsInv'
  <1>1. SentOK /\ AtOK
    BY TypeParts
  <1>2. CASE Whole(next) /\ NextOK(next)
    BY <1>1, <1>2, WholeCuts DEF NextOK, Rest
  <1>3. CASE CutAt(to)
    BY <1>1, <1>3, CutIsNew DEF Rest
  <1> QED BY <1>2, <1>3

LEMMA TextPlace ==
  ASSUME PlaceInv, Rest, NEW to, NEW next,
         (Whole(next) /\ NextOK(next)) \/ CutAt(to),
         IsSeq(fields'), IsSeq(values')
  PROVE  PlaceInv'
  <1>1. at.tok' \in {"url", "field", "value", "complete"}
    BY DEF Rest, Whole, NextOK, CutAt
  <1>2. j' = j /\ got' = got /\ alive' = alive
    BY DEF Rest, j
  <1>3. Len(got) = j - 1
    BY DEF PlaceInv, Rest
  <1> QED BY <1>1, <1>2, <1>3 DEF PlaceInv, Rest, IsSeq

LEMMA TextEvents ==
  ASSUME EventsInv, Rest
  PROVE  EventsInv'
  BY DEF EventsInv, EventsReachLatestHandler, Rest, resFields

----------------------------------------------------------------------------
(* One lemma for each action.                                              *)
LEMMA IInvParts ==
  IInv => /\ TypeOK /\ PlaceInv /\ CutsInv /\ CountInv /\ UrlInv /\ EventsInv
          /\ SentOK /\ AtOK
  BY TypeParts DEF IInv

(* A cut elsewhere, or none, does not change what is known of the URLs.    *)
LEMMA UrlSame ==
  ASSUME UrlInv, Rest, at.tok # "url", UNCHANGED url,
         NEW to, NEW next, (Whole(next) /\ NextOK(next)) \/ CutAt(to)
  PROVE  UrlInv'
  <1>1. j' = j /\ msg' = msg /\ sent' = sent /\ got' = got
    BY DEF Rest, j, msg
  <1>2. \A m : LastCut(m)' = LastCut(m)
    <2>1. CASE Whole(next) /\ ~Fold(next)
      BY <2>1, WholeSame DEF LastCut, Cuts
    <2>3. CASE Whole(next) /\ Fold(next)
      <3>1. /\ <<j, next, 0>>[2].tok # "url"
            /\ cuts' = cuts \cup {<<j, next, 0>>}
        BY <2>3, FoldIsValue DEF Whole
      <3> QED BY <3>1, LastCutSame
    <2>2. CASE CutAt(to)
      <3>1. <<j, at, to>>[2].tok # "url"
        OBVIOUS
      <3> QED BY <2>2, <3>1, LastCutSame DEF CutAt
    <2> QED BY <2>1, <2>2, <2>3
  <1>3. /\ at.tok \in {"field", "value"}
        /\ at.tok' \in {"field", "value", "complete"}
    BY DEF Rest, Whole, NextOK, CutAt
  <1>4. url = Text(<<"url", j>>, LastCut(j), msg.url)
    BY <1>3 DEF UrlInv
  <1>5. url' = Text(<<"url", j'>>, LastCut(j)', msg'.url)
    BY <1>1, <1>2, <1>4
  <1>6. UrlWholeUnlessCut'
    BY <1>1, <1>2 DEF UrlInv, UrlWholeUnlessCut
  <1> QED BY <1>3, <1>5, <1>6, Zenon DEF UrlInv

LEMMA OnUrl ==
  ASSUME IInv, on_url
  PROVE  IInv'
  <1>1. PICK to \in off .. msg.url : /\ Report(msg.url, to, NextHeader(0))
                                     /\ set_url(Text(<<"url", j>>, off, to))
    BY DEF on_url
  <1> DEFINE next == NextHeader(0)
  <1>2. /\ TypeOK /\ PlaceInv /\ CutsInv /\ CountInv /\ UrlInv /\ EventsInv
        /\ SentOK /\ AtOK
    BY IInvParts
  <1>3. Rest /\ at.tok = "url" /\ UNCHANGED <<fields, values>>
    BY <1>2 DEF on_url, Parsing, Rest, PlaceInv
  <1>4. /\ msg.url \in 1 .. MaxLen /\ msg.url \in 0 .. MaxLen
        /\ 0 \in 0 .. Len(msg.headers)
    BY <1>2, <1>3, HeaderFacts, BoundsAssumption DEF Rest
  <1>5. NextOK(next) /\ next.tok # "value" /\ next.tok # "url"
    <2>1. \/ /\ next = Place("field", 0 + 1) /\ ~Continues(0 + 1)
             /\ 0 + 1 \in 1 .. Len(msg.headers)
          \/ next = Place("complete", 0)
      BY <1>2, <1>3, <1>4, NextHeaderFacts DEF Rest
    <2>2. Rank(at) = 0 /\ MaxHeaders \in Nat
      BY <1>2, <1>3, RankOfAt
    <2>3. Len(msg.headers) \in Nat /\ Len(msg.headers) <= MaxHeaders
      BY <1>2, <1>3, HeaderFacts DEF Rest
    <2>4. CASE /\ next = Place("field", 1) /\ ~Continues(1)
               /\ 1 \in 1 .. Len(msg.headers)
      <3>1. 1 \in 0 .. MaxHeaders
        BY <2>2, <2>3, <2>4
      <3>2. Rank(next) = 1
        BY <2>4, <3>1, RankFacts
      <3> QED BY <2>2, <2>4, <3>1, <3>2, PlaceFacts DEF NextOK
    <2>5. CASE next = Place("complete", 0)
      <3>1. 0 \in 0 .. MaxHeaders
        BY <2>2
      <3>2. Rank(next) = 2 * MaxHeaders + 1
        BY <2>5, <3>1, RankFacts
      <3> QED BY <2>2, <2>5, <3>1, <3>2, PlaceFacts DEF NextOK
    <2> QED BY <2>1, <2>4, <2>5
  <1>6. (Whole(next) /\ to = msg.url /\ cuts' = cuts) \/ CutAt(to)
    <2>1. (Whole(next) /\ to = msg.url) \/ CutAt(to)
      BY <1>1, <1>2, <1>4, ReportCases
    <2>2. ~Fold(next)
      BY <1>5 DEF Fold
    <2> QED BY <2>1, <2>2, WholeSame
  <1>7. TypeOK' /\ CutsInv' /\ EventsInv'
    BY <1>2, <1>3, <1>5, <1>6, TextAt, TextCuts, TextEvents
  <1>8. PlaceInv'
    <2>1. IsSeq(fields') /\ IsSeq(values')
      BY <1>2, <1>3 DEF PlaceInv
    <2> QED BY <1>2, <1>3, <1>5, <1>6, <2>1, TextPlace
  <1>9. CountInv'
    <2>1. SentOK'
      BY <1>7, TypeParts DEF TypeOK, SentOK
    <2>2. at.tok' # "value"
      BY <1>3, <1>5, <1>6 DEF Whole, CutAt
    <2>3. /\ Cardinality(Of(cuts', "value")) = Cardinality(Of(cuts, "value"))
          /\ Cardinality(Of(cuts', "field")) = Cardinality(Of(cuts, "field"))
      <3>1. CASE cuts' = cuts
        BY <3>1
      <3>2. CASE CutAt(to)
        BY <1>2, <1>3, <3>2, CutCounts DEF Rest
      <3> QED BY <1>6, <3>1, <3>2
    <2> QED BY <1>2, <1>3, <1>7, <2>1, <2>2, <2>3, CountIs, CountIsNext
  <1>10. UrlInv'
    <2>1. j' = j /\ msg' = msg /\ sent' = sent /\ got' = got
      BY <1>3 DEF Rest, j, msg
    <2>2. LastCut(j) = off /\ Len(got) = j - 1 /\ j \in Nat /\ IsSeq(got)
      BY <1>2, <1>3, SentFacts DEF UrlInv, PlaceInv
    <2>3. CASE Whole(next) /\ to = msg.url /\ cuts' = cuts
      <3>1. \A m : LastCut(m)' = LastCut(m)
        BY <2>3 DEF LastCut, Cuts
      <3>2. url' = Text(<<"url", j'>>, LastCut(j)', msg'.url)
        BY <1>1, <2>1, <2>2, <2>3, <3>1 DEF set_url
      <3>3. UrlWholeUnlessCut'
        BY <1>2, <2>1, <3>1 DEF UrlInv, UrlWholeUnlessCut
      <3>4. at.tok' # "url"
        BY <1>5, <2>3 DEF Whole
      <3> QED BY <3>2, <3>3, <3>4, Zenon DEF UrlInv
    <2>4. CASE CutAt(to)
      <3>1. LastCut(j)' = off'
        BY <1>2, <1>3, <2>1, <2>4, LastCutNew DEF CutAt, Rest
      <3>2. \A m \in DOMAIN got : LastCut(m)' = LastCut(m)
        <4>1. ASSUME NEW m \in DOMAIN got
              PROVE  LastCut(m)' = LastCut(m)
          <5>1. m # j
            BY <2>2, SeqFacts
          <5>2. <<j, at, to>>[1] # m
            BY <5>1
          <5> QED BY <2>4, <5>2, LastCutSame DEF CutAt
        <4> QED BY <4>1
      <3>3. UrlWholeUnlessCut'
        BY <1>2, <2>1, <3>2 DEF UrlInv, UrlWholeUnlessCut
      <3>4. at.tok' = "url"
        BY <1>3, <2>4 DEF CutAt
      <3> QED BY <3>1, <3>3, <3>4, Zenon DEF UrlInv
    <2> QED BY <1>6, <2>3, <2>4
  <1> QED BY <1>7, <1>8, <1>9, <1>10, Zenon DEF IInv

LEMMA OnHeaderField ==
  ASSUME IInv, on_header_field
  PROVE  IInv'
  <1>1. PICK to \in off .. MaxLen :
          /\ Report(MaxLen, to, Place("value", at.i))
          /\ push_field(Text(msg.headers[at.i].name, off, to))
    BY DEF on_header_field
  <1> DEFINE next == Place("value", at.i)
  <1>2. /\ TypeOK /\ PlaceInv /\ CutsInv /\ CountInv /\ UrlInv /\ EventsInv
        /\ SentOK /\ AtOK
    BY IInvParts
  <1>3. Rest /\ at.tok = "field" /\ UNCHANGED <<url, values>>
    BY <1>2 DEF on_header_field, Parsing, Rest, PlaceInv
  <1>4. MaxLen \in 0 .. MaxLen
    BY BoundsAssumption
  <1>5. NextOK(next) /\ next.tok = "value"
    <2>1. at.i \in 0 .. MaxHeaders /\ at.i \in 1 .. Len(msg.headers)
      BY <1>2, <1>3 DEF AtOK
    <2>2. Rank(at) = 2 * at.i - 1 /\ at.i \in Nat
      BY <1>2, <1>3, RankOfAt
    <2>3. Rank(next) = 2 * at.i
      BY <2>1, RankFacts
    <2> QED BY <2>1, <2>2, <2>3, PlaceFacts DEF NextOK
  <1>6. (Whole(next) /\ cuts' = cuts) \/ CutAt(to)
    <2>1. Whole(next) \/ CutAt(to)
      BY <1>1, <1>2, <1>4, ReportCases
    <2>2. ~Fold(next)
      BY <1>2, <1>3, PlaceFacts DEF Fold, AtOK
    <2> QED BY <2>1, <2>2, WholeSame
  <1>7. TypeOK' /\ CutsInv' /\ EventsInv'
    BY <1>2, <1>3, <1>5, <1>6, TextAt, TextCuts, TextEvents
  <1>8. /\ IsSeq(fields') /\ IsSeq(values')
        /\ Len(fields') = Len(fields) + 1
        /\ Len(fields) \in Nat /\ Len(values) \in Nat
    BY <1>1, <1>2, <1>3, PushSeq, SeqFacts DEF PlaceInv, push_field
  <1>9. PlaceInv'
    BY <1>2, <1>3, <1>5, <1>6, <1>8, TextPlace
  <1>10. CountInv'
    <2>1. SentOK'
      BY <1>7, TypeParts DEF TypeOK, SentOK
    <2>2. CASE Whole(next) /\ cuts' = cuts
      <3>1. at.tok' = "value" /\ cuts' = cuts
        BY <1>5, <2>2 DEF Whole
      <3>2. /\ Cardinality(Of(cuts, "value")) \in Nat
            /\ Cardinality(Of(cuts, "field")) \in Nat
        BY <1>2, OfFinite DEF CutsInv
      <3>3. Len(fields) + Cardinality(Of(cuts, "value"))
              = Len(values) + Cardinality(Of(cuts, "field")) + 0
        BY <1>2, <1>3, CountIs
      <3>a. values' = values
        BY <1>3
      <3>4. Len(fields') + Cardinality(Of(cuts', "value"))
              = Len(values') + Cardinality(Of(cuts', "field")) + 1
        BY <1>8, <3>a, <3>1, <3>2, <3>3
      <3> QED BY <1>7, <2>1, <3>1, <3>4, CountIsNext
    <2>3. CASE CutAt(to)
      <3>1. at.tok' = "field"
        BY <1>3, <2>3 DEF CutAt
      <3>2. /\ Cardinality(Of(cuts, "value")) \in Nat
            /\ Cardinality(Of(cuts, "field")) \in Nat
            /\ Cardinality(Of(cuts', "value")) = Cardinality(Of(cuts, "value"))
            /\ Cardinality(Of(cuts', "field"))
                 = Cardinality(Of(cuts, "field")) + 1
        BY <1>2, <1>3, <2>3, CutCounts DEF Rest
      <3>3. Len(fields) + Cardinality(Of(cuts, "value"))
              = Len(values) + Cardinality(Of(cuts, "field")) + 0
        BY <1>2, <1>3, CountIs
      <3>a. values' = values
        BY <1>3
      <3>4. Len(fields') + Cardinality(Of(cuts', "value"))
              = Len(values') + Cardinality(Of(cuts', "field")) + 0
        BY <1>8, <3>a, <3>1, <3>2, <3>3
      <3> QED BY <1>7, <2>1, <3>1, <3>4, CountIsNext
    <2> QED BY <1>6, <2>2, <2>3
  <1>11. UrlInv'
    BY <1>2, <1>3, <1>5, <1>6, UrlSame
  <1> QED BY <1>7, <1>9, <1>10, <1>11, Zenon DEF IInv

LEMMA OnHeaderValue ==
  ASSUME IInv, on_header_value
  PROVE  IInv'
  <1> DEFINE len == msg.headers[at.i].len
             next == NextHeader(at.i)
  <1>1. PICK to \in off .. len :
          /\ Report(len, to, next)
          /\ push_value(Text(<<"value", j, at.i>>, off, to))
    BY DEF on_header_value
  <1>2. /\ TypeOK /\ PlaceInv /\ CutsInv /\ CountInv /\ UrlInv /\ EventsInv
        /\ SentOK /\ AtOK
    BY IInvParts
  <1>3. Rest /\ at.tok = "value" /\ UNCHANGED <<url, fields>>
    BY <1>2 DEF on_header_value, Parsing, Rest, PlaceInv
  <1>4. /\ at.i \in 1 .. Len(msg.headers) /\ at.i \in 0 .. Len(msg.headers)
        /\ len \in 0 .. MaxLen
    <2>1. at.i \in 1 .. Len(msg.headers)
      BY <1>2, <1>3 DEF AtOK
    <2> QED BY <1>2, <1>3, <2>1, HeaderFacts DEF Rest
  <1>5. NextOK(next) /\ (next.tok = "value" => Fold(next))
    <2>1. \/ /\ next = Place("field", at.i + 1) /\ ~Continues(at.i + 1)
             /\ at.i + 1 \in 1 .. Len(msg.headers)
          \/ /\ next = Place("value", at.i + 1) /\ Continues(at.i + 1)
             /\ at.i + 1 \in 1 .. Len(msg.headers)
          \/ next = Place("complete", 0)
      BY <1>2, <1>3, <1>4, NextHeaderFacts DEF Rest
    <2>2. Rank(at) = 2 * at.i /\ at.i \in Nat /\ MaxHeaders \in Nat
      BY <1>2, <1>3, RankOfAt
    <2>3. Len(msg.headers) \in Nat /\ Len(msg.headers) <= MaxHeaders
      BY <1>2, <1>3, HeaderFacts DEF Rest
    <2>4. CASE /\ next = Place("field", at.i + 1) /\ ~Continues(at.i + 1)
               /\ at.i + 1 \in 1 .. Len(msg.headers)
      <3>1. at.i + 1 \in 0 .. MaxHeaders
        BY <2>2, <2>3, <2>4
      <3>2. Rank(next) = 2 * (at.i + 1) - 1
        BY <2>4, <3>1, RankFacts
      <3> HIDE DEF next
      <3>3. Rank(at) < Rank(next) /\ Rank(next) \in Int
        BY <2>2, <3>2
      <3>4. next.tok = "field" /\ next.i = at.i + 1
        BY <2>4 DEF Place
      <3> QED BY <2>4, <3>1, <3>3, <3>4 DEF NextOK
    <2>6. CASE /\ next = Place("value", at.i + 1) /\ Continues(at.i + 1)
               /\ at.i + 1 \in 1 .. Len(msg.headers)
      <3>1. at.i + 1 \in 0 .. MaxHeaders
        BY <2>2, <2>3, <2>6
      <3>2. Rank(next) = 2 * (at.i + 1)
        BY <2>6, <3>1, RankFacts
      <3> HIDE DEF next
      <3>3. Rank(at) < Rank(next) /\ Rank(next) \in Int
        BY <2>2, <3>2
      <3>4. next.tok = "value" /\ next.i = at.i + 1
        BY <2>6 DEF Place
      <3> QED BY <2>6, <3>1, <3>3, <3>4 DEF NextOK, Fold
    <2>5. CASE next = Place("complete", 0)
      <3>1. 0 \in 0 .. MaxHeaders
        BY <2>2
      <3>2. Rank(next) = 2 * MaxHeaders + 1
        BY <2>5, <3>1, RankFacts
      <3>3. at.i <= MaxHeaders
        BY <1>4, <2>2, <2>3
      <3>4. Rank(at) < Rank(next) /\ Rank(next) \in Int
        BY <2>2, <3>2, <3>3
      <3> HIDE DEF next
      <3>5. next.tok = "complete" /\ next.i = 0
        BY <2>5 DEF Place
      <3> QED BY <3>1, <3>4, <3>5 DEF NextOK
    <2> QED BY <2>1, <2>4, <2>5, <2>6
  <1>6. Whole(next) \/ CutAt(to)
    BY <1>1, <1>2, <1>4, ReportCases
  <1>7. TypeOK' /\ CutsInv' /\ EventsInv'
    BY <1>2, <1>3, <1>5, <1>6, TextAt, TextCuts, TextEvents
  <1>8. /\ IsSeq(fields') /\ IsSeq(values')
        /\ Len(values') = Len(values) + 1
        /\ Len(fields) \in Nat /\ Len(values) \in Nat
    BY <1>1, <1>2, <1>3, PushSeq, SeqFacts DEF PlaceInv, push_value
  <1>9. PlaceInv'
    BY <1>2, <1>3, <1>5, <1>6, <1>8, TextPlace
  <1>10. CountInv'
    <2>1. SentOK'
      BY <1>7, TypeParts DEF TypeOK, SentOK
    <2>2. CASE Whole(next) /\ ~Fold(next)
      <3>1. at.tok' # "value" /\ cuts' = cuts
        BY <1>5, <2>2, WholeSame DEF Whole
      <3>2. /\ Cardinality(Of(cuts, "value")) \in Nat
            /\ Cardinality(Of(cuts, "field")) \in Nat
        BY <1>2, OfFinite DEF CutsInv
      <3>3. Len(fields) + Cardinality(Of(cuts, "value"))
              = Len(values) + Cardinality(Of(cuts, "field")) + 1
        BY <1>2, <1>3, CountIs
      <3>a. fields' = fields
        BY <1>3
      <3>4. Len(fields') + Cardinality(Of(cuts', "value"))
              = Len(values') + Cardinality(Of(cuts', "field")) + 0
        BY <1>8, <3>a, <3>1, <3>2, <3>3
      <3> QED BY <1>7, <2>1, <3>1, <3>4, CountIsNext
    <2>4. CASE Whole(next) /\ Fold(next)
      <3>1. at.tok' = "value"
        BY <2>4, FoldIsValue DEF Whole
      <3>2. /\ Cardinality(Of(cuts, "value")) \in Nat
            /\ Cardinality(Of(cuts, "field")) \in Nat
            /\ Cardinality(Of(cuts', "value"))
                 = Cardinality(Of(cuts, "value")) + 1
            /\ Cardinality(Of(cuts', "field"))
                 = Cardinality(Of(cuts, "field")) + 0
        <4> HIDE DEF next
        <4> QED BY <1>2, <1>3, <1>5, <2>4, OfFinite, FoldCounts
                DEF Rest, NextOK, CutsInv
      <3>3. Len(fields) + Cardinality(Of(cuts, "value"))
              = Len(values) + Cardinality(Of(cuts, "field")) + 1
        BY <1>2, <1>3, CountIs
      <3>a. fields' = fields
        BY <1>3
      <3>4. Len(fields') + Cardinality(Of(cuts', "value"))
              = Len(values') + Cardinality(Of(cuts', "field")) + 1
        BY <1>8, <3>a, <3>1, <3>2, <3>3
      <3> QED BY <1>7, <2>1, <3>1, <3>4, CountIsNext
    <2>3. CASE CutAt(to)
      <3>1. at.tok' = "value"
        BY <1>3, <2>3 DEF CutAt
      <3>2. /\ Cardinality(Of(cuts, "value")) \in Nat
            /\ Cardinality(Of(cuts, "field")) \in Nat
            /\ Cardinality(Of(cuts', "value"))
                 = Cardinality(Of(cuts, "value")) + 1
            /\ Cardinality(Of(cuts', "field")) = Cardinality(Of(cuts, "field"))
        BY <1>2, <1>3, <2>3, CutCounts DEF Rest
      <3>3. Len(fields) + Cardinality(Of(cuts, "value"))
              = Len(values) + Cardinality(Of(cuts, "field")) + 1
        BY <1>2, <1>3, CountIs
      <3>a. fields' = fields
        BY <1>3
      <3>4. Len(fields') + Cardinality(Of(cuts', "value"))
              = Len(values') + Cardinality(Of(cuts', "field")) + 1
        BY <1>8, <3>a, <3>1, <3>2, <3>3
      <3> QED BY <1>7, <2>1, <3>1, <3>4, CountIsNext
    <2> QED BY <1>6, <2>2, <2>3, <2>4
  <1>11. UrlInv'
    BY <1>2, <1>3, <1>5, <1>6, UrlSame
  <1> QED BY <1>7, <1>9, <1>10, <1>11, Zenon DEF IInv

(* A packet begins or ends, or the parser gives up.                        *)
LEMMA FlagsOnly ==
  ASSUME IInv, exec' \in BOOLEAN, err' \in BOOLEAN,
         UNCHANGED <<alive, sent, at, off, refs, resFields, history>>
  PROVE  IInv'
  <1> USE DEF refs, resFields, history
  <1>1. TypeOK'
    BY DEF IInv, TypeOK, Continues, j, msg
  <1>2. PlaceInv'
    BY DEF IInv, PlaceInv, j, IsSeq
  <1>3. CutsInv'
    BY DEF IInv, CutsInv, Rank, j
  <1>4. CountInv'
    BY DEF IInv, CountInv, AllCuts, Cuts
  <1>5. UrlInv'
    BY DEF IInv, UrlInv, UrlWholeUnlessCut, LastCut, Cuts, j, msg
  <1>6. EventsInv'
    BY DEF IInv, EventsInv, EventsReachLatestHandler
  <1> QED BY <1>1, <1>2, <1>3, <1>4, <1>5, <1>6, Zenon DEF IInv

LEMMA OnPacket ==
  ASSUME IInv, execute \/ PacketEnds \/ ParseError
  PROVE  IInv'
  <1>1. exec' \in BOOLEAN /\ err' \in BOOLEAN
    BY TypeParts DEF IInv, Flags, execute, PacketEnds, ParseError
  <1>2. UNCHANGED <<alive, sent, at, off, refs, resFields, history>>
    BY DEF execute, PacketEnds, ParseError
  <1> QED BY <1>1, <1>2, FlagsOnly

LEMMA OnMessageBegin ==
  ASSUME IInv, on_message_begin
  PROVE  IInv'
  <1> USE DEF refs, resFields, history
  <1>1. /\ TypeOK /\ PlaceInv /\ CutsInv /\ CountInv /\ UrlInv /\ EventsInv
        /\ SentOK /\ AtOK
    BY IInvParts
  <1>2. PICK m \in Message : sent' = Append(sent, m)
    BY DEF on_message_begin
  <1>3. /\ alive /\ at.tok = "start" /\ at' = Place("url", 0)
        /\ UNCHANGED <<alive, exec, err, off, refs, resFields, history>>
    BY DEF on_message_begin, Parsing
  <1>4. /\ j \in Nat /\ j < MaxMessages /\ j' = j + 1 /\ msg' = m
        /\ sent' \in Seq(Message)
        /\ \A k \in 1 .. j : sent'[k] = sent[k]
    BY <1>1, <1>2, SentFacts, AppendProperties
       DEF on_message_begin, SentOK, j, msg
  <1>5. at.tok' = "url" /\ at.i' = 0 /\ off = 0 /\ off' = 0
    BY <1>1, <1>3, PlaceFacts, BoundsAssumption DEF AtOK
  <1>6. Len(got) = j /\ DOMAIN got = 1 .. j
    BY <1>1, <1>3, SeqFacts DEF PlaceInv
  <1>7. TypeOK'
    <2>1. SentOK'
      BY <1>4, BoundsAssumption DEF SentOK, j
    <2>2. AtOK'
      BY <1>5, BoundsAssumption DEF AtOK
    <2>3. Flags'
      BY <1>1, <1>3, TypeParts, Zenon DEF Flags
    <2>4. GotOK'
      BY <1>1, <1>3, <1>4, <1>6, TypeParts DEF GotOK, j
    <2> QED BY <2>1, <2>2, <2>3, <2>4, Zenon
               DEF TypeOK, Flags, SentOK, AtOK, GotOK
  <1>8. PlaceInv'
    BY <1>1, <1>3, <1>4, <1>5, <1>6 DEF PlaceInv, IsSeq
  <1>9. CutsInv'
    BY <1>1, <1>3, <1>4 DEF CutsInv, Rank
  <1>10. CountInv'
    <2>1. SentOK'
      BY <1>7, TypeParts DEF TypeOK, SentOK
    <2> QED BY <1>1, <1>3, <1>5, <1>9, <2>1, CountIs, CountIsNext
  <1>11. UrlInv'
    <2>1. LastCut(j + 1) = 0
      BY <1>1, <1>4, LastCutNone DEF CutsInv
    <2>2. LastCut(j)' = off'
      BY <1>3, <1>4, <1>5, <2>1 DEF LastCut, Cuts
    <2>3. \A k \in 1 .. j : LastCut(k)' = LastCut(k)
      BY <1>3 DEF LastCut, Cuts
    <2>4. UrlWholeUnlessCut'
      BY <1>1, <1>3, <1>4, <1>6, <2>3 DEF UrlInv, UrlWholeUnlessCut
    <2> QED BY <1>5, <2>2, <2>4 DEF UrlInv
  <1>12. EventsInv'
    BY <1>1, <1>3 DEF EventsInv, EventsReachLatestHandler
  <1> QED BY <1>7, <1>8, <1>9, <1>10, <1>11, <1>12, Zenon DEF IInv

(* Behind the headers there are no more cuts.                              *)
LEMMA BehindHeaders ==
  ASSUME IInv, at.tok \in {"complete", "body", "end"},
         at.tok' \in {"complete", "body", "end", "start"},
         at.i' = at.i \/ at.i' = 0,
         UNCHANGED <<sent, off, refs, cuts>>
  PROVE  SentOK' /\ AtOK' /\ CutsInv' /\ CountInv'
  <1> USE DEF refs
  <1>1. CutsInv /\ CountInv /\ SentOK /\ AtOK /\ j' = j
    BY IInvParts DEF j
  <1>2. SentOK'
    BY <1>1 DEF SentOK
  <1>3. AtOK' /\ off = 0
    <2>1. at.i \in 0 .. MaxHeaders
      BY <1>1, Zenon DEF AtOK
    <2>4. 0 \in 0 .. MaxHeaders
      BY BoundsAssumption
    <2>2. off \in 0 .. MaxLen /\ ~(off > 0)
      BY <1>1, Zenon DEF AtOK
    <2>3. off = 0
      BY <2>2, BoundsAssumption
    <2>5. at.i' \in 0 .. MaxHeaders /\ off' = off
      BY <2>1, <2>4
    <2>6. at.tok' \notin {"field", "value"} /\ ~(off' > 0)
      BY <2>2, <2>5
    <2>7. AtOK'
      BY <1>1, <2>5, <2>6, Zenon DEF AtOK
    <2> QED BY <2>3, <2>7
  <1>4. CutsInv'
    <2>1. Rank(at)' = Rank(at)
      BY DEF Rank
    <2>2. \A c \in cuts : c[1] = j => Rank(c[2]) < Rank(at)
      BY <1>1, <1>3 DEF CutsInv
    <2> QED BY <1>1, <2>1, <2>2 DEF CutsInv, Rank
  <1>5. at.tok # "value" /\ at.tok' # "value"
    OBVIOUS
  <1> QED BY <1>1, <1>2, <1>3, <1>4, <1>5, CountIs, CountIsNext

(* A request that sets a handler is the latest that set one.               *)
LEMMA LatestMore ==
  ASSUME NEW n \in Nat, NEW S \in SUBSET (1 .. n), NEW b \in BOOLEAN
  PROVE  Latest(S \cup (IF b THEN {n + 1} ELSE {}))
           = IF b THEN n + 1 ELSE Latest(S)
  <1>1. CASE b
    <2> DEFINE T == S \cup {n + 1}
    <2>1. n + 1 \in T /\ \A y \in T : y \in Nat /\ y <= n + 1
      OBVIOUS
    <2>2. Latest(T) = n + 1
      BY <2>1, LatestIs
    <2> QED BY <1>1, <2>2
  <1>2. CASE ~b
    <2>1. S \cup {} = S
      OBVIOUS
    <2> QED BY <1>2, <2>1
  <1> QED BY <1>1, <1>2

(* Without a new URL or a new cut, what is known of the URLs holds on.     *)
LEMMA UrlKept ==
  ASSUME UrlInv, at.tok' \notin {"url", "field", "value", "complete"},
         UNCHANGED <<sent, got, cuts>>
  PROVE  UrlInv'
  <1>1. UrlWholeUnlessCut'
    BY DEF UrlInv, UrlWholeUnlessCut, LastCut, Cuts
  <1> QED BY <1>1, Zenon DEF UrlInv

(* The lists of names and values differ in length: the process dies.       *)
LEMMA OnDeath ==
  ASSUME IInv, at.tok = "complete", Len(fields) # Len(values), alive' = FALSE,
         UNCHANGED <<exec, err, sent, at, off, refs, resFields, history>>
  PROVE  IInv'
  <1> USE DEF refs, resFields, history
  <1>1. TypeOK'
    BY DEF IInv, TypeOK, Continues, j, msg
  <1>2. PlaceInv'
    BY DEF IInv, PlaceInv, j, IsSeq
  <1>3. CutsInv'
    BY DEF IInv, CutsInv, Rank, j
  <1>4. CountInv'
    BY DEF IInv, CountInv, AllCuts, Cuts
  <1>5. UrlInv'
    BY DEF IInv, UrlInv, UrlWholeUnlessCut, LastCut, Cuts, j, msg
  <1>6. EventsInv'
    BY DEF IInv, EventsInv, EventsReachLatestHandler
  <1> QED BY <1>1, <1>2, <1>3, <1>4, <1>5, <1>6, Zenon DEF IInv

(* The handler runs: one more request, and perhaps new fields of res.      *)
LEMMA OnHandler ==
  ASSUME IInv, Parsing("complete"), Len(fields) = Len(values),
         NEW rec, rec.url = url, NEW data \in BOOLEAN, NEW end \in BOOLEAN,
         rec.data = data, rec.end = end,
         got' = Append(got, rec),
         onData' = IF data THEN j ELSE onData,
         onEnd' = IF end THEN j ELSE onEnd,
         at' = AfterHeaders,
         UNCHANGED <<alive, exec, err, sent, off, refs, dataTo, endTo, cuts>>
  PROVE  IInv'
  <1> USE DEF refs
  <1>1. /\ TypeOK /\ PlaceInv /\ CutsInv /\ CountInv /\ UrlInv /\ EventsInv
        /\ SentOK /\ AtOK
    BY IInvParts
  <1>2. at.tok = "complete" /\ alive
    BY DEF Parsing
  <1>3. at.tok' \in {"body", "end"} /\ at.i' = 0
    BY PlaceFacts DEF AfterHeaders
  <1>4. SentOK' /\ AtOK' /\ CutsInv' /\ CountInv'
    BY <1>2, <1>3, BehindHeaders
  <1>5. /\ j \in Nat /\ j' = j /\ j > 0 /\ Len(sent) = j
        /\ Len(got) = j - 1 /\ Len(got) \in Nat /\ DOMAIN got = 1 .. j - 1
    BY <1>1, <1>2, SentFacts, SeqFacts DEF PlaceInv, j
  <1>6. /\ IsSeq(got') /\ Len(got') = j /\ DOMAIN got' = 1 .. j
        /\ \A i \in 1 .. j - 1 : got'[i] = got[i]
        /\ got'[j] = rec
    BY <1>1, <1>5, AppendSeq, SeqFacts DEF PlaceInv
  <1>7. TypeOK'
    <2>1. Flags'
      BY <1>1, TypeParts, Zenon DEF Flags
    <2>2. onData \in 0 .. j - 1 /\ onEnd \in 0 .. j - 1
      BY <1>1, <1>5, TypeParts DEF GotOK
    <2>3. GotOK'
      BY <1>5, <1>6, <2>2 DEF GotOK
    <2> QED BY <1>4, <2>1, <2>3, Zenon DEF TypeOK, Flags, SentOK, AtOK, GotOK
  <1>8. PlaceInv'
    BY <1>1, <1>2, <1>3, <1>5, <1>6 DEF PlaceInv, IsSeq
  <1>9. UrlInv'
    <2>1. \A m : LastCut(m)' = LastCut(m)
      BY DEF LastCut, Cuts
    <2>2. url = Text(<<"url", j>>, LastCut(j), sent[j].url)
      BY <1>1, <1>2 DEF UrlInv, msg
    <2>3. ASSUME NEW m \in 1 .. j
          PROVE  got'[m].url = Text(<<"url", m>>, LastCut(m), sent[m].url)
      <3>1. CASE m = j
        BY <1>6, <2>2, <3>1
      <3>2. CASE m # j
        <4>1. m \in 1 .. j - 1
          BY <1>5, <3>2
        <4> QED BY <1>1, <1>5, <1>6, <4>1 DEF UrlInv, UrlWholeUnlessCut
      <3> QED BY <3>1, <3>2
    <2>4. UrlWholeUnlessCut'
      BY <1>6, <2>1, <2>3 DEF UrlWholeUnlessCut
    <2> QED BY <1>3, <2>4, Zenon DEF UrlInv
  <1>10. EventsInv'
    <2> DEFINE D == {m \in 1 .. j - 1 : got[m].data}
               E == {m \in 1 .. j - 1 : got[m].end}
    <2>1. /\ {m \in 1 .. j : got'[m].data}
               = D \cup (IF data THEN {(j - 1) + 1} ELSE {})
          /\ {m \in 1 .. j : got'[m].end}
               = E \cup (IF end THEN {(j - 1) + 1} ELSE {})
      BY <1>5, <1>6
    <2>2. /\ D \in SUBSET (1 .. j - 1) /\ E \in SUBSET (1 .. j - 1)
          /\ j - 1 \in Nat /\ (j - 1) + 1 = j
      BY <1>5
    <2>3. onData = Latest(D) /\ onEnd = Latest(E)
      BY <1>1, <1>5 DEF EventsInv
    <2> HIDE DEF D, E
    <2>a. /\ Latest(D \cup (IF data THEN {(j - 1) + 1} ELSE {}))
               = IF data THEN (j - 1) + 1 ELSE Latest(D)
          /\ Latest(E \cup (IF end THEN {(j - 1) + 1} ELSE {}))
               = IF end THEN (j - 1) + 1 ELSE Latest(E)
      BY <2>2, LatestMore, Zenon
    <2>4. /\ onData' = Latest({m \in 1 .. j : got'[m].data})
          /\ onEnd' = Latest({m \in 1 .. j : got'[m].end})
      BY <2>1, <2>2, <2>3, <2>a, Zenon
    <2>5. /\ dataTo[1] \in Nat /\ dataTo[1] <= j - 1
          /\ endTo[1] \in Nat /\ endTo[1] <= j - 1
          /\ dataTo[2] = Latest({m \in 1 .. dataTo[1] : got[m].data})
          /\ endTo[2] = Latest({m \in 1 .. endTo[1] : got[m].end})
      BY <1>1, <1>5 DEF EventsInv, EventsReachLatestHandler
    <2>6. /\ {m \in 1 .. dataTo[1] : got'[m].data}
               = {m \in 1 .. dataTo[1] : got[m].data}
          /\ {m \in 1 .. endTo[1] : got'[m].end}
               = {m \in 1 .. endTo[1] : got[m].end}
      BY <1>5, <1>6, <2>5
    <2>7. dataTo[1] <= j /\ endTo[1] <= j
      BY <1>5, <2>5
    <2>8. EventsReachLatestHandler'
      BY <1>6, <2>5, <2>6, <2>7 DEF EventsReachLatestHandler
    <2> QED BY <1>6, <2>4, <2>5, <2>8 DEF EventsInv
  <1> QED BY <1>4, <1>7, <1>8, <1>9, <1>10, Zenon DEF IInv

LEMMA OnHeadersComplete ==
  ASSUME IInv, on_headers_complete
  PROVE  IInv'
  <1>1. CASE Len(fields) # Len(values)
    BY <1>1, OnDeath DEF on_headers_complete, Parsing, resFields, history
  <1>2. CASE Len(fields) = Len(values)
    <2>1. PICK data \in BOOLEAN, end \in BOOLEAN :
            /\ got' = Append(got,
                 [url |-> url, headers |-> header_map(fields, values),
                  data |-> data, end |-> end])
            /\ onData' = IF data THEN j ELSE onData
            /\ onEnd' = IF end THEN j ELSE onEnd
            /\ at' = AfterHeaders
            /\ UNCHANGED alive
      BY <1>2 DEF on_headers_complete
    <2> DEFINE rec == [url |-> url, headers |-> header_map(fields, values),
                       data |-> data, end |-> end]
    <2>2. rec.url = url /\ rec.data = data /\ rec.end = end
      OBVIOUS
    <2>3. Parsing("complete")
          /\ UNCHANGED <<exec, err, sent, off, refs, dataTo, endTo, cuts>>
      BY DEF on_headers_complete
    <2>4. got' = Append(got, rec)
      BY <2>1
    <2> HIDE DEF rec
    <2> QED BY <1>2, <2>1, <2>2, <2>3, <2>4, OnHandler
  <1> QED BY <1>1, <1>2

(* The body and the end of a message come when its handler has run.        *)
LEMMA OnEvent ==
  ASSUME IInv, alive, at.tok \in {"body", "end"},
         at.tok' \in {"body", "end", "start"}, at.i' = at.i \/ at.i' = 0,
         exec' \in BOOLEAN,
         dataTo' \in {dataTo, <<j, onData>>}, endTo' \in {endTo, <<j, onEnd>>},
         UNCHANGED <<alive, err, sent, off, refs, resFields, got, cuts>>
  PROVE  IInv'
  <1> USE DEF refs, resFields
  <1>1. /\ TypeOK /\ PlaceInv /\ CutsInv /\ CountInv /\ UrlInv /\ EventsInv
        /\ SentOK /\ AtOK
    BY IInvParts
  <1>2. SentOK' /\ AtOK' /\ CutsInv' /\ CountInv'
    BY BehindHeaders
  <1>3. j \in Nat /\ j' = j /\ Len(got) = j
    BY <1>1, SentFacts DEF PlaceInv, j
  <1>4. TypeOK'
    <2>1. Flags' /\ GotOK'
      BY <1>1, TypeParts, Zenon DEF Flags, GotOK
    <2> QED BY <1>2, <2>1, Zenon DEF TypeOK, Flags, SentOK, AtOK, GotOK
  <1>5. PlaceInv'
    BY <1>1, <1>3 DEF PlaceInv, IsSeq
  <1>6. UrlInv'
    BY <1>1, UrlKept
  <1>7. EventsInv'
    <2>1. /\ onData = Latest({m \in 1 .. j : got[m].data})
          /\ onEnd = Latest({m \in 1 .. j : got[m].end})
      BY <1>1, <1>3 DEF EventsInv
    <2>2. /\ dataTo'[1] \in Nat /\ dataTo'[1] <= Len(got)
          /\ dataTo'[2] = Latest({m \in 1 .. dataTo'[1] : got[m].data})
      <3>1. CASE dataTo' = dataTo
        BY <1>1, <3>1 DEF EventsInv, EventsReachLatestHandler
      <3>2. CASE dataTo' = <<j, onData>>
        <4>1. dataTo'[1] = j /\ dataTo'[2] = onData
          BY <3>2
        <4>2. j <= Len(got)
          BY <1>3
        <4> QED BY <1>3, <2>1, <4>1, <4>2, Zenon
      <3> QED BY <3>1, <3>2
    <2>3. /\ endTo'[1] \in Nat /\ endTo'[1] <= Len(got)
          /\ endTo'[2] = Latest({m \in 1 .. endTo'[1] : got[m].end})
      <3>1. CASE endTo' = endTo
        BY <1>1, <3>1 DEF EventsInv, EventsReachLatestHandler
      <3>2. CASE endTo' = <<j, onEnd>>
        <4>1. endTo'[1] = j /\ endTo'[2] = onEnd
          BY <3>2
        <4>2. j <= Len(got)
          BY <1>3
        <4> QED BY <1>3, <2>1, <4>1, <4>2, Zenon
      <3> QED BY <3>1, <3>2
    <2> QED BY <1>1, <2>2, <2>3 DEF EventsInv, EventsReachLatestHandler
  <1> QED BY <1>2, <1>4, <1>5, <1>6, <1>7, Zenon DEF IInv

LEMMA OnBody ==
  ASSUME IInv, on_body
  PROVE  IInv'
  <1>1. exec' \in BOOLEAN
    BY TypeParts DEF IInv, Flags, on_body
  <1>2. at.tok' \in {"body", "end"} /\ (at.i' = at.i \/ at.i' = 0)
    <2>1. \/ at' = Place("end", 0)
          \/ at' = at /\ at.tok = "body"
      BY DEF on_body, Parsing
    <2> QED BY <2>1, PlaceFacts
  <1>3. dataTo' = <<j, onData>> /\ endTo' = endTo /\ alive /\ at.tok = "body"
    BY DEF on_body, Parsing, receiver
  <1> QED BY <1>1, <1>2, <1>3, OnEvent DEF on_body

LEMMA OnMessageComplete ==
  ASSUME IInv, on_message_complete
  PROVE  IInv'
  <1>1. exec' \in BOOLEAN
    BY DEF on_message_complete
  <1>2. at.tok' = "start" /\ at.i' = 0
    BY PlaceFacts DEF on_message_complete
  <1>3. dataTo' = dataTo /\ endTo' = <<j, onEnd>> /\ alive /\ at.tok = "end"
    BY DEF on_message_complete, Parsing, receiver
  <1> QED BY <1>1, <1>2, <1>3, OnEvent DEF on_message_complete

----------------------------------------------------------------------------
LEMMA InitInv == Init => IInv
  <1> SUFFICES ASSUME Init PROVE IInv
    OBVIOUS
  <1>1. /\ sent = <<>> /\ got = <<>> /\ cuts = {} /\ j = 0 /\ off = 0
        /\ Len(got) = 0 /\ Len(fields) = 0 /\ Len(values) = 0
        /\ at.tok = "start" /\ at.i = 0
    BY PlaceFacts DEF Init, j
  <1>2. IsSeq(got) /\ IsSeq(fields) /\ IsSeq(values)
    BY DEF Init, IsSeq
  <1>3. TypeOK
    <2>1. 0 \in 0 .. MaxHeaders /\ 0 \in 0 .. MaxLen /\ 0 <= MaxMessages
      BY BoundsAssumption
    <2>2. Flags
      BY DEF Init, Flags
    <2>b. SentOK
      BY <1>1, <2>1 DEF SentOK
    <2>c. ~(off > 0) /\ at.i \in 0 .. MaxHeaders /\ off \in 0 .. MaxLen
      BY <1>1, <2>1
    <2>d. AtOK
      BY <1>1, <2>c, Zenon DEF AtOK
    <2>3. GotOK
      BY <1>1 DEF Init, GotOK
    <2> QED BY <2>2, <2>b, <2>d, <2>3, TypeParts
  <1>4. PlaceInv
    BY <1>1, <1>2 DEF Init, PlaceInv
  <1>5. CutsInv
    BY <1>1, FS_EmptySet DEF CutsInv
  <1>6. CountInv
    <2>1. SentOK
      BY <1>3, TypeParts
    <2>2. Of(cuts, "value") = {} /\ Of(cuts, "field") = {}
      BY <1>1 DEF Of
    <2>3. Cardinality({}) = 0 /\ 0 + 0 = 0 + 0 + 0
      BY FS_EmptySet
    <2>4. at.tok # "value"
      BY <1>1
    <2> QED BY <1>1, <1>5, <2>1, <2>2, <2>3, <2>4, CountIs
  <1>7. UrlInv
    BY <1>1 DEF UrlInv, UrlWholeUnlessCut
  <1>8. EventsInv
    <2>1. Latest({}) = 0
      BY DEF Latest
    <2>2. /\ {m \in 1 .. 0 : got[m].data} = {}
          /\ {m \in 1 .. 0 : got[m].end} = {}
      OBVIOUS
    <2> QED BY <1>1, <2>1, <2>2
            DEF Init, EventsInv, EventsReachLatestHandler
  <1> QED BY <1>3, <1>4, <1>5, <1>6, <1>7, <1>8 DEF IInv

LEMMA StutterInv ==
  ASSUME IInv, UNCHANGED vars
  PROVE  IInv'
  <1>1. exec' \in BOOLEAN /\ err' \in BOOLEAN
    BY TypeParts DEF IInv, Flags, vars
  <1> QED BY <1>1, FlagsOnly DEF vars

(* The strengthening holds in every state of the program.                  *)
THEOREM Inductive == Spec => []IInv
  <1>1. IInv /\ [Next]_vars => IInv'
    BY OnPacket, OnMessageBegin, OnUrl, OnHeaderField, OnHeaderValue,
       OnHeadersComplete, OnBody, OnMessageComplete, StutterInv DEF Next
  <1> QED BY InitInv, <1>1, PTL DEF Spec

(* The variables keep to their types.                                      *)
THEOREM TypeCorrect == Spec => []TypeOK
  <1>1. IInv => TypeOK
    BY DEF IInv
  <1> QED BY Inductive, <1>1, PTL

(* A handler gets of its URL what came after the last packet boundary in   *)
(* it (set_url of Http.createParser overwrites what came before).          *)
THEOREM UrlsWhole == Spec => []UrlWholeUnlessCut
  <1>1. IInv => UrlWholeUnlessCut
    BY DEF IInv, UrlInv
  <1> QED BY Inductive, <1>1, PTL

(* List.fold_left2 raises, and the process dies, exactly when names and    *)
(* values were cut a different number of times, by the ends of packets or, *)
(* the values, by the ends of lines.                                       *)
THEOREM EvenCutsSurvive == Spec => []DiesOfUnevenCuts
  <1>1. IInv => DiesOfUnevenCuts
    <2> SUFFICES ASSUME IInv PROVE DiesOfUnevenCuts
      OBVIOUS
    <2>1. PlaceInv /\ CountInv /\ SentOK /\ CutsInv
      BY IInvParts
    <2>2. /\ Cardinality(AllCuts("field")) \in Nat
          /\ Cardinality(AllCuts("value")) \in Nat
      BY <2>1, AllCutsOf, OfFinite DEF CutsInv
    <2>3. /\ Len(fields) \in Nat /\ Len(values) \in Nat /\ j \in Nat
          /\ j = Len(sent)
      BY <2>1, SeqFacts, SentFacts DEF PlaceInv, j
    <2>4. at.tok # "value" => (EvenCuts <=> Len(fields) = Len(values))
      BY <2>1, <2>2, <2>3 DEF CountInv, EvenCuts
    <2>5. ~alive => ~EvenCuts /\ Len(got) < Len(sent)
      <3>1. ~alive => /\ at.tok = "complete" /\ Len(fields) # Len(values)
                      /\ Len(got) = j - 1
        BY <2>1 DEF PlaceInv
      <3> QED BY <2>3, <2>4, <3>1
    <2>6. at.tok \in {"body", "end"} => EvenCuts
      BY <2>1, <2>4 DEF PlaceInv
    <2> QED BY <2>5, <2>6 DEF DiesOfUnevenCuts
  <1> QED BY Inductive, <1>1, PTL

(* Body and end of a message reach the closures that Http.on set last for  *)
(* a request up to that message.                                           *)
THEOREM EventsLatest == Spec => []EventsReachLatestHandler
  <1>1. IInv => EventsReachLatestHandler
    BY DEF IInv, EventsInv
  <1> QED BY Inductive, <1>1, PTL

----------------------------------------------------------------------------
(* A nonempty set of numbers has a least element, and a greatest below a   *)
(* bound.                                                                  *)
LEMMA Least ==
  ASSUME NEW T \in SUBSET Nat, T # {}
  PROVE  \E x \in T : \A y \in T : x <= y
  <1> DEFINE R == OpToRel(<, Nat)
  <1>1. IsWellFoundedOn(R, Nat)
    BY NatLessThanWellFounded
  <1>2. \A x, y \in Nat : y < x => <<y, x>> \in R
    BY SMT DEF OpToRel
  <1> HIDE DEF R
  <1>3. PICK x \in T : \A y \in T : ~ (<<y, x>> \in R)
    BY <1>1, WFMin
  <1>4. \A y \in T : x \in Nat /\ y \in Nat /\ ~ (y < x)
    BY <1>2, <1>3
  <1> QED BY <1>4

LEMMA Greatest ==
  ASSUME NEW n \in Nat, NEW T \in SUBSET (1 .. n), T # {}
  PROVE  \E x \in T : \A y \in T : y <= x
  <1> DEFINE D == {n - x : x \in T}
  <1>1. D \in SUBSET Nat /\ D # {}
    <2>1. \A x \in T : n - x \in Nat
      OBVIOUS
    <2> QED BY <2>1
  <1>2. PICK d \in D : \A e \in D : d <= e
    BY <1>1, Least
  <1>3. PICK x \in T : d = n - x
    BY <1>2
  <1>4. ASSUME NEW y \in T PROVE y <= x
    <2>1. n - x <= n - y
      BY <1>2, <1>3
    <2>2. x \in Nat /\ y \in Nat
      OBVIOUS
    <2> QED BY <2>1, <2>2
  <1> QED BY <1>4

(* Of a nonempty set of places one comes first.                            *)
LEMMA FirstOne ==
  ASSUME NEW S \in SUBSET (Nat \X Nat), S # {}
  PROVE  \E p \in S : \A q \in S : Before(p, q)
  <1> DEFINE M == {p[1] : p \in S}
  <1>1. M \in SUBSET Nat /\ M # {}
    OBVIOUS
  <1>2. PICK m \in M : \A y \in M : m <= y
    BY <1>1, Least
  <1> DEFINE T == {p \in S : p[1] = m}
             I == {p[2] : p \in T}
  <1>3. I \in SUBSET Nat /\ I # {}
    BY <1>2
  <1>4. PICK i \in I : \A y \in I : i <= y
    BY <1>3, Least
  <1>5. PICK p \in T : p[2] = i
    BY <1>4
  <1>6. p \in S /\ p[1] = m
    BY <1>5
  <1>7. ASSUME NEW q \in S PROVE Before(p, q)
    <2>1. q[1] \in M /\ m <= q[1] /\ q[1] \in Nat /\ m \in Nat
      BY <1>1, <1>2
    <2>2. CASE q[1] = m
      <3>1. q[2] \in I
        BY <2>2
      <3>2. p[2] <= q[2]
        BY <1>4, <1>5, <3>1
      <3> QED BY <1>6, <2>2, <3>2 DEF Before
    <2>3. CASE q[1] # m
      <3>1. p[1] < q[1]
        BY <1>6, <2>1, <2>3
      <3> QED BY <3>1 DEF Before
    <2> QED BY <2>2, <2>3
  <1> QED BY <1>6, <1>7

(* And only one does.                                                      *)
LEMMA FirstIs ==
  ASSUME NEW S \in SUBSET (Nat \X Nat), NEW p \in S, \A q \in S : Before(p, q)
  PROVE  First(S) = p
  <1>1. ASSUME NEW r \in S, \A q \in S : Before(r, q) PROVE r = p
    <2>1. Before(r, p) /\ Before(p, r)
      BY <1>1
    <2>2. r[1] \in Nat /\ r[2] \in Nat /\ p[1] \in Nat /\ p[2] \in Nat
      OBVIOUS
    <2>3. r[1] = p[1] /\ r[2] = p[2]
      BY <2>1, <2>2 DEF Before
    <2>4. r = <<r[1], r[2]>> /\ p = <<p[1], p[2]>>
      OBVIOUS
    <2> QED BY <2>3, <2>4
  <1>2. (CHOOSE r \in S : \A q \in S : Before(r, q)) = p
    BY <1>1
  <1> QED BY <1>2 DEF First

----------------------------------------------------------------------------
(* One more header, behind all the others: its value is the first for its  *)
(* name if the name is new.                                                *)
LEMMA FirstValuesMore ==
  ASSUME NEW S \in SUBSET (Nat \X Nat), NEW p \in Nat \X Nat,
         \A q \in S : Before(q, p)
  PROVE  FirstValues(S \cup {p})
           = [g \in {NameAt(q) : q \in S} \cup {NameAt(p)} |->
                IF g \in {NameAt(q) : q \in S} THEN FirstValues(S)[g]
                ELSE ValueAt(p)]
  <1> DEFINE names == {NameAt(q) : q \in S}
             of(T, g) == {q \in T : NameAt(q) = g}
  <1>1. {NameAt(q) : q \in S \cup {p}} = names \cup {NameAt(p)}
    OBVIOUS
  <1>2. ASSUME NEW g \in names
        PROVE  First(of(S \cup {p}, g)) = First(of(S, g))
    <2>1. of(S, g) \in SUBSET (Nat \X Nat) /\ of(S, g) # {}
          /\ of(S \cup {p}, g) \in SUBSET (Nat \X Nat)
      OBVIOUS
    <2>2. PICK q \in of(S, g) : \A r \in of(S, g) : Before(q, r)
      BY <2>1, FirstOne
    <2>3. q \in of(S \cup {p}, g) /\ Before(q, p)
      OBVIOUS
    <2>4. \A r \in of(S \cup {p}, g) : r \in of(S, g) \/ r = p
      OBVIOUS
    <2> HIDE DEF of
    <2>5. \A r \in of(S \cup {p}, g) : Before(q, r)
      BY <2>2, <2>3, <2>4
    <2>6. First(of(S, g)) = q
      BY <2>1, <2>2, FirstIs
    <2>7. First(of(S \cup {p}, g)) = q
      BY <2>1, <2>3, <2>5, FirstIs
    <2> QED BY <2>6, <2>7
  <1>3. ASSUME NameAt(p) \notin names
        PROVE  First(of(S \cup {p}, NameAt(p))) = p
    <2>1. of(S \cup {p}, NameAt(p)) = {p}
      BY <1>3
    <2>2. Before(p, p)
      BY DEF Before
    <2> HIDE DEF of
    <2>3. \A q \in {p} : Before(p, q)
      BY <2>2
    <2>4. First({p}) = p
      BY <2>3, FirstIs
    <2> QED BY <2>1, <2>4
  <1>4. \A g \in names : FirstValues(S)[g] = ValueAt(First(of(S, g)))
    BY DEF FirstValues
  <1>5. FirstValues(S \cup {p})
          = [g \in names \cup {NameAt(p)} |->
               ValueAt(First(of(S \cup {p}, g)))]
    BY <1>1 DEF FirstValues
  <1>6. \A g \in names \cup {NameAt(p)} :
          ValueAt(First(of(S \cup {p}, g)))
            = IF g \in names THEN FirstValues(S)[g] ELSE ValueAt(p)
    <2> HIDE DEF names, of
    <2> QED BY <1>2, <1>3, <1>4
  <1> HIDE DEF of
  <1> QED BY <1>5, <1>6

LEMMA PushIs ==
  ASSUME NEW s, IsSeq(s), NEW e
  PROVE  /\ IsSeq(<<e>> \o s) /\ Len(<<e>> \o s) = Len(s) + 1
         /\ DOMAIN (<<e>> \o s) = 1 .. Len(s) + 1
         /\ (<<e>> \o s)[1] = e
         /\ \A i \in 1 .. Len(s) : (<<e>> \o s)[i + 1] = s[i]
  <1> DEFINE S == Range(s) \cup {e}
             t == <<e>> \o s
  <1>1. s \in Seq(S) /\ <<e>> \in Seq(S) /\ Len(<<e>>) = 1 /\ <<e>>[1] = e
    BY SeqMonotonic DEF IsSeq
  <1>2. Len(s) \in Nat
    BY SeqFacts
  <1>3. IsSeq(t) /\ Len(t) = Len(s) + 1
    BY PushSeq
  <1>4. DOMAIN t = 1 .. Len(s) + 1
    BY <1>3, SeqFacts
  <1>5. \A i \in 1 .. Len(s) + 1 :
          t[i] = IF i <= 1 THEN <<e>>[i] ELSE s[i - 1]
    BY <1>1, ConcatProperties
  <1>6. t[1] = e
    BY <1>1, <1>2, <1>5
  <1>7. ASSUME NEW i \in 1 .. Len(s) PROVE t[i + 1] = s[i]
    <2>1. i + 1 \in 1 .. Len(s) + 1 /\ ~ (i + 1 <= 1) /\ (i + 1) - 1 = i
      BY <1>2
    <2> HIDE DEF t
    <2> QED BY <1>5, <2>1
  <1> QED BY <1>3, <1>4, <1>6, <1>7

(* A pair more at the head of the lists: the value counts if the name is   *)
(* new.                                                                    *)
Grows(fs, vs, f, v) ==
  header_map(<<f>> \o fs, <<v>> \o vs)
    = [g \in Range(fs) \cup {f} |->
         IF g \in Range(fs) THEN header_map(fs, vs)[g] ELSE v]

LEMMA MapMore ==
  ASSUME NEW fs, IsSeq(fs), NEW vs, IsSeq(vs), Len(fs) = Len(vs), NEW f, NEW v
  PROVE  Grows(fs, vs, f, v)
  <1> DEFINE F == <<f>> \o fs
             V == <<v>> \o vs
             n == Len(fs)
             last(s, g, i) == s[i] = g /\ \A k \in i + 1 .. Len(s) : s[k] # g
             pos(s, g) == CHOOSE i \in DOMAIN s : last(s, g, i)
  <1>1. n \in Nat /\ DOMAIN fs = 1 .. n /\ DOMAIN vs = 1 .. n /\ Len(vs) = n
    BY SeqFacts
  <1>2. /\ IsSeq(F) /\ Len(F) = n + 1 /\ DOMAIN F = 1 .. n + 1
        /\ F[1] = f /\ \A i \in 1 .. n : F[i + 1] = fs[i]
    BY <1>1, PushIs
  <1>3. /\ V[1] = v /\ \A i \in 1 .. n : V[i + 1] = vs[i]
    BY <1>1, PushIs
  <1>4. Range(F) = Range(fs) \cup {f}
    <2> HIDE DEF F, n
    <2>1. \A i \in 1 .. n + 1 : i = 1 \/ (i - 1 \in 1 .. n /\ (i - 1) + 1 = i)
      BY <1>1
    <2>2. \A i \in 1 .. n + 1 : F[i] = f \/ \E k \in 1 .. n : F[i] = fs[k]
      BY <1>2, <2>1
    <2>3. \A k \in 1 .. n : k + 1 \in 1 .. n + 1 /\ 1 \in 1 .. n + 1
      BY <1>1
    <2>4. 1 \in 1 .. n + 1
      BY <1>1
    <2>5. \A x : x \in Range(F) <=> \E i \in 1 .. n + 1 : x = F[i]
      BY <1>2 DEF Range
    <2>6. \A x : x \in Range(fs) <=> \E i \in 1 .. n : x = fs[i]
      BY <1>1 DEF Range
    <2>7. \A x : x \in Range(F) => x \in Range(fs) \/ x = f
      BY <2>2, <2>5, <2>6
    <2>8. \A x : x \in Range(fs) => x \in Range(F)
      BY <1>2, <2>3, <2>5, <2>6
    <2>9. f \in Range(F)
      BY <1>2, <2>4, <2>5
    <2> QED BY <2>7, <2>8, <2>9
  <1>5. ASSUME NEW g \in Range(fs)
        PROVE  pos(fs, g) \in 1 .. n /\ pos(F, g) = pos(fs, g) + 1
    <2> DEFINE T == {i \in 1 .. n : fs[i] = g}
    <2>1. T # {} /\ T \in SUBSET (1 .. n)
      BY <1>1, <1>5 DEF Range
    <2>2. PICK x \in T : \A y \in T : y <= x
      <3> HIDE DEF T
      <3> QED BY <1>1, <2>1, Greatest
    <2> HIDE DEF n, F
    <2>3. x \in 1 .. n /\ last(fs, g, x)
      <3>1. ASSUME NEW k \in x + 1 .. Len(fs), fs[k] = g PROVE FALSE
        <4>1. k \in T /\ ~ (k <= x)
          BY <1>1, <3>1 DEF n
        <4> QED BY <2>2, <4>1
      <3> QED BY <3>1
    <2>4. ASSUME NEW i \in 1 .. n, last(fs, g, i) PROVE i = x
      <3>1. ~ (x \in i + 1 .. Len(fs)) /\ ~ (i \in x + 1 .. Len(fs))
        BY <2>3, <2>4
      <3>2. i \in Nat /\ x \in Nat /\ i <= n /\ x <= n /\ Len(fs) = n
        BY <1>1, <2>3 DEF n
      <3> QED BY <3>1, <3>2
    <2>5. pos(fs, g) = x
      BY <1>1, <2>3, <2>4
    <2>6. x + 1 \in 1 .. n + 1 /\ last(F, g, x + 1)
      <3>1. ASSUME NEW k \in (x + 1) + 1 .. n + 1 PROVE F[k] # g
        <4>1. k - 1 \in x + 1 .. n /\ k - 1 \in 1 .. n /\ (k - 1) + 1 = k
          BY <1>1, <2>3
        <4> QED BY <1>2, <2>3, <4>1 DEF n
      <3> QED BY <1>1, <1>2, <2>3, <3>1
    <2>7. ASSUME NEW i \in 1 .. n + 1, last(F, g, i) PROVE i = x + 1
      <3>1. ~ (x + 1 \in i + 1 .. Len(F)) /\ ~ (i \in (x + 1) + 1 .. Len(F))
        BY <2>6, <2>7
      <3>2. i \in Nat /\ x \in Nat /\ i <= n + 1 /\ x + 1 <= n + 1
            /\ n \in Nat /\ Len(F) = n + 1
        BY <1>1, <1>2, <2>3
      <3> QED BY <3>1, <3>2
    <2>8. pos(F, g) = x + 1
      BY <1>2, <2>6, <2>7
    <2> QED BY <2>3, <2>5, <2>8
  <1>6. ASSUME f \notin Range(fs) PROVE pos(F, f) = 1
    <2> HIDE DEF n, F
    <2>1. ASSUME NEW k \in 2 .. n + 1 PROVE F[k] # f
      <3>1. k - 1 \in 1 .. n /\ (k - 1) + 1 = k
        BY <1>1
      <3>2. fs[k - 1] \in Range(fs)
        BY <1>1, <3>1 DEF Range
      <3>3. F[k] = fs[k - 1]
        BY <1>2, <3>1
      <3> QED BY <1>6, <3>2, <3>3
    <2>2. 1 \in 1 .. n + 1 /\ last(F, f, 1)
      BY <1>1, <1>2, <2>1
    <2>3. \A i \in 1 .. n + 1 : last(F, f, i) => i = 1
      BY <1>1, <2>1
    <2> QED BY <1>2, <2>2, <2>3
  <1>7. header_map(F, V) = [g \in Range(F) |-> V[pos(F, g)]]
    BY DEF header_map
  <1>8. \A g \in Range(fs) : header_map(fs, vs)[g] = vs[pos(fs, g)]
    BY DEF header_map
  <1>9. \A g \in Range(F) :
          V[pos(F, g)] = IF g \in Range(fs) THEN header_map(fs, vs)[g] ELSE v
    <2> HIDE DEF F, V, n, pos
    <2> QED BY <1>3, <1>4, <1>5, <1>6, <1>8
  <1> HIDE DEF pos
  <1> QED BY <1>4, <1>7, <1>9 DEF Grows

(* What is behind the head of a list.                                      *)
LEMMA TailIs ==
  ASSUME NEW s, IsSeq(s), s # <<>>
  PROVE  /\ IsSeq(Tail(s)) /\ Len(Tail(s)) = Len(s) - 1
         /\ s = <<s[1]>> \o Tail(s)
  <1>1. s \in Seq(Range(s))
    BY DEF IsSeq
  <1>2. Tail(s) \in Seq(Range(s)) /\ Len(Tail(s)) = Len(s) - 1
    BY <1>1, HeadTailProperties
  <1>3. IsSeq(Tail(s))
    BY <1>2, RangeSeq DEF IsSeq
  <1>4. s = <<s[1]>> \o Tail(s)
    <2>1. Head(s) = s[1] /\ Head(s) \in Range(s)
      BY <1>1, HeadTailProperties
    <2> DEFINE t == <<s[1]>> \o Tail(s)
    <2>2. /\ IsSeq(t) /\ Len(t) = Len(Tail(s)) + 1
          /\ t[1] = s[1]
          /\ \A i \in 1 .. Len(Tail(s)) : t[i + 1] = Tail(s)[i]
          /\ DOMAIN t = 1 .. Len(Tail(s)) + 1
      BY <1>3, PushIs
    <2> HIDE DEF t
    <2>3. \A i \in 1 .. Len(Tail(s)) : Tail(s)[i] = s[i + 1]
      BY <1>1, HeadTailProperties
    <2>4. Len(s) \in Nat /\ Len(t) = Len(s) /\ DOMAIN s = 1 .. Len(s)
      BY <1>2, <2>2, SeqFacts
    <2>5. ASSUME NEW i \in 1 .. Len(s) PROVE t[i] = s[i]
      <3>1. CASE i = 1
        BY <2>2, <3>1
      <3>2. CASE i # 1
        <4>1. i - 1 \in 1 .. Len(Tail(s)) /\ (i - 1) + 1 = i
          BY <1>2, <2>4, <3>2
        <4> QED BY <2>2, <2>3, <4>1
      <3> QED BY <3>1, <3>2
    <2>6. t \in Seq(Range(t))
      BY <2>2 DEF IsSeq
    <2>7. t \in Seq(Range(s) \cup Range(t))
          /\ s \in Seq(Range(s) \cup Range(t))
      BY <1>1, <2>6, SeqMonotonic
    <2>8. t = s
      BY <2>4, <2>5, <2>7, SeqEqual
    <2> QED BY <2>8 DEF t
  <1> QED BY <1>2, <1>3, <1>4

LEMMA TailPush ==
  ASSUME NEW s, IsSeq(s), NEW e
  PROVE  Tail(<<e>> \o s) = s /\ <<e>> \o s # <<>>
  <1> DEFINE t == <<e>> \o s
  <1>1. /\ IsSeq(t) /\ Len(t) = Len(s) + 1 /\ t[1] = e
        /\ \A i \in 1 .. Len(s) : t[i + 1] = s[i]
    BY PushIs
  <1>2. Len(s) \in Nat
    BY SeqFacts
  <1> HIDE DEF t
  <1>3. t # <<>>
    BY <1>1, <1>2
  <1>a. IsSeq(Tail(t)) /\ Len(Tail(t)) = Len(t) - 1
    BY <1>1, <1>3, TailIs
  <1>4. IsSeq(Tail(t)) /\ Len(Tail(t)) = Len(s)
    BY <1>1, <1>2, <1>a
  <1>5. \A i \in 1 .. Len(s) : Tail(t)[i] = t[i + 1]
    BY <1>1, <1>3, <1>4, HeadTailProperties DEF IsSeq
  <1>6. \A i \in 1 .. Len(s) : Tail(t)[i] = s[i]
    BY <1>1, <1>5
  <1>7. /\ Tail(t) \in Seq(Range(Tail(t)) \cup Range(s))
        /\ s \in Seq(Range(Tail(t)) \cup Range(s))
    BY <1>4, SeqMonotonic DEF IsSeq
  <1>8. Tail(t) = s
    BY <1>4, <1>6, <1>7, SeqEqual
  <1> QED BY <1>3, <1>8 DEF t

----------------------------------------------------------------------------
(* Without a cut there is a value for every name that was reported.        *)
LEMMA Lengths ==
  ASSUME IInv, NoCuts(j)
  PROVE  Len(fields) = Len(values) + (IF at.tok = "value" THEN 1 ELSE 0)
  <1>1. SentOK /\ CutsInv /\ CountInv /\ PlaceInv
    BY IInvParts
  <1>2. \A c \in cuts : c[1] \in 1 .. j
    BY <1>1 DEF CutsInv
  <1>3. Of(cuts, "field") = {} /\ Of(cuts, "value") = {}
    BY <1>2 DEF Of, NoCuts, Cuts
  <1>4. Len(fields) \in Nat /\ Len(values) \in Nat
    BY <1>1, SeqFacts DEF PlaceInv
  <1>5. Cardinality({}) = 0
    BY FS_EmptySet
  <1> DEFINE n == IF at.tok = "value" THEN 1 ELSE 0
  <1>6. n \in Nat
    OBVIOUS
  <1>7. Len(fields) + Cardinality(Of(cuts, "value"))
          = Len(values) + Cardinality(Of(cuts, "field")) + n
    BY <1>1, CountIs, Zenon
  <1> HIDE DEF n
  <1>8. Len(fields) + 0 = Len(values) + 0 + n
    BY <1>3, <1>5, <1>7, Zenon
  <1>9. Len(fields) = Len(values) + n
    BY <1>4, <1>6, <1>8
  <1> QED BY <1>9 DEF n

LEMMA PairedIs ==
  ASSUME IInv, NoCuts(j), ListsInv
  PROVE  /\ IsSeq(Paired) /\ IsSeq(values) /\ Len(Paired) = Len(values)
         /\ at.tok = "value" =>
              fields = <<NameAt(<<j, at.i>>)>> \o Paired
  <1>1. IsSeq(fields) /\ IsSeq(values)
    BY IInvParts DEF PlaceInv
  <1>2. Len(fields) \in Nat /\ Len(values) \in Nat
    BY <1>1, SeqFacts
  <1>3. CASE at.tok = "value"
    <2>1. /\ fields # <<>> /\ fields[1] = NameAt(<<j, at.i>>)
          /\ Paired = Tail(fields)
      BY <1>3 DEF ListsInv, Paired
    <2>2. Len(fields) = Len(values) + 1
      BY <1>3, Lengths
    <2> QED BY <1>1, <1>2, <2>1, <2>2, TailIs
  <1>4. CASE at.tok # "value"
    <2>1. Paired = fields
      BY <1>4 DEF Paired
    <2>2. Len(fields) = Len(values)
      BY <1>2, <1>4, Lengths
    <2> QED BY <1>1, <1>4, <2>1, <2>2
  <1> QED BY <1>3, <1>4

(* What a handler was given holds on.                                      *)
LEMMA AccumulateKept ==
  ASSUME HeadersAccumulate, UNCHANGED <<sent, got>>,
         \A m \in DOMAIN got : NoCuts(m)' => NoCuts(m)
  PROVE  HeadersAccumulate'
  <1>1. ASSUME NEW m \in DOMAIN got', NoCuts(m)'
        PROVE  (got[m].headers = FirstValues(Places(m)))'
    <2>1. Places(m)' = Places(m)
      BY DEF Places
    <2>2. FirstValues(Places(m))' = FirstValues(Places(m))
      BY <2>1 DEF FirstValues, NameAt, ValueAt
    <2>3. got[m].headers = FirstValues(Places(m))
      BY <1>1 DEF HeadersAccumulate
    <2> QED BY <2>2, <2>3
  <1> QED BY <1>1 DEF HeadersAccumulate

(* What the lists hold changes only with the lists.                        *)
LEMMA Kept ==
  ASSUME HeadersInv, UNCHANGED <<sent, fields, values, got>>,
         \A x : /\ Cuts(x, "field")' = Cuts(x, "field")
                /\ Cuts(x, "value")' = Cuts(x, "value"),
         BegunIsCut',
         Reported' = Reported,
         at.tok = "value" \/ at.tok' = "value" => at' = at
  PROVE  HeadersInv'
  <1>1. j' = j /\ msg' = msg
    BY DEF j, msg
  <1>2. \A m : (NoCuts(m)' <=> NoCuts(m))
    BY DEF NoCuts
  <1>3. Seen' = Seen
    BY <1>1 DEF Seen, Places
  <1>4. ListsInv => ListsInv'
    <2>1. Paired' = Paired
      BY DEF Paired
    <2>2. FirstValues(Seen)' = FirstValues(Seen)
      BY <1>3 DEF FirstValues, NameAt, ValueAt
    <2>3. header_map(Paired, values)' = header_map(Paired, values)
      BY <2>1
    <2>4. ASSUME ListsInv, at.tok' = "value"
          PROVE  (fields # <<>> /\ fields[1] = NameAt(<<j, at.i>>))'
      BY <1>1, <2>4 DEF ListsInv, NameAt
    <2>5. ListsInv => header_map(Paired, values) = FirstValues(Seen)
      BY DEF ListsInv
    <2> QED BY <2>2, <2>3, <2>4, <2>5 DEF ListsInv
  <1>5. HeadersAccumulate'
    BY <1>2, AccumulateKept DEF HeadersInv
  <1>6. (NoCuts(j) => ListsInv)'
    <2>1. NoCuts(j)' => NoCuts(j)
      BY <1>1 DEF NoCuts
    <2> QED BY <1>4, <2>1 DEF HeadersInv
  <1> QED BY <1>5, <1>6 DEF HeadersInv

(* A packet that ends in a name or a value leaves a cut.                   *)
LEMMA KeptByCut ==
  ASSUME HeadersInv, SentOK, j > 0, at.tok \in {"field", "value"},
         NEW to, CutAt(to), UNCHANGED <<sent, got>>, DOMAIN got = 1 .. j - 1
  PROVE  HeadersInv'
  <1>1. j' = j /\ j \in Nat /\ at' = at
    BY SentFacts DEF j, CutAt
  <1>2. <<j, at, to>> \in cuts' /\ off' = to
    BY DEF CutAt
  <1> DEFINE new == <<j, at, to>>
  <1>3. new[1] = j /\ new[2] = at /\ new \in cuts'
    BY <1>2
  <1>4. ~ NoCuts(j)'
    <2> HIDE DEF new
    <2>1. j \in 1 .. j
      BY <1>1
    <2> QED BY <1>1, <1>3, <2>1 DEF NoCuts, Cuts
  <1>5. \A m \in 1 .. j - 1 : (NoCuts(m)' <=> NoCuts(m))
    <2> HIDE DEF new
    <2>1. \A x \in 1 .. j - 1 : /\ Cuts(x, "field")' = Cuts(x, "field")
                                /\ Cuts(x, "value")' = Cuts(x, "value")
      <3>1. cuts' = cuts \cup {new}
        BY DEF CutAt, new
      <3> QED BY <1>1, <1>3, <3>1 DEF Cuts
    <2> QED BY <1>1, <2>1 DEF NoCuts
  <1>6. HeadersAccumulate'
    BY <1>5, AccumulateKept DEF HeadersInv
  <1>7. BegunIsCut'
    BY <1>1, <1>2 DEF BegunIsCut
  <1> QED BY <1>4, <1>6, <1>7 DEF HeadersInv

(* So does a value that goes on on the next line.                          *)
LEMMA KeptByFold ==
  ASSUME HeadersInv, SentOK, j > 0, NEW next, Whole(next), Fold(next),
         UNCHANGED <<sent, got>>, DOMAIN got = 1 .. j - 1
  PROVE  HeadersInv'
  <1>1. j' = j /\ j \in Nat /\ at' = next /\ off' = 0
    BY SentFacts DEF j, Whole
  <1> DEFINE new == <<j, next, 0>>
  <1>2. /\ new[1] = j /\ new[2] = next /\ next.tok = "value"
        /\ cuts' = cuts \cup {new}
    BY FoldIsValue DEF Whole
  <1>3. BegunIsCut'
    BY <1>1, <1>2 DEF BegunIsCut
  <1> HIDE DEF new
  <1>4. ~ NoCuts(j)'
    <2>1. j \in 1 .. j
      BY <1>1
    <2> QED BY <1>1, <1>2, <2>1 DEF NoCuts, Cuts
  <1>5. \A m \in 1 .. j - 1 : (NoCuts(m)' <=> NoCuts(m))
    <2>1. \A x \in 1 .. j - 1 : /\ Cuts(x, "field")' = Cuts(x, "field")
                                /\ Cuts(x, "value")' = Cuts(x, "value")
      BY <1>1, <1>2 DEF Cuts
    <2> QED BY <1>1, <2>1 DEF NoCuts
  <1>6. HeadersAccumulate'
    BY <1>5, AccumulateKept DEF HeadersInv
  <1> QED BY <1>1, <1>3, <1>4, <1>6 DEF HeadersInv

----------------------------------------------------------------------------
(* One lemma for each action, again.                                       *)
LEMMA HeadersFlags ==
  ASSUME HeadersInv, UNCHANGED <<sent, at, off, refs, history>>
  PROVE  HeadersInv'
  <1> USE DEF refs, history
  <1>1. j' = j /\ msg' = msg
    BY DEF j, msg
  <1>2. Reported' = Reported
    BY <1>1 DEF Reported
  <1>3. \A x : /\ Cuts(x, "field")' = Cuts(x, "field")
               /\ Cuts(x, "value")' = Cuts(x, "value")
    BY DEF Cuts
  <1>4. BegunIsCut'
    BY <1>1 DEF HeadersInv, BegunIsCut, Fold, Continues
  <1> QED BY <1>2, <1>3, <1>4, Kept

LEMMA HeadersUrl ==
  ASSUME IInv, HeadersInv, on_url
  PROVE  HeadersInv'
  <1>1. PICK to \in off .. msg.url : /\ Report(msg.url, to, NextHeader(0))
                                     /\ set_url(Text(<<"url", j>>, off, to))
    BY DEF on_url
  <1>2. SentOK /\ AtOK /\ j > 0 /\ at.tok = "url"
    BY IInvParts DEF on_url, Parsing, PlaceInv
  <1>3. msg.url \in 0 .. MaxLen /\ Len(msg.headers) \in Nat /\ msg' = msg
    <2>1. msg.url \in 1 .. MaxLen /\ Len(msg.headers) \in Nat
      BY <1>2, HeaderFacts
    <2>2. msg' = msg
      BY DEF on_url, msg, j
    <2> QED BY <2>1, <2>2, BoundsAssumption
  <1> DEFINE next == NextHeader(0)
  <1>4. Whole(next) \/ CutAt(to)
    BY <1>1, <1>2, <1>3, ReportCases
  <1>5. UNCHANGED <<sent, fields, values, got>>
    BY DEF on_url
  <1>6. CASE Whole(next)
    <2>a. \/ next = Place("field", 0 + 1)
          \/ next = Place("complete", 0) /\ Len(msg.headers) = 0
      <3>1. 0 \in 0 .. Len(msg.headers)
        BY <1>3
      <3> QED BY <1>2, <3>1, NextHeaderFacts
    <2>1. /\ off' = 0 /\ cuts' = cuts /\ at' = next /\ next.tok # "value"
      <3>1. next.tok # "value"
        BY <2>a, PlaceFacts
      <3> QED BY <1>6, <3>1, WholeSame DEF Whole, Fold
    <2>2. at'.tok # "value" /\ Reported' = 0 /\ Reported = 0
      <3>2. Reported = 0
        BY <1>2 DEF Reported
      <3>3. CASE at' = Place("field", 0 + 1)
        BY <3>2, <3>3, PlaceFacts DEF Reported
      <3>4. CASE at' = Place("complete", 0) /\ Len(msg.headers) = 0
        BY <1>3, <3>2, <3>4, PlaceFacts DEF Reported
      <3> QED BY <2>1, <2>a, <3>3, <3>4
    <2>3. \A x : /\ Cuts(x, "field")' = Cuts(x, "field")
                 /\ Cuts(x, "value")' = Cuts(x, "value")
      BY <2>1 DEF Cuts
    <2>4. BegunIsCut'
      BY <2>1, <2>2 DEF BegunIsCut, Fold
    <2> QED BY <1>2, <1>5, <2>2, <2>3, <2>4, Kept
  <1>7. CASE CutAt(to)
    <2>1. at' = at /\ <<j, at', off'>> \in cuts'
      BY <1>7 DEF CutAt
    <2>2. Reported' = Reported
      BY <1>3, <2>1 DEF Reported
    <2> DEFINE new == <<j, at, to>>
    <2>3. new[2].tok = "url" /\ cuts' = cuts \cup {new}
      BY <1>2, <1>7 DEF CutAt
    <2> HIDE DEF new
    <2>4. \A x : /\ Cuts(x, "field")' = Cuts(x, "field")
                 /\ Cuts(x, "value")' = Cuts(x, "value")
      BY <2>3 DEF Cuts
    <2>5. BegunIsCut'
      BY <1>5, <2>1 DEF BegunIsCut, j
    <2> QED BY <1>2, <1>5, <2>1, <2>2, <2>4, <2>5, Kept
  <1> QED BY <1>4, <1>6, <1>7

(* Nothing was cut, so a text that is whole now was not begun before.      *)
LEMMA FromTheStart ==
  ASSUME SentOK, AtOK, HeadersInv, j > 0, at.tok \in {"field", "value"},
         NoCuts(j)
  PROVE  off = 0
  <1>1. off \in Nat /\ j \in 1 .. j
    BY SentFacts, BoundsAssumption DEF AtOK
  <1> DEFINE new == <<j, at, off>>
  <1>2. new[1] = j /\ new[2] = at
    OBVIOUS
  <1>3. off > 0 => new \in cuts
    BY DEF HeadersInv, BegunIsCut
  <1> HIDE DEF new
  <1>4. new \notin cuts
    BY <1>1, <1>2 DEF NoCuts, Cuts
  <1> QED BY <1>1, <1>3, <1>4

LEMMA HeadersField ==
  ASSUME IInv, HeadersInv, on_header_field
  PROVE  HeadersInv'
  <1>1. PICK to \in off .. MaxLen :
          /\ Report(MaxLen, to, Place("value", at.i))
          /\ push_field(Text(msg.headers[at.i].name, off, to))
    BY DEF on_header_field
  <1>2. /\ SentOK /\ AtOK /\ j > 0 /\ at.tok = "field" /\ IsSeq(fields)
        /\ DOMAIN got = 1 .. j - 1
    BY IInvParts, SeqFacts DEF on_header_field, Parsing, PlaceInv
  <1>3. MaxLen \in 0 .. MaxLen
    BY BoundsAssumption
  <1>4. (Whole(Place("value", at.i)) /\ to = MaxLen) \/ CutAt(to)
    BY <1>1, <1>2, <1>3, ReportCases
  <1>5. UNCHANGED <<sent, values, got>>
    BY DEF on_header_field
  <1>6. CASE Whole(Place("value", at.i)) /\ to = MaxLen
    <2>a. ~Continues(at.i)
      BY <1>2 DEF AtOK
    <2>b. ~Fold(Place("value", at.i))
      BY <2>a, PlaceFacts DEF Fold
    <2>1. /\ off' = 0 /\ cuts' = cuts
          /\ at'.tok = "value" /\ at'.i = at.i
      BY <1>6, <2>b, PlaceFacts, WholeSame DEF Whole
    <2>2. j' = j /\ msg' = msg
      BY <1>5 DEF j, msg
    <2>3. HeadersAccumulate'
      BY <1>5, <2>1, AccumulateKept DEF HeadersInv, NoCuts, Cuts
    <2>4. ASSUME NoCuts(j)' PROVE ListsInv'
      <3>1. NoCuts(j) /\ ListsInv
        BY <2>1, <2>2, <2>4 DEF NoCuts, Cuts, HeadersInv
      <3>2. off = 0
        BY <1>2, <3>1, FromTheStart
      <3> DEFINE p == <<j, at.i>>
      <3>3. fields' = <<NameAt(p)>> \o fields
        BY <1>1, <1>6, <3>2 DEF push_field, NameAt, msg
      <3>4. NameAt(p)' = NameAt(p)
        BY <1>5, <2>1, <2>2 DEF NameAt
      <3>5. p' = <<j, at.i>>'
        OBVIOUS
      <3> HIDE DEF p
      <3>6. fields' # <<>> /\ fields'[1] = NameAt(p)' /\ Tail(fields') = fields
        BY <1>2, <3>3, <3>4, TailPush, PushIs
      <3>7. Paired' = Paired
        BY <1>2, <2>1, <3>6 DEF Paired
      <3>8. Seen' = Seen
        <4>1. Reported' = Reported
          BY <1>2, <2>1 DEF Reported
        <4> QED BY <1>5, <2>2, <4>1 DEF Seen, Places
      <3>9. FirstValues(Seen)' = FirstValues(Seen)
        BY <1>5, <3>8 DEF FirstValues, NameAt, ValueAt
      <3>10. header_map(Paired, values)' = FirstValues(Seen)'
        BY <1>5, <3>1, <3>7, <3>9 DEF ListsInv
      <3> QED BY <3>6, <3>10 DEF ListsInv, p
    <2>5. BegunIsCut'
      BY <2>1, <2>2, <2>a DEF BegunIsCut, Fold, Continues
    <2> QED BY <2>3, <2>4, <2>5 DEF HeadersInv
  <1>7. CASE CutAt(to)
    BY <1>2, <1>5, <1>7, KeptByCut
  <1> QED BY <1>4, <1>6, <1>7

(* The places of what was reported lie before the parser.                  *)
LEMMA SeenMore ==
  ASSUME SentOK, j > 0, at.i \in 1 .. Len(msg.headers)
  PROVE  LET p == <<j, at.i>>
             S == {q \in Places(j) : q[1] = j => q[2] <= at.i - 1}
         IN  /\ p \in Nat \X Nat /\ S \in SUBSET (Nat \X Nat)
             /\ \A q \in S : Before(q, p)
             /\ {q \in Places(j) : q[1] = j => q[2] <= at.i} = S \cup {p}
  <1> DEFINE p == <<j, at.i>>
             S == {q \in Places(j) : q[1] = j => q[2] <= at.i - 1}
             T == {q \in Places(j) : q[1] = j => q[2] <= at.i}
  <1>1. /\ j \in Nat /\ at.i \in Nat /\ MaxHeaders \in Nat
        /\ at.i <= MaxHeaders
    BY SentFacts, HeaderFacts
  <1>2. p[1] = j /\ p[2] = at.i /\ p \in (1 .. j) \X (1 .. MaxHeaders)
    BY <1>1
  <1>3. p \in Places(j)
    BY <1>2 DEF Places, msg
  <1>4. \A q \in Places(j) :
          /\ q \in Nat \X Nat /\ q[1] \in Nat /\ q[2] \in Nat
          /\ q[1] <= j /\ q = <<q[1], q[2]>>
    BY <1>1 DEF Places
  <1>5. \A q \in S : Before(q, p)
    BY <1>1, <1>2, <1>4 DEF Before
  <1>6. \A q : q \in T <=> q \in S \cup {p}
    <2>1. ASSUME NEW q \in T PROVE q \in S \cup {p}
      <3>1. CASE q[1] = j /\ q[2] = at.i
        BY <1>4, <2>1, <3>1
      <3>2. CASE ~ (q[1] = j /\ q[2] = at.i)
        BY <1>1, <1>4, <2>1, <3>2
      <3> QED BY <3>1, <3>2
    <2>2. ASSUME NEW q \in S PROVE q \in T
      BY <1>1, <1>4, <2>2
    <2>3. p \in T
      BY <1>1, <1>2, <1>3
    <2> QED BY <2>1, <2>2, <2>3
  <1>7. T = S \cup {p}
    <2> HIDE DEF T, S, p
    <2> QED BY <1>6
  <1>8. S \in SUBSET (Nat \X Nat)
    BY <1>4
  <1>9. p \in Nat \X Nat
    BY <1>1
  <1> HIDE DEF T, S, p
  <1>10. /\ p \in Nat \X Nat /\ S \in SUBSET (Nat \X Nat)
         /\ \A q \in S : Before(q, p)
         /\ T = S \cup {p}
    BY <1>5, <1>7, <1>8, <1>9
  <1> QED BY <1>10, Zenon DEF T, S, p

LEMMA HeadersValue ==
  ASSUME IInv, HeadersInv, on_header_value
  PROVE  HeadersInv'
  <1> DEFINE len == msg.headers[at.i].len
             next == NextHeader(at.i)
             p == <<j, at.i>>
  <1>1. PICK to \in off .. len :
          /\ Report(len, to, next)
          /\ push_value(Text(<<"value", j, at.i>>, off, to))
    BY DEF on_header_value
  <1>2. /\ SentOK /\ AtOK /\ j > 0 /\ at.tok = "value"
        /\ IsSeq(fields) /\ IsSeq(values) /\ DOMAIN got = 1 .. j - 1
    BY IInvParts, SeqFacts DEF on_header_value, Parsing, PlaceInv
  <1>3. /\ at.i \in 1 .. Len(msg.headers) /\ len \in 0 .. MaxLen
        /\ Len(msg.headers) \in Nat
    <2>1. at.i \in 1 .. Len(msg.headers)
      BY <1>2 DEF AtOK
    <2> QED BY <1>2, <2>1, HeaderFacts
  <1>4. (Whole(next) /\ to = len) \/ CutAt(to)
    BY <1>1, <1>2, <1>3, ReportCases
  <1>5. UNCHANGED <<sent, fields, got>>
    BY DEF on_header_value
  <1>8. CASE Whole(next) /\ Fold(next)
    <2> HIDE DEF next
    <2> QED BY <1>2, <1>5, <1>8, KeptByFold
  <1>6. CASE Whole(next) /\ to = len /\ ~Fold(next)
    <2>1. /\ off' = 0 /\ cuts' = cuts /\ at' = next
      BY <1>6, WholeSame DEF Whole
    <2>2. j' = j /\ msg' = msg
      BY <1>5 DEF j, msg
    <2>3. HeadersAccumulate'
      BY <1>5, <2>1, AccumulateKept DEF HeadersInv, NoCuts, Cuts
    <2>4. at'.tok # "value" /\ Reported' = at.i
      <3>1. \/ at' = Place("field", at.i + 1)
            \/ at' = Place("complete", 0) /\ Len(msg.headers) = at.i
        <4>1. at.i \in 0 .. Len(msg.headers)
          BY <1>3
        <4> QED BY <1>2, <1>6, <2>1, <4>1, NextHeaderFacts, PlaceFacts DEF Fold
      <3>2. CASE at' = Place("field", at.i + 1)
        BY <1>3, <3>2, PlaceFacts DEF Reported
      <3>3. CASE at' = Place("complete", 0) /\ Len(msg.headers) = at.i
        BY <2>2, <3>3, PlaceFacts DEF Reported
      <3> QED BY <3>1, <3>2, <3>3
    <2>5. ASSUME NoCuts(j)' PROVE ListsInv'
      <3>1. NoCuts(j) /\ ListsInv
        BY <2>1, <2>2, <2>5 DEF NoCuts, Cuts, HeadersInv
      <3>2. off = 0
        BY <1>2, <3>1, FromTheStart
      <3>3. values' = <<ValueAt(p)>> \o values
        <4>1. p[1] = j /\ p[2] = at.i
          OBVIOUS
        <4>2. ValueAt(p) = Text(<<"value", j, at.i>>, 0, len)
          BY <4>1 DEF ValueAt, msg
        <4> QED BY <1>1, <1>6, <3>2, <4>2 DEF push_value
      <3>4. /\ IsSeq(Paired) /\ Len(Paired) = Len(values)
            /\ fields = <<NameAt(p)>> \o Paired
        BY <1>2, <3>1, PairedIs
      <3>5. Paired' = fields
        BY <1>5, <2>4 DEF Paired
      <3> DEFINE m == header_map(Paired, values)
      <3>6. header_map(Paired, values)'
              = [g \in Range(Paired) \cup {NameAt(p)} |->
                   IF g \in Range(Paired) THEN m[g] ELSE ValueAt(p)]
        <4>1. header_map(Paired, values)'
                = header_map(<<NameAt(p)>> \o Paired, <<ValueAt(p)>> \o values)
          BY <3>3, <3>4, <3>5
        <4>2. Grows(Paired, values, NameAt(p), ValueAt(p))
          BY <1>2, <3>4, MapMore
        <4> QED BY <4>1, <4>2 DEF Grows
      <3> DEFINE S == {q \in Places(j) : q[1] = j => q[2] <= at.i - 1}
      <3>7. Seen = S
        BY <1>2 DEF Seen, Reported
      <3>8. Seen' = {q \in Places(j) : q[1] = j => q[2] <= at.i}
        <4>1. Places(j)' = Places(j)
          BY <1>5, <2>2 DEF Places
        <4> QED BY <2>2, <2>4, <4>1 DEF Seen
      <3>9. /\ p \in Nat \X Nat /\ S \in SUBSET (Nat \X Nat)
            /\ \A q \in S : Before(q, p)
            /\ Seen' = S \cup {p}
        BY <1>2, <1>3, <3>8, SeenMore
      <3>10. m = FirstValues(S)
        BY <3>1, <3>7 DEF ListsInv
      <3>11. Range(Paired) = {NameAt(q) : q \in S}
        <4>1. DOMAIN m = Range(Paired)
          BY DEF header_map
        <4>2. DOMAIN FirstValues(S) = {NameAt(q) : q \in S}
          BY DEF FirstValues
        <4> QED BY <3>10, <4>1, <4>2
      <3> HIDE DEF p, S, m
      <3>12. FirstValues(S \cup {p})
               = [g \in {NameAt(q) : q \in S} \cup {NameAt(p)} |->
                    IF g \in {NameAt(q) : q \in S} THEN FirstValues(S)[g]
                    ELSE ValueAt(p)]
        BY <3>9, FirstValuesMore
      <3>13. header_map(Paired, values)' = FirstValues(S \cup {p})
        BY <3>6, <3>10, <3>11, <3>12
      <3>14. FirstValues(Seen)' = FirstValues(S \cup {p})
        BY <1>5, <3>9 DEF FirstValues, NameAt, ValueAt
      <3> QED BY <2>4, <3>13, <3>14 DEF ListsInv
    <2>6. BegunIsCut'
      BY <2>1, <2>4 DEF BegunIsCut, Fold
    <2> QED BY <2>3, <2>5, <2>6 DEF HeadersInv
  <1>7. CASE CutAt(to)
    BY <1>2, <1>5, <1>7, KeptByCut
  <1> QED BY <1>4, <1>6, <1>7, <1>8

LEMMA HeadersBegin ==
  ASSUME IInv, HeadersInv, on_message_begin
  PROVE  HeadersInv'
  <1> USE DEF refs, history
  <1>1. SentOK /\ AtOK /\ CutsInv /\ PlaceInv
    BY IInvParts
  <1>2. PICK m \in Message : sent' = Append(sent, m)
    BY DEF on_message_begin
  <1>3. /\ at.tok = "start" /\ at'.tok = "url"
        /\ UNCHANGED <<off, fields, values, got, cuts>>
    BY PlaceFacts DEF on_message_begin, Parsing
  <1>4. /\ j \in Nat /\ j' = j + 1 /\ DOMAIN got = 1 .. j
        /\ \A k \in 1 .. j : sent'[k] = sent[k]
    <2>1. DOMAIN got = 1 .. j
      BY <1>1, <1>3, SeqFacts DEF PlaceInv
    <2> QED BY <1>1, <1>2, <2>1, SentFacts, AppendProperties DEF SentOK, j
  <1>5. \A n : (NoCuts(n)' <=> NoCuts(n))
    BY <1>3 DEF NoCuts, Cuts
  <1>6. ASSUME NEW n \in 0 .. j
        PROVE  Places(n)' = Places(n) /\ Places(n) \in SUBSET (Nat \X Nat)
    BY <1>4 DEF Places
  <1>7. ASSUME NEW n \in 0 .. j
        PROVE  FirstValues(Places(n))' = FirstValues(Places(n))
    <2> DEFINE S == Places(n)
               of(g) == {p \in S : NameAt(p) = g}
               value(p) == Text(<<"value", p[1], p[2]>>, 0,
                                sent'[p[1]].headers[p[2]].len)
    <2>1. \A p \in S : p[1] \in 1 .. j
      BY <1>4 DEF Places
    <2>2. \A p \in S : sent'[p[1]] = sent[p[1]]
      BY <1>4, <2>1
    <2>3. \A p \in S : NameAt(p)' = NameAt(p) /\ value(p) = ValueAt(p)
      BY <2>2 DEF NameAt, ValueAt
    <2>4. S' = S /\ S \in SUBSET (Nat \X Nat)
      BY <1>6
    <2>5. ASSUME NEW p \in S PROVE First(of(NameAt(p))) \in S
      <3>1. of(NameAt(p)) # {} /\ of(NameAt(p)) \in SUBSET (Nat \X Nat)
        BY <2>4
      <3>2. PICK q \in of(NameAt(p)) : \A r \in of(NameAt(p)) : Before(q, r)
        BY <3>1, FirstOne
      <3>3. q \in S
        OBVIOUS
      <3> HIDE DEF of
      <3> QED BY <3>1, <3>2, <3>3, FirstIs
    <2>6. FirstValues(S)'
            = [g \in {NameAt(p)' : p \in S} |->
                 value(First({p \in S : NameAt(p)' = g}))]
      BY <2>4 DEF FirstValues, ValueAt
    <2>7. FirstValues(S)
            = [g \in {NameAt(p) : p \in S} |-> ValueAt(First(of(g)))]
      BY DEF FirstValues
    <2>8. \A g : {p \in S : NameAt(p)' = g} = of(g)
      BY <2>3
    <2>9. {NameAt(p)' : p \in S} = {NameAt(p) : p \in S}
      BY <2>3
    <2>10. \A g \in {NameAt(p) : p \in S} :
             value(First(of(g))) = ValueAt(First(of(g)))
      BY <2>3, <2>5
    <2> QED BY <2>6, <2>7, <2>8, <2>9, <2>10
  <1>8. HeadersAccumulate'
    <2>1. ASSUME NEW n \in DOMAIN got', NoCuts(n)'
          PROVE  (got[n].headers = FirstValues(Places(n)))'
      <3>1. n \in 0 .. j
        BY <1>3, <1>4
      <3>2. got[n].headers = FirstValues(Places(n))
        BY <1>3, <1>5, <2>1 DEF HeadersInv, HeadersAccumulate
      <3> QED BY <1>3, <1>7, <3>1, <3>2
    <2> QED BY <2>1 DEF HeadersAccumulate
  <1>9. ASSUME NoCuts(j)' PROVE ListsInv'
    <2>1. NoCuts(j) /\ ListsInv
      <3>1. NoCuts(j)
        BY <1>3, <1>4, <1>9 DEF NoCuts, Cuts
      <3> QED BY <3>1 DEF HeadersInv
    <2>2. Seen = Places(j)
      BY <1>3, <1>4 DEF Seen, Places, Reported, msg
    <2>3. Seen' = Places(j)
      <3>1. Reported' = 0
        BY <1>3 DEF Reported
      <3>2. \A p : p \in Seen' <=>
              /\ p \in (1 .. j + 1) \X (1 .. MaxHeaders)
              /\ p[2] <= Len(sent'[p[1]].headers)
              /\ p[1] = j + 1 => p[2] <= 0
        BY <1>4, <3>1 DEF Seen, Places
      <3>3. \A p : p \in Places(j) <=>
              /\ p \in (1 .. j) \X (1 .. MaxHeaders)
              /\ p[2] <= Len(sent[p[1]].headers)
        BY DEF Places
      <3>4. \A p \in (1 .. j + 1) \X (1 .. MaxHeaders) :
              /\ ~ (p[2] <= 0)
              /\ p[1] # j + 1 => p \in (1 .. j) \X (1 .. MaxHeaders)
        BY <1>4, BoundsAssumption
      <3>5. \A p \in (1 .. j) \X (1 .. MaxHeaders) :
              /\ p[1] \in 1 .. j /\ p[1] # j + 1
              /\ p \in (1 .. j + 1) \X (1 .. MaxHeaders)
        BY <1>4
      <3> QED BY <1>4, <3>2, <3>3, <3>4, <3>5
    <2>4. PICK n \in 0 .. j : n = j
      BY <1>4
    <2>5. FirstValues(Seen)' = FirstValues(Seen)
      <3>1. Seen' = Places(n)' /\ Seen = Places(n)
        BY <1>6, <2>2, <2>3, <2>4
      <3>2. FirstValues(Seen)' = FirstValues(Places(n))'
        BY <3>1 DEF FirstValues, NameAt, ValueAt
      <3> QED BY <1>7, <3>1, <3>2
    <2>6. Paired' = fields /\ Paired = fields
      BY <1>3 DEF Paired
    <2> QED BY <1>3, <2>1, <2>5, <2>6 DEF ListsInv
  <1>10. BegunIsCut'
    <2>1. off = 0
      BY <1>1, <1>3, BoundsAssumption DEF AtOK
    <2> QED BY <1>3, <2>1 DEF BegunIsCut, Fold
  <1> QED BY <1>8, <1>9, <1>10 DEF HeadersInv

LEMMA HeadersHandler ==
  ASSUME IInv, HeadersInv, on_headers_complete
  PROVE  HeadersInv'
  <1> USE DEF refs, resFields, history
  <1>1. CASE Len(fields) # Len(values)
    BY <1>1, HeadersFlags DEF on_headers_complete
  <1>2. CASE Len(fields) = Len(values)
    <2>1. PICK data \in BOOLEAN, end \in BOOLEAN :
            /\ got' = Append(got,
                 [url |-> url, headers |-> header_map(fields, values),
                  data |-> data, end |-> end])
            /\ at' = AfterHeaders
      BY <1>2 DEF on_headers_complete
    <2> DEFINE rec == [url |-> url, headers |-> header_map(fields, values),
                       data |-> data, end |-> end]
    <2>2. rec.headers = header_map(fields, values) /\ got' = Append(got, rec)
      BY <2>1
    <2> HIDE DEF rec
    <2>3. /\ SentOK /\ AtOK /\ PlaceInv /\ at.tok = "complete"
          /\ UNCHANGED <<sent, off, fields, values, cuts>>
          /\ at'.tok \in {"body", "end"}
      BY <2>1, IInvParts, PlaceFacts
         DEF on_headers_complete, Parsing, AfterHeaders
    <2>4. /\ j \in Nat /\ j' = j /\ j > 0 /\ msg' = msg
          /\ Len(got) = j - 1 /\ IsSeq(got)
      BY <2>3, SentFacts DEF PlaceInv, j, msg
    <2>5. /\ DOMAIN got = 1 .. j - 1 /\ DOMAIN got' = 1 .. j
          /\ \A i \in 1 .. j - 1 : got'[i] = got[i]
          /\ got'[j] = rec
      BY <2>2, <2>4, AppendSeq, SeqFacts
    <2>6. \A n : /\ (NoCuts(n)' <=> NoCuts(n)) /\ Places(n)' = Places(n)
      BY <2>3 DEF NoCuts, Cuts, Places
    <2>7. Seen = Places(j) /\ Seen' = Places(j)
      <3>1. Reported = Len(msg.headers) /\ Reported' = Len(msg.headers)
        BY <2>3, <2>4 DEF Reported
      <3>2. Seen = Places(j)
        BY <3>1 DEF Seen, Places, msg
      <3>3. Seen' = Seen
        BY <2>3, <2>4, <3>1 DEF Seen, Places
      <3> QED BY <3>2, <3>3
    <2>8. Paired = fields /\ Paired' = fields
      BY <2>3 DEF Paired
    <2>10. ASSUME NEW n \in 1 .. j, NoCuts(n)
           PROVE  got'[n].headers = FirstValues(Places(n))
      <3>1. CASE n = j
        <4>1. header_map(fields, values) = FirstValues(Places(n))
          BY <2>7, <2>8, <2>10, <3>1 DEF HeadersInv, ListsInv
        <4> QED BY <2>2, <2>5, <3>1, <4>1
      <3>2. CASE n # j
        <4>1. n \in 1 .. j - 1
          BY <2>4, <3>2
        <4> QED BY <2>5, <2>10, <4>1 DEF HeadersInv, HeadersAccumulate
      <3> QED BY <3>1, <3>2
    <2>11. HeadersAccumulate'
      <3>1. ASSUME NEW n \in DOMAIN got', NoCuts(n)'
            PROVE  (got[n].headers = FirstValues(Places(n)))'
        <4>1. FirstValues(Places(n))' = FirstValues(Places(n))
          BY <2>3, <2>6 DEF FirstValues, NameAt, ValueAt
        <4> QED BY <2>5, <2>6, <2>10, <3>1, <4>1
      <3> QED BY <3>1 DEF HeadersAccumulate
    <2>12. ASSUME NoCuts(j)' PROVE ListsInv'
      <3>1. ListsInv
        BY <2>3, <2>4, <2>12 DEF NoCuts, Cuts, HeadersInv
      <3>2. FirstValues(Seen)' = FirstValues(Seen)
        BY <2>3, <2>7 DEF FirstValues, NameAt, ValueAt
      <3> QED BY <2>3, <2>8, <3>1, <3>2 DEF ListsInv
    <2>13. BegunIsCut'
      <3>1. ~ (off > 0)
        BY <2>3 DEF AtOK
      <3> QED BY <2>3, <3>1 DEF BegunIsCut, Fold
    <2> QED BY <2>11, <2>12, <2>13 DEF HeadersInv
  <1> QED BY <1>1, <1>2

(* The body and the end of a message leave the lists alone.                *)
LEMMA HeadersEvent ==
  ASSUME IInv, HeadersInv, on_body \/ on_message_complete
  PROVE  HeadersInv'
  <1>1. /\ AtOK /\ at.tok \in {"body", "end"}
        /\ at'.tok \in {"body", "end", "start"}
        /\ UNCHANGED <<sent, off, fields, values, got, cuts>>
    BY IInvParts, PlaceFacts DEF on_body, on_message_complete, Parsing, refs
  <1>2. msg' = msg
    BY <1>1 DEF msg, j
  <1>3. Reported' = Reported
    BY <1>1, <1>2 DEF Reported
  <1>4. \A x : /\ Cuts(x, "field")' = Cuts(x, "field")
               /\ Cuts(x, "value")' = Cuts(x, "value")
    BY <1>1 DEF Cuts
  <1>5. BegunIsCut'
    BY <1>1 DEF AtOK, BegunIsCut, Fold
  <1> QED BY <1>1, <1>3, <1>4, <1>5, Kept

LEMMA InitHeaders == Init => HeadersInv
  <1> SUFFICES ASSUME Init PROVE HeadersInv
    OBVIOUS
  <1>1. /\ j = 0 /\ off = 0 /\ got = <<>> /\ at.tok = "start"
        /\ fields = <<>> /\ values = <<>>
    BY PlaceFacts DEF Init, j
  <1>2. Seen = {} /\ Paired = <<>>
    BY <1>1 DEF Seen, Places, Paired
  <1>3. header_map(<<>>, <<>>) = FirstValues({})
    <2>1. DOMAIN header_map(<<>>, <<>>) = {} /\ DOMAIN FirstValues({}) = {}
      BY DEF header_map, FirstValues, Range
    <2> QED BY <2>1 DEF header_map, FirstValues
  <1>4. HeadersAccumulate
    BY <1>1 DEF HeadersAccumulate
  <1>5. BegunIsCut
    BY <1>1 DEF BegunIsCut, Fold
  <1> QED BY <1>1, <1>2, <1>3, <1>4, <1>5 DEF HeadersInv, ListsInv

(* What the lists hold while nothing was cut, in every state.              *)
LEMMA HeadersAlways == Spec => []HeadersInv
  <1>1. IInv /\ HeadersInv /\ [Next]_vars => HeadersInv'
    <2> SUFFICES ASSUME IInv, HeadersInv, [Next]_vars
                 PROVE  HeadersInv'
      OBVIOUS
    <2>1. CASE \/ execute \/ PacketEnds \/ ParseError
               \/ UNCHANGED vars
      <3>1. UNCHANGED <<sent, at, off, refs, history>>
        BY <2>1 DEF execute, PacketEnds, ParseError, vars
      <3> QED BY <3>1, HeadersFlags
    <2> QED BY <2>1, HeadersBegin, HeadersUrl, HeadersField, HeadersValue,
               HeadersHandler, HeadersEvent DEF Next
  <1> QED BY Inductive, InitHeaders, <1>1, PTL DEF Spec

(* Where no header was cut, a handler gets all headers that the            *)
(* connection sent so far, and of a repeated name the value sent first     *)
(* (createParser never empties its lists and folds them newest first).     *)
THEOREM HeadersKept == Spec => []HeadersAccumulate
  <1>1. HeadersInv => HeadersAccumulate
    BY DEF HeadersInv
  <1> QED BY HeadersAlways, <1>1, PTL
=============================================================================
