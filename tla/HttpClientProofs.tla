--------------------------- MODULE HttpClientProofs ---------------------------
(***************************************************************************)
(* The numbers of UvErrno tell the errors apart, whatever errno.h says;    *)
(* and the invariants of HttpClient, for any number of requests.  A        *)
(* request changes only through the operators of HttpClient, each of which *)
(* keeps RequestInv.                                                       *)
(***************************************************************************)
EXTENDS HttpClient, SequenceTheorems, TLAPS

USE DEF Stages, uv_tcp_t, uv_write_t, uv_timer_t

(* libuv's own numbers lie beyond those of any system.                     *)
LEMMA FallbackRange ==
  ASSUME NEW i \in Systems, ~(i = EHOSTDOWN /\ BSD)
  PROVE  /\ Fallback(i) \in Int
         /\ -4093 <= Fallback(i) /\ Fallback(i) <= -4031
         /\ \A j \in Systems :
              ~(j = EHOSTDOWN /\ BSD) /\ Fallback(i) = Fallback(j) => i = j
  <1>1. Len(E2BIG_EAGAIN) = 6
    BY DEF E2BIG_EAGAIN
  <1> QED BY <1>1 DEF Fallback, Systems, EHOSTDOWN

LEMMA HiddenFallback ==
  ASSUME BSD
  PROVE  Fallback(EHOSTDOWN) = -64
  <1>1. Len(E2BIG_EAGAIN) = 6
    BY DEF E2BIG_EAGAIN
  <1> QED BY <1>1 DEF Fallback, EHOSTDOWN

(* The numbers of the errors of the resolver lie between the two.          *)
LEMMA ResolverRange ==
  ASSUME NEW k \in Resolver
  PROVE  UV__EAI(k) \in Int /\ -3014 <= UV__EAI(k) /\ UV__EAI(k) <= -3000
  BY DEF Resolver, UV__EAI

(* An error of the system has a number of the system; of those it does not *)
(* have, all but a hidden EHOSTDOWN have one of libuv.                     *)
Own(n) == errno[n] = 0 /\ ~(n = EHOSTDOWN /\ BSD)
Hidden(n) == errno[n] = 0 /\ n = EHOSTDOWN /\ BSD

LEMMA ErrnoApart ==
  /\ \A i, j \in Systems : errno[i] = errno[j] /\ errno[i] # 0 => i = j
  /\ BSD /\ errno[EHOSTDOWN] = 0 => \A i \in Systems : errno[i] # 64
  BY ErrnoAssumption, Zenon

LEMMA ErrnoRange ==
  ASSUME NEW n \in Systems
  PROVE  /\ errno[n] \in Int /\ 0 <= errno[n] /\ errno[n] <= 2999
         /\ errno[n] # 0 => UV__errno(n) = -errno[n]
         /\ Own(n) => UV__errno(n) = Fallback(n)
         /\ Hidden(n) => UV__errno(n) = -64
  <1>1. Hidden(n) => UV__errno(n) = -64
    BY HiddenFallback DEF Hidden, UV__errno
  <1>2. errno[n] # 0 => UV__errno(n) = -errno[n]
    BY DEF UV__errno
  <1>3. Own(n) => UV__errno(n) = Fallback(n)
    BY DEF Own, UV__errno
  <1>4. errno[n] \in Int /\ 0 <= errno[n] /\ errno[n] <= 2999
    <2>1. errno[n] \in 0 .. HighestErrno
      BY ErrnoAssumption, Zenon
    <2>2. HighestErrno \in Int /\ HighestErrno <= 2999
      BY DEF HighestErrno
    <2> QED BY <2>1, <2>2
  <1> QED BY <1>1, <1>2, <1>3, <1>4

LEMMA NumberRange ==
  ASSUME NEW n \in Systems
  PROVE  /\ UV__errno(n) \in Int /\ UV__errno(n) < 0
         /\ \/ -2999 <= UV__errno(n) /\ ~Own(n)
            \/ -4093 <= UV__errno(n) /\ UV__errno(n) <= -4031 /\ Own(n)
  <1>1. CASE errno[n] # 0
    BY <1>1, ErrnoRange DEF Own
  <1>2. CASE Own(n)
    BY <1>2, ErrnoRange, FallbackRange DEF Own
  <1>3. CASE Hidden(n)
    BY <1>3, ErrnoRange DEF Own, Hidden
  <1> QED BY <1>1, <1>2, <1>3 DEF Own, Hidden

(* Two errors of the system never have the same number, and none has that  *)
(* of the end of the stream, of UNKNOWN or of an error of the resolver     *)
(* (uv-errno.h).                                                           *)
THEOREM NumbersTellApart ==
  ASSUME NEW i \in Systems, NEW j \in Systems
  PROVE  /\ UV__errno(i) \in Int /\ UV_ERRNO_MAX < UV__errno(i)
         /\ UV__errno(i) < 0
         /\ UV__errno(i) = UV__errno(j) => i = j
         /\ UV__errno(i) # UV__EOF /\ UV__errno(i) # UV__UNKNOWN
         /\ \A k \in Resolver : UV__errno(i) # UV__EAI(k)
  <1>1. UV__errno(i) = UV__errno(j) => i = j
    <2> SUFFICES ASSUME UV__errno(i) = UV__errno(j)
                 PROVE  i = j
      OBVIOUS
    <2>1. CASE errno[i] # 0 /\ errno[j] # 0
      <3>1. errno[i] = errno[j]
        BY <2>1, ErrnoRange
      <3> QED BY <3>1, <2>1, ErrnoApart, Zenon
    <2>2. CASE Own(i) /\ Own(j)
      BY <2>2, ErrnoRange, FallbackRange DEF Own
    <2>3. CASE Hidden(i) /\ Hidden(j)
      BY <2>3 DEF Hidden
    <2>4. CASE (Own(i) /\ ~Own(j)) \/ (Own(j) /\ ~Own(i))
      BY <2>4, NumberRange
    <2>5. CASE (Hidden(i) /\ errno[j] # 0) \/ (Hidden(j) /\ errno[i] # 0)
      <3>1. errno[i] # 64 /\ errno[j] # 64
        BY <2>5, ErrnoApart DEF Hidden
      <3> QED BY <2>5, <3>1, ErrnoRange
    <2> QED BY <2>1, <2>2, <2>3, <2>4, <2>5 DEF Own, Hidden
  <1>2. \A k \in Resolver : UV__errno(i) # UV__EAI(k)
    BY NumberRange, ResolverRange
  <1> QED BY <1>1, <1>2, NumberRange DEF UV__EOF, UV__UNKNOWN, UV_ERRNO_MAX

----------------------------------------------------------------------------
(* The names of the errors.  Errnos is put together of four tables, and    *)
(* the enumeration of uv.h has its own order.                              *)

Names(s) == {s[i] : i \in DOMAIN s}

(* A table of names is a sequence of them.                                 *)
Lists(s, n) == s = [i \in 1 .. n |-> s[i]]

LEMMA NamesSeq ==
  ASSUME NEW n \in Nat, NEW s, Lists(s, n),
         NEW S, Names(s) \subseteq S
  PROVE s \in Seq(S) /\ Len(s) = n
  <1>1. s \in [1 .. n -> S]
    BY DEF Names, Lists
  <1> QED BY <1>1

LEMMA FourTables ==
  /\ Lists(E2BIG_EAGAIN, 6)
  /\ Lists(EALREADY_ENOBUFS, 25)
  /\ Lists(ENODEV_EROFS, 17)
  /\ Lists(ESHUTDOWN_EHOSTDOWN, 12)
  BY DEF Lists, E2BIG_EAGAIN, EALREADY_ENOBUFS, ENODEV_EROFS,
         ESHUTDOWN_EHOSTDOWN

(* Two sequences, and then four, put together.                             *)
LEMMA Joined ==
  ASSUME NEW S, NEW a \in Seq(S), NEW b \in Seq(S)
  PROVE /\ (a \o b) \in Seq(S) /\ Len(a \o b) = Len(a) + Len(b)
        /\ \A k \in 1 .. Len(a) + Len(b) : 
         (a \o b)[k] = IF k <= Len(a) THEN a[k] ELSE b[k - Len(a)]
  BY ConcatProperties, Zenon

LEMMA Four ==
  ASSUME NEW S, NEW a \in Seq(S), NEW b \in Seq(S), NEW c \in Seq(S),
         NEW d \in Seq(S),
         NEW s, s = a \o b \o c \o d,
         NEW m \in Nat, NEW n \in Nat, NEW p \in Nat, NEW q \in Nat,
         Len(a) = m, m + Len(b) = n, n + Len(c) = p, p + Len(d) = q,
         NEW i \in 1 .. q
  PROVE s[i] = IF i <= m THEN a[i] ELSE IF i <= n THEN b[i - m]
                    ELSE IF i <= p THEN c[i - n] ELSE d[i - p]
  <1>1. PICK ab : ab = a \o b
    OBVIOUS
  <1>2. PICK abc : abc = ab \o c
    OBVIOUS
  <1>3. s = abc \o d
    BY <1>1, <1>2
  <1>4. /\ ab \in Seq(S) /\ Len(ab) = n
        /\ \A k \in 1 .. n : ab[k] = IF k <= m THEN a[k] ELSE b[k - m]
    <2>1. /\ ab \in Seq(S) /\ Len(ab) = Len(a) + Len(b)
          /\ \A k \in 1 .. Len(a) + Len(b) :
                ab[k] = IF k <= Len(a) THEN a[k] ELSE b[k - Len(a)]
      BY <1>1, Joined, Zenon
    <2> QED BY <2>1
  <1>5. /\ abc \in Seq(S) /\ Len(abc) = p
        /\ \A k \in 1 .. p : abc[k] = IF k <= n THEN ab[k] ELSE c[k - n]
    <2>1. /\ abc \in Seq(S) /\ Len(abc) = Len(ab) + Len(c)
          /\ \A k \in 1 .. Len(ab) + Len(c) :
                abc[k] = IF k <= Len(ab) THEN ab[k] ELSE c[k - Len(ab)]
      BY <1>2, <1>4, Joined, Zenon
    <2> QED BY <1>4, <2>1
  <1>6. \A k \in 1 .. q : s[k] = IF k <= p THEN abc[k] ELSE d[k - p]
    <2>1. /\ s \in Seq(S) /\ Len(s) = Len(abc) + Len(d)
          /\ \A k \in 1 .. Len(abc) + Len(d) :
                s[k] = IF k <= Len(abc) THEN abc[k] ELSE d[k - Len(abc)]
      <3>1. /\ abc \o d \in Seq(S) /\ Len(abc \o d) = Len(abc) + Len(d)
            /\ \A k \in 1 .. Len(abc) + Len(d) :
                  (abc \o d)[k] = IF k <= Len(abc) THEN abc[k]
                                  ELSE d[k - Len(abc)]
        <4>1. abc \in Seq(S)
          BY <1>5
        <4> QED BY <4>1, Joined, ZenonT(30)
      <3> QED BY <1>3, <3>1, Zenon
    <2> QED BY <1>5, <2>1
  <1>7. s[i] = IF i <= p THEN abc[i] ELSE d[i - p]
    BY <1>6
  <1>8. m <= n /\ n <= p /\ i \in Nat /\ i >= 1
    <2>1. Len(b) \in Nat /\ Len(c) \in Nat
      OBVIOUS
    <2> QED BY <2>1
  <1>9. i <= p => abc[i] = IF i <= n THEN ab[i] ELSE c[i - n]
    BY <1>5, <1>8
  <1>10. i <= n => ab[i] = IF i <= m THEN a[i] ELSE b[i - m]
    BY <1>4, <1>8
  <1>11. (i <= m => i <= n) /\ (i <= n => i <= p)
    BY <1>8
  <1> QED BY <1>7, <1>9, <1>10, <1>11, Zenon

FourParts(s, a, b, c, d) ==
  \A i \in 1 .. Len(a) + Len(b) + Len(c) + Len(d) :
    s[i] = IF i <= Len(a) THEN a[i]
           ELSE IF i <= Len(a) + Len(b) THEN b[i - Len(a)]
           ELSE IF i <= Len(a) + Len(b) + Len(c)
                THEN c[i - (Len(a) + Len(b))]
           ELSE d[i - (Len(a) + Len(b) + Len(c))]

LEMMA Concat4 ==
  ASSUME NEW S, NEW a \in Seq(S), NEW b \in Seq(S), NEW c \in Seq(S),
         NEW d \in Seq(S)
  PROVE  FourParts(a \o b \o c \o d, a, b, c, d)
  BY Four DEF FourParts

(* Errnos by its parts.                                                    *)
LEMMA Parts ==
  \A i \in 1 .. 60 :
    Errnos[i] = IF i <= 6 THEN E2BIG_EAGAIN[i]
                ELSE IF i <= 31 THEN EALREADY_ENOBUFS[i - 6]
                ELSE IF i <= 48 THEN ENODEV_EROFS[i - 31]
                ELSE ESHUTDOWN_EHOSTDOWN[i - 48]
  <1>1. PICK S : S = Names(E2BIG_EAGAIN) \cup Names(EALREADY_ENOBUFS)
                     \cup Names(ENODEV_EROFS) \cup Names(ESHUTDOWN_EHOSTDOWN)
    OBVIOUS
  <1>a. 6 \in Nat /\ 25 \in Nat /\ 17 \in Nat /\ 12 \in Nat
    OBVIOUS
  <1>b. /\ Names(E2BIG_EAGAIN) \subseteq S
        /\ Names(EALREADY_ENOBUFS) \subseteq S
        /\ Names(ENODEV_EROFS) \subseteq S
        /\ Names(ESHUTDOWN_EHOSTDOWN) \subseteq S
    BY <1>1, Zenon
  <1>2. PICK a \in Seq(S) : a = E2BIG_EAGAIN /\ Len(a) = 6
    <2>1. E2BIG_EAGAIN \in Seq(S) /\ Len(E2BIG_EAGAIN) = 6
      BY <1>a, <1>b, FourTables, NamesSeq, Zenon
    <2> QED BY <2>1, Zenon
  <1>3. PICK b \in Seq(S) : b = EALREADY_ENOBUFS /\ Len(b) = 25
    <2>1. EALREADY_ENOBUFS \in Seq(S) /\ Len(EALREADY_ENOBUFS) = 25
      BY <1>a, <1>b, FourTables, NamesSeq, Zenon
    <2> QED BY <2>1, Zenon
  <1>4. PICK c \in Seq(S) : c = ENODEV_EROFS /\ Len(c) = 17
    <2>1. ENODEV_EROFS \in Seq(S) /\ Len(ENODEV_EROFS) = 17
      BY <1>a, <1>b, FourTables, NamesSeq, Zenon
    <2> QED BY <2>1, Zenon
  <1>5. PICK d \in Seq(S) : d = ESHUTDOWN_EHOSTDOWN /\ Len(d) = 12
    <2>1. ESHUTDOWN_EHOSTDOWN \in Seq(S) /\ Len(ESHUTDOWN_EHOSTDOWN) = 12
      BY <1>a, <1>b, FourTables, NamesSeq, Zenon
    <2> QED BY <2>1, Zenon
  <1>6. Errnos = a \o b \o c \o d
    BY <1>2, <1>3, <1>4, <1>5, Zenon DEF Errnos
  <1>7. \A i \in 1 .. Len(a) + Len(b) + Len(c) + Len(d) :
           Errnos[i] =
             IF i <= Len(a) THEN a[i]
             ELSE IF i <= Len(a) + Len(b) THEN b[i - Len(a)]
             ELSE IF i <= Len(a) + Len(b) + Len(c)
                  THEN c[i - (Len(a) + Len(b))]
             ELSE d[i - (Len(a) + Len(b) + Len(c))]
    <2>1. FourParts(a \o b \o c \o d, a, b, c, d)
      BY Concat4, Zenon
    <2> QED BY <1>6, <2>1, Zenon DEF FourParts
  <1>8. \A i \in 1 .. 60 :
           Errnos[i] =
             IF i <= 6 THEN a[i]
             ELSE IF i <= 31 THEN b[i - 6]
             ELSE IF i <= 48
                  THEN c[i - 31]
             ELSE d[i - 48]
    <2>1. Len(a) = 6 /\ Len(b) = 25 /\ Len(c) = 17 /\ Len(d) = 12
      BY <1>2, <1>3, <1>4, <1>5, Zenon
    <2>2. /\ Len(a) + Len(b) = 31 /\ Len(a) + Len(b) + Len(c) = 48
          /\ Len(a) + Len(b) + Len(c) + Len(d) = 60
      BY <2>1
    <2>3. PICK la, lab, labc, l : /\ la = Len(a) /\ lab = Len(a) + Len(b)
            /\ labc = Len(a) + Len(b) + Len(c)
            /\ l = Len(a) + Len(b) + Len(c) + Len(d)
      OBVIOUS
    <2>4. \A i \in 1 .. l :
           Errnos[i] = IF i <= la THEN a[i]
                       ELSE IF i <= lab THEN b[i - la]
                       ELSE IF i <= labc THEN c[i - lab]
                       ELSE d[i - labc]
      BY <1>7, <2>3, Zenon
    <2>5. la = 6 /\ lab = 31 /\ labc = 48 /\ l = 60
      BY <2>1, <2>2, <2>3
    <2> QED BY <2>4, <2>5, Zenon
  <1> QED BY <1>2, <1>3, <1>4, <1>5, <1>8, Zenon

LEMMA WhichPart ==
  ASSUME NEW i \in Systems
  PROVE  \/ \E m \in 1 .. 6 : i = m /\ Errnos[i] = E2BIG_EAGAIN[m]
         \/ \E m \in 1 .. 25 : i = m + 6 /\ Errnos[i] = EALREADY_ENOBUFS[m]
         \/ \E m \in 1 .. 17 : i = m + 31 /\ Errnos[i] = ENODEV_EROFS[m]
         \/ \E m \in 1 .. 12 : i = m + 48
                  /\ Errnos[i] = ESHUTDOWN_EHOSTDOWN[m]
  <1>0. i \in 1 .. 60
    BY DEF Systems, EHOSTDOWN
  <1>1. CASE i <= 6
    <2>1. Errnos[i] = E2BIG_EAGAIN[i]
      BY <1>0, <1>1, Parts, Zenon
    <2>2. i \in 1 .. 6
      BY <1>0, <1>1
    <2> QED BY <2>1, <2>2
  <1>2. CASE ~(i <= 6) /\ i <= 31
    <2>1. Errnos[i] = EALREADY_ENOBUFS[i - 6]
      BY <1>0, <1>2, Parts, Zenon
    <2>2. i - 6 \in 1 .. 25 /\ i = (i - 6) + 6
      BY <1>0, <1>2
    <2> QED BY <2>1, <2>2
  <1>3. CASE ~(i <= 31) /\ i <= 48
    <2>1. ~(i <= 6)
      BY <1>0, <1>3
    <2>2. Errnos[i] = ENODEV_EROFS[i - 31]
      BY <1>0, <1>3, <2>1, Parts, Zenon
    <2>3. i - 31 \in 1 .. 17 /\ i = (i - 31) + 31
      BY <1>0, <1>3
    <2> QED BY <2>2, <2>3
  <1>4. CASE ~(i <= 48)
    <2>1. ~(i <= 6) /\ ~(i <= 31)
      BY <1>0, <1>4
    <2>2. Errnos[i] = ESHUTDOWN_EHOSTDOWN[i - 48]
      BY <1>0, <1>4, <2>1, Parts, Zenon
    <2>3. i - 48 \in 1 .. 12 /\ i = (i - 48) + 48
      BY <1>0, <1>4
    <2> QED BY <2>2, <2>3
  <1>5. \/ i <= 6
        \/ ~(i <= 6) /\ i <= 31
        \/ ~(i <= 31) /\ i <= 48
        \/ ~(i <= 48)
    OBVIOUS
  <1> QED BY <1>1, <1>2, <1>3, <1>4, <1>5, Zenon

LEMMA Inside ==
  /\ \A i, j \in 1 .. 6 : E2BIG_EAGAIN[i] = E2BIG_EAGAIN[j] => i = j
  /\ \A i, j \in 1 .. 25 : EALREADY_ENOBUFS[i] = EALREADY_ENOBUFS[j] => i = j
  /\ \A i, j \in 1 .. 17 : ENODEV_EROFS[i] = ENODEV_EROFS[j] => i = j
  /\ \A i, j \in 1 .. 12 : ESHUTDOWN_EHOSTDOWN[i] = ESHUTDOWN_EHOSTDOWN[j]
           => i = j
  <1>1. \A i, j \in 1 .. 6 : E2BIG_EAGAIN[i] = E2BIG_EAGAIN[j] => i = j
    BY DEF E2BIG_EAGAIN
  <1>2. \A i, j \in 1 .. 25 : EALREADY_ENOBUFS[i] = EALREADY_ENOBUFS[j]
           => i = j
    BY DEF EALREADY_ENOBUFS
  <1>3. \A i, j \in 1 .. 17 : ENODEV_EROFS[i] = ENODEV_EROFS[j] => i = j
    BY DEF ENODEV_EROFS
  <1>4. \A i, j \in 1 .. 12 : ESHUTDOWN_EHOSTDOWN[i] = ESHUTDOWN_EHOSTDOWN[j]
           => i = j
    BY DEF ESHUTDOWN_EHOSTDOWN
  <1> QED BY <1>1, <1>2, <1>3, <1>4

LEMMA Between ==
  /\ \A i \in 1 .. 6, j \in 1 .. 25 : E2BIG_EAGAIN[i] # EALREADY_ENOBUFS[j]
  /\ \A i \in 1 .. 6, j \in 1 .. 17 : E2BIG_EAGAIN[i] # ENODEV_EROFS[j]
  /\ \A i \in 1 .. 6, j \in 1 .. 12 : E2BIG_EAGAIN[i] # ESHUTDOWN_EHOSTDOWN[j]
  /\ \A i \in 1 .. 25, j \in 1 .. 17 : EALREADY_ENOBUFS[i] # ENODEV_EROFS[j]
  /\ \A i \in 1 .. 25, j \in 1 .. 12 : EALREADY_ENOBUFS[i]
           # ESHUTDOWN_EHOSTDOWN[j]
  /\ \A i \in 1 .. 17, j \in 1 .. 12 : ENODEV_EROFS[i]
           # ESHUTDOWN_EHOSTDOWN[j]
  BY DEF E2BIG_EAGAIN, EALREADY_ENOBUFS, ENODEV_EROFS, ESHUTDOWN_EHOSTDOWN

(* No name stands twice in Errnos, so that the error of a name is found    *)
(* again.                                                                  *)
LEMMA Distinct ==
  ASSUME NEW i \in Systems, NEW j \in Systems, Errnos[i] = Errnos[j]
  PROVE  i = j
  <1>1. CASE \E m \in 1 .. 6 : i = m /\ Errnos[i] = E2BIG_EAGAIN[m]
    <2>1. PICK m \in 1 .. 6 : i = m /\ Errnos[i] = E2BIG_EAGAIN[m]
      BY <1>1
    <2>2. PICK n \in 1 .. 6 : j = n /\ Errnos[j] = E2BIG_EAGAIN[n]
      <3>1. \A n \in 1 .. 25 : Errnos[j] # EALREADY_ENOBUFS[n]
        BY <2>1, Between, Zenon
      <3>2. \A n \in 1 .. 17 : Errnos[j] # ENODEV_EROFS[n]
        BY <2>1, Between, Zenon
      <3>3. \A n \in 1 .. 12 : Errnos[j] # ESHUTDOWN_EHOSTDOWN[n]
        BY <2>1, Between, Zenon
      <3> QED BY <3>1, <3>2, <3>3, WhichPart, Zenon
    <2> QED BY <2>1, <2>2, Inside
  <1>2. CASE \E m \in 1 .. 25 : i = m + 6 /\ Errnos[i] = EALREADY_ENOBUFS[m]
    <2>1. PICK m \in 1 .. 25 : i = m + 6 /\ Errnos[i] = EALREADY_ENOBUFS[m]
      BY <1>2
    <2>2. PICK n \in 1 .. 25 : j = n + 6 /\ Errnos[j] = EALREADY_ENOBUFS[n]
      <3>1. \A n \in 1 .. 6 : Errnos[j] # E2BIG_EAGAIN[n]
        BY <2>1, Between, Zenon
      <3>2. \A n \in 1 .. 17 : Errnos[j] # ENODEV_EROFS[n]
        BY <2>1, Between, Zenon
      <3>3. \A n \in 1 .. 12 : Errnos[j] # ESHUTDOWN_EHOSTDOWN[n]
        BY <2>1, Between, Zenon
      <3> QED BY <3>1, <3>2, <3>3, WhichPart, Zenon
    <2>3. EALREADY_ENOBUFS[m] = EALREADY_ENOBUFS[n]
      BY <2>1, <2>2, Zenon
    <2>4. m = n
      BY <2>3, Inside, Zenon
    <2> QED BY <2>1, <2>2, <2>4, Zenon
  <1>3. CASE \E m \in 1 .. 17 : i = m + 31 /\ Errnos[i] = ENODEV_EROFS[m]
    <2>1. PICK m \in 1 .. 17 : i = m + 31 /\ Errnos[i] = ENODEV_EROFS[m]
      BY <1>3
    <2>2. PICK n \in 1 .. 17 : j = n + 31 /\ Errnos[j] = ENODEV_EROFS[n]
      <3>1. \A n \in 1 .. 6 : Errnos[j] # E2BIG_EAGAIN[n]
        BY <2>1, Between, Zenon
      <3>2. \A n \in 1 .. 25 : Errnos[j] # EALREADY_ENOBUFS[n]
        BY <2>1, Between, Zenon
      <3>3. \A n \in 1 .. 12 : Errnos[j] # ESHUTDOWN_EHOSTDOWN[n]
        BY <2>1, Between, Zenon
      <3> QED BY <3>1, <3>2, <3>3, WhichPart, Zenon
    <2>3. ENODEV_EROFS[m] = ENODEV_EROFS[n]
      BY <2>1, <2>2, Zenon
    <2>4. m = n
      BY <2>3, Inside, Zenon
    <2> QED BY <2>1, <2>2, <2>4, Zenon
  <1>4. CASE \E m \in 1 .. 12 : i = m + 48
           /\ Errnos[i] = ESHUTDOWN_EHOSTDOWN[m]
    <2>1. PICK m \in 1 .. 12 : i = m + 48
             /\ Errnos[i] = ESHUTDOWN_EHOSTDOWN[m]
      BY <1>4
    <2>2. PICK n \in 1 .. 12 : j = n + 48 /\ Errnos[j] = ESHUTDOWN_EHOSTDOWN[n]
      <3>1. \A n \in 1 .. 6 : Errnos[j] # E2BIG_EAGAIN[n]
        BY <2>1, Between, Zenon
      <3>2. \A n \in 1 .. 25 : Errnos[j] # EALREADY_ENOBUFS[n]
        BY <2>1, Between, Zenon
      <3>3. \A n \in 1 .. 17 : Errnos[j] # ENODEV_EROFS[n]
        BY <2>1, Between, Zenon
      <3> QED BY <3>1, <3>2, <3>3, WhichPart, Zenon
    <2>3. ESHUTDOWN_EHOSTDOWN[m] = ESHUTDOWN_EHOSTDOWN[n]
      BY <2>1, <2>2, Zenon
    <2>4. m = n
      BY <2>3, Inside, Zenon
    <2> QED BY <2>1, <2>2, <2>4, Zenon
  <1> QED BY <1>1, <1>2, <1>3, <1>4, WhichPart

LEMMA NotOwn ==
  ASSUME NEW i \in Systems
  PROVE  Errnos[i] # "EOF" /\ Errnos[i] # "UNKNOWN"
  <1>1. \A m \in 1 .. 6 : E2BIG_EAGAIN[m] \notin {"EOF", "UNKNOWN"}
    BY DEF E2BIG_EAGAIN
  <1>2. \A m \in 1 .. 25 : EALREADY_ENOBUFS[m] \notin {"EOF", "UNKNOWN"}
    BY DEF EALREADY_ENOBUFS
  <1>3. \A m \in 1 .. 17 : ENODEV_EROFS[m] \notin {"EOF", "UNKNOWN"}
    BY DEF ENODEV_EROFS
  <1>4. \A m \in 1 .. 12 : ESHUTDOWN_EHOSTDOWN[m] \notin {"EOF", "UNKNOWN"}
    BY DEF ESHUTDOWN_EHOSTDOWN
  <1> QED BY <1>1, <1>2, <1>3, <1>4, WhichPart

(* Every error of the system is in the enumeration of uv.h, and this has   *)
(* no name that is in no table of uv-errno.h.                              *)
LEMMA InMap ==
  ASSUME NEW i \in Systems
  PROVE  \E k \in DOMAIN UV_ERRNO_MAP : UV_ERRNO_MAP[k] = Errnos[i]
  <1>1. \A m \in 1 .. 6 : \E k \in DOMAIN UV_ERRNO_MAP :
           UV_ERRNO_MAP[k] = E2BIG_EAGAIN[m]
    BY DEF E2BIG_EAGAIN, UV_ERRNO_MAP
  <1>2. \A m \in 1 .. 25 : \E k \in DOMAIN UV_ERRNO_MAP :
           UV_ERRNO_MAP[k] = EALREADY_ENOBUFS[m]
    BY DEF EALREADY_ENOBUFS, UV_ERRNO_MAP
  <1>3. \A m \in 1 .. 17 : \E k \in DOMAIN UV_ERRNO_MAP :
           UV_ERRNO_MAP[k] = ENODEV_EROFS[m]
    BY DEF ENODEV_EROFS, UV_ERRNO_MAP
  <1>4. \A m \in 1 .. 12 : \E k \in DOMAIN UV_ERRNO_MAP :
           UV_ERRNO_MAP[k] = ESHUTDOWN_EHOSTDOWN[m]
    BY DEF ESHUTDOWN_EHOSTDOWN, UV_ERRNO_MAP
  <1> QED BY <1>1, <1>2, <1>3, <1>4, WhichPart

LEMMA Covered ==
  ASSUME NEW k \in DOMAIN UV_ERRNO_MAP
  PROVE  \/ UV_ERRNO_MAP[k] \in {"EOF", "UNKNOWN"}
         \/ \E i \in Systems : Errnos[i] = UV_ERRNO_MAP[k]
         \/ \E i \in Resolver :
                  EAI_ADDRFAMILY_EAI_PROTOCOL[i] = UV_ERRNO_MAP[k]
  <1>1. \/ UV_ERRNO_MAP[k] \in {"EOF", "UNKNOWN"}
        \/ \E i \in Resolver :
                 EAI_ADDRFAMILY_EAI_PROTOCOL[i] = UV_ERRNO_MAP[k]
        \/ \E i \in 1 .. 6 : E2BIG_EAGAIN[i] = UV_ERRNO_MAP[k]
        \/ \E i \in 1 .. 25 : EALREADY_ENOBUFS[i] = UV_ERRNO_MAP[k]
        \/ \E i \in 1 .. 17 : ENODEV_EROFS[i] = UV_ERRNO_MAP[k]
        \/ \E i \in 1 .. 12 : ESHUTDOWN_EHOSTDOWN[i] = UV_ERRNO_MAP[k]
    BY DEF E2BIG_EAGAIN, EALREADY_ENOBUFS, ENODEV_EROFS, ESHUTDOWN_EHOSTDOWN,
           UV_ERRNO_MAP, EAI_ADDRFAMILY_EAI_PROTOCOL, Resolver
  <1>2. \A m \in 1 .. 6 : \E i \in Systems : Errnos[i] = E2BIG_EAGAIN[m]
    <2> SUFFICES ASSUME NEW m \in 1 .. 6
                 PROVE \E i \in Systems : Errnos[i] = E2BIG_EAGAIN[m]
      OBVIOUS
    <2>1. m \in 1 .. 60 /\ m <= 6 /\ m \in Systems
      BY DEF Systems, EHOSTDOWN
    <2> QED BY <2>1, Parts, Zenon
  <1>3. \A m \in 1 .. 25 : \E i \in Systems : Errnos[i] = EALREADY_ENOBUFS[m]
    <2> SUFFICES ASSUME NEW m \in 1 .. 25
                 PROVE \E i \in Systems : Errnos[i] = EALREADY_ENOBUFS[m]
      OBVIOUS
    <2>1. PICK i \in 1 .. 60 : ~(i <= 6) /\ i <= 31 /\ i - 6 = m
             /\ i \in Systems
      <3> WITNESS m + 6 \in 1 .. 60
      <3> QED BY DEF Systems, EHOSTDOWN
    <2> QED BY <2>1, Parts, Zenon
  <1>4. \A m \in 1 .. 17 : \E i \in Systems : Errnos[i] = ENODEV_EROFS[m]
    <2> SUFFICES ASSUME NEW m \in 1 .. 17
                 PROVE \E i \in Systems : Errnos[i] = ENODEV_EROFS[m]
      OBVIOUS
    <2>1. PICK i \in 1 .. 60 :
            /\ ~(i <= 6) /\ ~(i <= 31) /\ i <= 48
            /\ i - 31 = m /\ i \in Systems
      <3> WITNESS m + 31 \in 1 .. 60
      <3> QED BY DEF Systems, EHOSTDOWN
    <2> QED BY <2>1, Parts, Zenon
  <1>5. \A m \in 1 .. 12 : \E i \in Systems :
           Errnos[i] = ESHUTDOWN_EHOSTDOWN[m]
    <2> SUFFICES ASSUME NEW m \in 1 .. 12
                 PROVE \E i \in Systems : Errnos[i] = ESHUTDOWN_EHOSTDOWN[m]
      OBVIOUS
    <2>1. PICK i \in 1 .. 60 : ~(i <= 6) /\ ~(i <= 31)
             /\ ~(i <= 48) /\ i - 48 = m /\ i \in Systems
      <3> WITNESS m + 48 \in 1 .. 60
      <3> QED BY DEF Systems, EHOSTDOWN
    <2> QED BY <2>1, Parts, Zenon
  <1>6. CASE \E m \in 1 .. 6 : E2BIG_EAGAIN[m] = UV_ERRNO_MAP[k]
    <2>1. PICK m \in 1 .. 6 : E2BIG_EAGAIN[m] = UV_ERRNO_MAP[k]
      BY <1>6, Zenon
    <2>2. \E i \in Systems : Errnos[i] = E2BIG_EAGAIN[m]
      BY <1>2, Zenon
    <2> QED BY <2>1, <2>2, Zenon
  <1>7. CASE \E m \in 1 .. 25 : EALREADY_ENOBUFS[m] = UV_ERRNO_MAP[k]
    <2>1. PICK m \in 1 .. 25 : EALREADY_ENOBUFS[m] = UV_ERRNO_MAP[k]
      BY <1>7, Zenon
    <2>2. \E i \in Systems : Errnos[i] = EALREADY_ENOBUFS[m]
      BY <1>3, Zenon
    <2> QED BY <2>1, <2>2, Zenon
  <1>8. CASE \E m \in 1 .. 17 : ENODEV_EROFS[m] = UV_ERRNO_MAP[k]
    <2>1. PICK m \in 1 .. 17 : ENODEV_EROFS[m] = UV_ERRNO_MAP[k]
      BY <1>8, Zenon
    <2>2. \E i \in Systems : Errnos[i] = ENODEV_EROFS[m]
      BY <1>4, Zenon
    <2> QED BY <2>1, <2>2, Zenon
  <1>9. CASE \E m \in 1 .. 12 : ESHUTDOWN_EHOSTDOWN[m] = UV_ERRNO_MAP[k]
    <2>1. PICK m \in 1 .. 12 : ESHUTDOWN_EHOSTDOWN[m] = UV_ERRNO_MAP[k]
      BY <1>9, Zenon
    <2>2. \E i \in Systems : Errnos[i] = ESHUTDOWN_EHOSTDOWN[m]
      BY <1>5, Zenon
    <2> QED BY <2>1, <2>2, Zenon
  <1> QED BY <1>1, <1>6, <1>7, <1>8, <1>9, Zenon

(* A name of the enumeration has the number of a system error only if it   *)
(* is the name of that error.                                              *)
LEMMA NumberOfName ==
  ASSUME NEW k \in DOMAIN UV_ERRNO_MAP, NEW e \in Systems
  PROVE  UV__(UV_ERRNO_MAP[k]) = UV__errno(e) <=> UV_ERRNO_MAP[k] = Errnos[e]
  <1> PICK name : name = UV_ERRNO_MAP[k]
    OBVIOUS
  <1>0. /\ UV__errno(e) # UV__EOF /\ UV__errno(e) # UV__UNKNOWN
        /\ \A m \in Resolver : UV__errno(e) # UV__EAI(m)
    BY NumbersTellApart
  <1>1. CASE name \in {"EOF", "UNKNOWN"}
    <2>1. UV__(name) \in {UV__EOF, UV__UNKNOWN}
      BY <1>1, NotOwn DEF UV__
    <2> QED BY <1>0, <1>1, <2>1, NotOwn
  <1>2. CASE \E i \in Systems : Errnos[i] = name
    <2>1. PICK i \in Systems : Errnos[i] = name
      BY <1>2
    <2>2. (CHOOSE n \in Systems : Errnos[n] = name) = i
      BY <2>1, Distinct, Zenon
    <2>3. UV__(name) = UV__errno(i)
      <3>1. name # "EOF" /\ name # "UNKNOWN"
        BY <2>1, NotOwn
      <3> QED BY <1>2, <2>2, <3>1, Zenon DEF UV__
    <2>4. UV__errno(i) = UV__errno(e) <=> i = e
      BY NumbersTellApart
    <2>5. Errnos[i] = Errnos[e] <=> i = e
      BY Distinct
    <2> QED BY <2>1, <2>3, <2>4, <2>5
  <1>3. CASE name \notin {"EOF", "UNKNOWN"} /\ ~(\E i \in Systems :
           Errnos[i] = name)
    <2>1. \E m \in Resolver : EAI_ADDRFAMILY_EAI_PROTOCOL[m] = name
      BY <1>3, Covered
    <2>2. (CHOOSE m \in Resolver : EAI_ADDRFAMILY_EAI_PROTOCOL[m]
             = name) \in Resolver
      BY <2>1, Zenon
    <2>3. UV__(name) = UV__EAI(CHOOSE m \in Resolver :
             EAI_ADDRFAMILY_EAI_PROTOCOL[m] = name)
      BY <1>3, Zenon DEF UV__
    <2> QED BY <1>0, <1>3, <2>2, <2>3, Zenon
  <1> QED BY <1>1, <1>2, <1>3, Zenon

----------------------------------------------------------------------------
(* What each operator of HttpClient makes of a request.                    *)

LEMMA Ranges ==
  ASSUME NEW e \in ConnectErrors
  PROVE  e \in Systems /\ SystemNumber(e) \in Int
  <1>1. e \in Systems
    BY ConnectErrorsAssumption
  <1>2. errno[e] \in Int
    BY <1>1, ErrnoRange
  <1> QED BY <1>1, <1>2 DEF SystemNumber

LEMMA NoRequestInv == RequestInv(NoRequest)
  BY DEF RequestInv, NoRequest, Request

LEMMA RequestMade ==
  ASSUME NEW r, RequestInv(r), r.stage = "none",
         NEW stage \in {"connecting", "unsent"}
  PROVE  RequestInv(uv_timer_start([r EXCEPT !.stage = stage, !.creq = TRUE]))
  BY DEF RequestInv, Request, uv_timer_start

LEMMA ConnectedInv ==
  ASSUME NEW r, RequestInv(r), r.stage = "connecting"
  PROVE  RequestInv(connected(r))
  BY DEF RequestInv, Request, connected, uv_write

LEMMA NotConnectedInv ==
  ASSUME NEW r, RequestInv(r), r.stage = "connecting",
         NEW e \in ConnectErrors
  PROVE  RequestInv(not_connected(r, e))
  <1> DEFINE n == -SystemNumber(e)
             s == [r EXCEPT !.stage = "failed", !.tcp = "shutting",
                            !.creq = FALSE, !.error = e, !.told = n]
             t == [s EXCEPT !.ran = @ + 1]
  <1>1. e \in Systems /\ n \in Int
    BY Ranges
  <1>2. not_connected(r, e) = t
    BY DEF not_connected, caml_callback, Arity
  <1>3. t.error = e /\ t.told = n /\ t.stage = "failed"
    <2> HIDE DEF n
    <2> QED BY <1>1 DEF RequestInv, Request
  <1>4. /\ r \in Request
        /\ r.ran = 0 /\ r.freed = 0 /\ r.wreq = "none" /\ r.timer # "off"
    BY DEF RequestInv
  <1>5. /\ t.ran = 1 /\ t.freed = 0 /\ t.wreq = "none"
        /\ t.creq = FALSE /\ t.timer # "off" /\ t.tcp = "shutting"
    BY <1>4 DEF Request
  <1>6. t \in Request
    <2>1. s.ran + 1 = 1
      BY <1>4 DEF Request
    <2>2. t = [s EXCEPT !.ran = 1]
      <3> HIDE DEF s
      <3> QED BY <2>1
    <2> HIDE DEF n
    <2> QED BY <1>1, <1>4, <2>2 DEF Request
  <1> HIDE DEF t
  <1> QED BY <1>2, <1>3, <1>5, <1>6 DEF RequestInv

LEMMA ReadInv ==
  ASSUME NEW r, RequestInv(r), r.stage = "open"
  PROVE  /\ RequestInv(caml_callback([r EXCEPT !.got = TRUE], 1))
         /\ RequestInv(caml_callback([r EXCEPT !.stage = "over"], 1))
  <1>1. RequestInv([r EXCEPT !.got = TRUE])
    BY DEF RequestInv, Request
  <1>2. RequestInv([r EXCEPT !.stage = "over"])
    BY DEF RequestInv, Request
  <1> QED BY <1>1, <1>2 DEF caml_callback, Arity

LEMMA WrittenInv ==
  ASSUME NEW r, RequestInv(r), r.wreq = "queued"
  PROVE  RequestInv(write_cb(r))
  <1>1. r.freed = 0 /\ r \in Request
    BY DEF RequestInv
  <1>2. write_cb(r) = [r EXCEPT !.wreq = "freed", !.freed = 1]
    BY <1>1 DEF write_cb
  <1>3. r.ran = IF r.stage = "failed" THEN 1 ELSE 0
    BY DEF RequestInv
  <1>4. [r EXCEPT !.wreq = "freed", !.freed = 1] \in Request
    BY <1>1 DEF Request
  <1> QED BY <1>1, <1>2, <1>3, <1>4 DEF RequestInv, Request

LEMMA FiredInv ==
  ASSUME NEW r, RequestInv(r), r.timer = "armed"
  PROVE  /\ RequestInv([r EXCEPT !.timer = "fired"])
         /\ RequestInv(timer_lost(r))
  BY DEF RequestInv, Request, timer_lost

LEMMA ShutInv ==
  ASSUME NEW r, RequestInv(r), r.tcp # "kept"
  PROVE  RequestInv(shutdown_cb(r)) /\ RequestInv(close_cb(r))
  BY DEF RequestInv, Request, shutdown_cb, close_cb

----------------------------------------------------------------------------
(* A step that replaces a request by one that keeps RequestInv keeps the   *)
(* invariant: it is not taken after the program has ended.                 *)
LEMMA Update ==
  ASSUME IInv, NEW q \in Requests, NEW r, RequestInv(r),
         req' = [req EXCEPT ![q] = r],
         proc' = proc, proc # "exit", cur' \in Requests \cup {None}
  PROVE  IInv'
  <1>1. r \in Request
    BY DEF RequestInv
  <1>2. TypeOK'
    BY <1>1 DEF IInv, TypeOK
  <1>3. (\A p \in Requests : RequestInv(req[p]))'
    <2> SUFFICES ASSUME NEW p \in Requests
                 PROVE  RequestInv(req'[p])
      BY DEF RequestInv
    <2>1. req'[p] = IF p = q THEN r ELSE req[p]
      BY DEF IInv, TypeOK
    <2> QED BY <2>1 DEF IInv
  <1> QED BY <1>2, <1>3 DEF IInv, ExitAfterTimers, OnlyFailedFreed

(* So does one that replaces them all. *)
LEMMA UpdateAll ==
  ASSUME IInv, req' = [p \in Requests |-> req'[p]],
         \A p \in Requests : RequestInv(req'[p]),
         proc' = proc, proc # "exit", cur' = cur
  PROVE  IInv'
  <1>1. \A p \in Requests : req'[p] \in Request
    BY DEF RequestInv
  <1>2. TypeOK'
    BY <1>1 DEF IInv, TypeOK
  <1>3. (\A p \in Requests : RequestInv(req[p]))'
    BY DEF RequestInv
  <1> QED BY <1>2, <1>3 DEF IInv, ExitAfterTimers, OnlyFailedFreed

(* A step that leaves the requests alone and does not end the program.     *)
LEMMA Same ==
  ASSUME IInv, UNCHANGED req, proc' \in {"setup", "up", "dead"},
         cur' \in Requests \cup {None}
  PROVE  IInv'
  BY DEF IInv, TypeOK, ExitAfterTimers, OnlyFailedFreed, RequestInv

THEOREM InitInv == Init => IInv
  <1> SUFFICES ASSUME Init
               PROVE  IInv
    OBVIOUS
  <1>1. NoRequest \in Request
    BY NoRequestInv DEF RequestInv
  <1>2. TypeOK
    BY <1>1 DEF Init, TypeOK
  <1>3. \A q \in Requests : req[q] = NoRequest
    BY DEF Init
  <1> QED BY <1>2, <1>3, NoRequestInv
          DEF Init, IInv, ExitAfterTimers, OnlyFailedFreed

(* One step per action.                                                    *)
LEMMA StepInv ==
  ASSUME IInv, Next
  PROVE  IInv'
  <1>0. /\ cur \in Requests \cup {None}
        /\ proc \in {"setup", "up", "exit", "dead"}
        /\ \A q \in Requests : RequestInv(req[q])
    BY DEF IInv, TypeOK
  <1>1. CASE run
    BY <1>0, <1>1, Same DEF run
  <1>2. CASE CallbackReturns
    BY <1>0, <1>2, Same DEF CallbackReturns
  <1>3. CASE CallbackRaises
    BY <1>0, <1>3, Same DEF CallbackRaises
  <1>4. CASE LoopEnds
    <2>1. \A q \in Requests : ~Active(q)
      BY <1>4, Z3 DEF LoopEnds, uv_run_mode, UV_RUN_DEFAULT
    <2>2. /\ proc' = "exit" /\ UNCHANGED <<cur, req>>
      BY <1>4 DEF LoopEnds
    <2>3. \A q \in Requests : req[q].stage # "none" => req[q].timer = "fired"
      BY <1>0, <2>1 DEF Active, RequestInv, Request
    <2>4. \A q \in Requests :
            req[q].tcp = IF req[q].stage = "failed" THEN "freed" ELSE "kept"
      BY <1>0, <2>1 DEF Active, RequestInv, Request
    <2> QED BY <1>0, <2>2, <2>3, <2>4
            DEF IInv, TypeOK, ExitAfterTimers, OnlyFailedFreed, RequestInv
  <1>5. ASSUME NEW q \in Requests, request(q)
        PROVE  IInv'
    <2>1. PICK stage \in {"connecting", "unsent"}, Lost \in SUBSET Armed :
            req' = [p \in Requests |->
                      IF p = q
                      THEN uv_timer_start([req[q] EXCEPT !.stage = stage,
                                                         !.creq = TRUE])
                      ELSE IF p \in Lost THEN timer_lost(req[p])
                      ELSE req[p]]
      BY <1>5 DEF request
    <2>2. RequestInv(uv_timer_start(
            [req[q] EXCEPT !.stage = stage, !.creq = TRUE]))
      BY <1>0, <1>5, RequestMade DEF request
    <2>3. \A p \in Lost : RequestInv(timer_lost(req[p]))
      BY <1>0, FiredInv DEF Armed
    <2>4. \A p \in Requests :
            req'[p] = IF p = q
                      THEN uv_timer_start([req[q] EXCEPT !.stage = stage,
                                                         !.creq = TRUE])
                      ELSE IF p \in Lost THEN timer_lost(req[p])
                      ELSE req[p]
      BY <2>1
    <2>5. \A p \in Requests : RequestInv(req'[p])
      BY <1>0, <2>2, <2>3, <2>4
    <2>6. req' = [p \in Requests |-> req'[p]]
      BY <2>1
    <2>7. proc' = proc /\ proc # "exit" /\ cur' = cur
      BY <1>5 DEF request, InProgram
    <2> QED BY <2>5, <2>6, <2>7, UpdateAll
  <1>6. ASSUME NEW q \in Requests, request_unresolved(q)
        PROVE  IInv'
    BY <1>0, <1>6, Same DEF request_unresolved
  <1>7. ASSUME NEW q \in Requests, client_connect_cb(q)
        PROVE  IInv'
    <2>1. RequestInv(connected(req[q]))
      BY <1>0, <1>7, ConnectedInv DEF client_connect_cb
    <2> QED BY <1>0, <1>7, <2>1, Update DEF client_connect_cb, Idle
  <1>8. ASSUME NEW q \in Requests, client_connect_cb_error(q)
        PROVE  IInv'
    <2>1. PICK e \in ConnectErrors :
            req' = [req EXCEPT ![q] = not_connected(req[q], e)]
      BY <1>8 DEF client_connect_cb_error
    <2>2. RequestInv(not_connected(req[q], e))
      BY <1>0, <1>8, NotConnectedInv DEF client_connect_cb_error
    <2> QED BY <1>0, <1>8, <2>1, <2>2, Update
            DEF client_connect_cb_error, Idle, Entered
  <1>9. ASSUME NEW q \in Requests, client_connect_cb_crash(q)
        PROVE  IInv'
    BY <1>0, <1>9, Same DEF client_connect_cb_crash
  <1>10. ASSUME NEW q \in Requests, client_read_cb(q)
         PROVE  IInv'
    <2>1. RequestInv(caml_callback([req[q] EXCEPT !.got = TRUE], 1))
      BY <1>0, <1>10, ReadInv DEF client_read_cb
    <2> QED BY <1>0, <1>10, <2>1, Update DEF client_read_cb, Idle, Entered
  <1>11. ASSUME NEW q \in Requests, client_read_cb_end(q)
         PROVE  IInv'
    <2>1. RequestInv(caml_callback([req[q] EXCEPT !.stage = "over"], 1))
      BY <1>0, <1>11, ReadInv DEF client_read_cb_end
    <2> QED BY <1>0, <1>11, <2>1, Update
            DEF client_read_cb_end, Idle, Entered
  <1>12. ASSUME NEW q \in Requests, Written(q)
         PROVE  IInv'
    <2>1. RequestInv(write_cb(req[q]))
      BY <1>0, <1>12, WrittenInv DEF Written
    <2> QED BY <1>0, <1>12, <2>1, Update DEF Written, Idle
  <1>13. ASSUME NEW q \in Requests, timeout_fired_cb(q)
         PROVE  IInv'
    <2>1. RequestInv([req[q] EXCEPT !.timer = "fired"])
      BY <1>0, <1>13, FiredInv DEF timeout_fired_cb
    <2> QED BY <1>0, <1>13, <2>1, Update DEF timeout_fired_cb, Idle
  <1>14. ASSUME NEW q \in Requests, frame_overwritten(q)
         PROVE  IInv'
    BY <1>0, <1>14, Same DEF frame_overwritten
  <1>15. ASSUME NEW q \in Requests, ShutDown(q)
         PROVE  IInv'
    <2>1. RequestInv(shutdown_cb(req[q]))
      BY <1>0, <1>15, ShutInv DEF ShutDown
    <2> QED BY <1>0, <1>15, <2>1, Update DEF ShutDown, Idle
  <1>16. ASSUME NEW q \in Requests, Closed(q)
         PROVE  IInv'
    <2>1. RequestInv(close_cb(req[q]))
      BY <1>0, <1>16, ShutInv DEF Closed
    <2> QED BY <1>0, <1>16, <2>1, Update DEF Closed, Idle
  <1> QED BY <1>1, <1>2, <1>3, <1>4, <1>5, <1>6, <1>7, <1>8, <1>9, <1>10,
             <1>11, <1>12, <1>13, <1>14, <1>15, <1>16 DEF Next

THEOREM Inductive == Spec => []IInv
  <1>1. IInv /\ [Next]_vars => IInv'
    <2> SUFFICES ASSUME IInv, [Next]_vars
                 PROVE  IInv'
      OBVIOUS
    <2>1. CASE UNCHANGED vars
      BY <2>1
         DEF vars, IInv, TypeOK, ExitAfterTimers, OnlyFailedFreed, RequestInv
    <2> QED BY <2>1, StepInv
  <1> QED BY <1>1, InitInv, PTL DEF Spec

(* Every variable keeps its type: no buffer is freed twice and no callback *)
(* runs twice.                                                             *)
THEOREM TypeCorrect == Spec => []TypeOK
  <1>1. IInv => TypeOK
    BY DEF IInv
  <1> QED BY <1>1, Inductive, PTL

(* The body of the callback of a request runs once if its connection       *)
(* failed after uv_tcp_connect was called, and otherwise never.            *)
THEOREM OnlyFailures == Spec => []OnlyFailureCallsBack
  <1>1. IInv => OnlyFailureCallsBack
    BY DEF IInv, OnlyFailureCallsBack, RequestInv
  <1> QED BY <1>1, Inductive, PTL

(* The text to send has one owner at a time, the connect request and then  *)
(* the write request, and is freed once, by write_cb.                      *)
THEOREM FreedOnce == Spec => []BufferFreedOnce
  <1>1. IInv => BufferFreedOnce
    BY DEF IInv, BufferFreedOnce, RequestInv
  <1> QED BY <1>1, Inductive, PTL

(* What client_connect_cb passes on is libuv's own number of the error.    *)
LEMMA Told ==
  ASSUME NEW e \in ConnectErrors
  PROVE  /\ e \in Systems
         /\ -SystemNumber(e) = UV__errno(e)
  <1>1. e \in Systems /\ (errno[e] # 0 \/ (BSD /\ e = EHOSTDOWN))
    BY ConnectErrorsAssumption
  <1>2. CASE errno[e] # 0
    BY <1>1, <1>2 DEF SystemNumber, UV__errno
  <1>3. CASE errno[e] = 0 /\ BSD /\ e = EHOSTDOWN
    <2>1. UV__errno(e) = -64
      BY <1>1, <1>3, ErrnoRange DEF Hidden
    <2> QED BY <1>1, <1>3, <2>1 DEF SystemNumber
  <1> QED BY <1>1, <1>2, <1>3

(* The number told to the program has one name, that of the error.         *)
THEOREM ErrorsIdentified == Spec => []ErrorIdentified
  <1>1. IInv => ErrorIdentified
    <2> SUFFICES ASSUME IInv, NEW q \in Requests, req[q].ran > 0
                 PROVE  /\ UV_ERRNO_MAX < req[q].told /\ req[q].told < 0
                        /\ {UV_ERRNO_MAP[k] : k \in {k \in DOMAIN uv_errno_t :
                                     uv_errno_t[k] = req[q].told}}
                             = {Errnos[req[q].error]}
      BY DEF ErrorIdentified
    <2>1. /\ req[q].error \in ConnectErrors
          /\ req[q].told = -SystemNumber(req[q].error)
      BY DEF IInv, RequestInv
    <2>2. PICK e \in Systems : e = req[q].error /\ req[q].told = UV__errno(e)
      BY <2>1, Told
    <2>3. UV_ERRNO_MAX < req[q].told /\ req[q].told < 0
      BY <2>2, NumbersTellApart
    <2>4. DOMAIN uv_errno_t = DOMAIN UV_ERRNO_MAP
      BY Zenon DEF uv_errno_t
    <2>5. \A k \in DOMAIN UV_ERRNO_MAP :
            uv_errno_t[k] = req[q].told <=> UV_ERRNO_MAP[k] = Errnos[e]
      BY <2>2, NumberOfName, Zenon DEF uv_errno_t
    <2>6. \E k \in DOMAIN UV_ERRNO_MAP : UV_ERRNO_MAP[k] = Errnos[e]
      BY InMap
    <2>7. {UV_ERRNO_MAP[k] : k \in {k \in DOMAIN uv_errno_t :
                                     uv_errno_t[k] = req[q].told}}
                                              = {Errnos[e]}
      BY <2>4, <2>5, <2>6, Zenon
    <2> QED BY <2>2, <2>3, <2>7
  <1> QED BY <1>1, Inductive, PTL

(* The program does not end before the timers of its requests.             *)
THEOREM ExitsLate == Spec => []ExitAfterTimers
  <1>1. IInv => ExitAfterTimers
    BY DEF IInv
  <1> QED BY <1>1, Inductive, PTL

(* When the loop has ended, the handles of failed connections were freed   *)
(* by close_cb, and all others are still there.                            *)
THEOREM OthersKept == Spec => []OnlyFailedFreed
  <1>1. IInv => OnlyFailedFreed
    BY DEF IInv
  <1> QED BY <1>1, Inductive, PTL
=============================================================================
