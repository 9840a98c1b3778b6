---------------------------- MODULE UvTcpProofs ----------------------------
(***************************************************************************)
(* The invariants of UvTcp, for any handles, chunks and bound.  The state  *)
(* of a handle only changes through the operators of UvTcp; each of them   *)
(* keeps HandleInv, which gives IInv, which gives the safety properties.   *)
(* From HandleInv it also follows that UvTcp implements GracefulConn.      *)
(***************************************************************************)
EXTENDS UvTcp, SequenceTheorems, TLAPS

(* The sets of values of three fields of a handle. *)
USE DEF Stages, uv_shutdown_t, write_queue

(* A sequence and what is appended to it, in the form SMT reasons about.   *)
LEMMA AppendFacts ==
  ASSUME NEW S, NEW s \in Seq(S), NEW e \in S
  PROVE  /\ Append(s, e) \in Seq(S)
         /\ Len(Append(s, e)) = Len(s) + 1
         /\ Append(s, e) # <<>>
         /\ \A i \in 1 .. Len(s) : Append(s, e)[i] = s[i]
         /\ Append(s, e)[Len(s) + 1] = e
         /\ Len(s) \in Nat
  BY AppendProperties

(* Moving the head of t to the end of s leaves s \o t as it is.            *)
LEMMA MoveHead ==
  ASSUME NEW S, NEW s \in Seq(S), NEW t \in Seq(S), t # <<>>
  PROVE  /\ Append(s, Head(t)) \o Tail(t) = s \o t
         /\ Head(t) \in S /\ Tail(t) \in Seq(S)
         /\ Len(Tail(t)) = Len(t) - 1 /\ Len(t) > 0
  OBVIOUS

----------------------------------------------------------------------------
(***************************************************************************)
(* HandleInv of a handle whose stage is known, as equations between the    *)
(* Boolean fields and TRUE or FALSE.                                       *)
(***************************************************************************)
OpenInv(t) ==
  /\ t \in Handle
  /\ t.stage = "open" /\ t.root = TRUE /\ t.data = "cb" /\ t.shut # "done"
  /\ t.wreqs = Len(t.wq) + t.done + t.failed
  /\ t.failed > 0 => t.broken = TRUE
  /\ Len(t.wire) <= Len(t.given)
  /\ \A i \in 1 .. Len(t.wire) : t.wire[i] = t.given[i]
  /\ t.broken = FALSE => t.given = t.wire \o t.wq

ClosingInv(t) ==
  /\ t \in Handle
  /\ t.stage = "closing" /\ t.root = TRUE /\ t.data = "cb"
  /\ t.shut = "done"
  /\ t.wq = <<>> /\ t.done = 0 /\ t.failed = 0 /\ t.wreqs = 0
  /\ Len(t.wire) <= Len(t.given)
  /\ \A i \in 1 .. Len(t.wire) : t.wire[i] = t.given[i]
  /\ t.broken = FALSE => t.given = t.wire \o t.wq

LEMMA OpenIntro ==
  ASSUME NEW t, OpenInv(t)
  PROVE  HandleInv(t)
  <1>1. t.broken \in BOOLEAN
    BY DEF OpenInv, Handle
  <1> QED BY <1>1 DEF OpenInv, HandleInv

LEMMA OpenElim ==
  ASSUME NEW t, HandleInv(t), t.stage = "open"
  PROVE  OpenInv(t)
  <1>1. t \in Handle /\ t.root \in BOOLEAN /\ t.broken \in BOOLEAN
    BY DEF HandleInv, Handle
  <1>2. t.root = TRUE
    <2>1. t.root
      BY DEF HandleInv
    <2> QED BY <1>1, <2>1
  <1>3. t.failed > 0 => t.broken = TRUE
    <2>1. t.failed > 0 => t.broken
      BY DEF HandleInv
    <2> QED BY <1>1, <2>1
  <1>4. t.broken = FALSE => t.given = t.wire \o t.wq
    BY <1>1 DEF HandleInv
  <1> QED BY <1>1, <1>2, <1>3, <1>4 DEF OpenInv, HandleInv

LEMMA ClosingIntro ==
  ASSUME NEW t, ClosingInv(t)
  PROVE  HandleInv(t)
  <1>1. t.broken \in BOOLEAN
    BY DEF ClosingInv, Handle
  <1>2. t.root <=> t.stage \in {"open", "closing"}
    BY DEF ClosingInv
  <1>3. t.wreqs = Len(t.wq) + t.done + t.failed
    BY DEF ClosingInv
  <1>4. ~t.broken => t.given = t.wire \o t.wq
    BY <1>1 DEF ClosingInv
  <1> QED BY <1>2, <1>3, <1>4 DEF ClosingInv, HandleInv

----------------------------------------------------------------------------
(* Operators that do not touch the output. *)

(* A freed or freshly initialised handle.                                  *)
LEMMA NewHandleInv ==
  ASSUME NEW stage \in {"free", "inited"}, NEW data \in {"cb", "nil", "junk"}
  PROVE  HandleInv(NewHandle(stage, data, FALSE))
  BY DEF HandleInv, NewHandle, Handle

(* uv_tcp_init, uv_accept, request_on and uv_read_start in a row.          *)
Accepted(t, data) ==
  uv_read_start_ocaml(request_on(uv_accept_ocaml(uv_tcp_init_ocaml(t, data))))

LEMMA AcceptInv ==
  ASSUME NEW t, HandleInv(t), t.stage = "free", NEW data \in {"nil", "junk"}
  PROVE  /\ HandleInv(Accepted(t, data))
         /\ Accepted(t, data).stage = "open" /\ Accepted(t, data).shut = "no"
         /\ Accepted(t, data).given = <<>> /\ Accepted(t, data).wire = <<>>
         /\ Accepted(t, data).broken = FALSE
  <1> DEFINE a == uv_tcp_init_ocaml(t, data)
             b == uv_accept_ocaml(a)
             c == request_on(b)
             u == uv_read_start_ocaml(c)
  <1>1. t.root \in BOOLEAN
    BY DEF HandleInv, Handle
  <1>2. /\ a \in Handle
        /\ a.shut = "no" /\ a.wreqs = 0 /\ a.done = 0 /\ a.failed = 0
        /\ a.wq = <<>> /\ a.given = <<>> /\ a.wire = <<>>
        /\ a.broken = FALSE
    BY <1>1 DEF uv_tcp_init_ocaml, NewHandle, Handle
  <1> HIDE DEF a
  <1>3. /\ b \in Handle /\ b.stage = "open"
        /\ b.shut = "no" /\ b.wreqs = 0 /\ b.done = 0 /\ b.failed = 0
        /\ b.wq = <<>> /\ b.given = <<>> /\ b.wire = <<>>
        /\ b.broken = FALSE
    BY <1>2 DEF uv_accept_ocaml, Handle
  <1> HIDE DEF b
  <1>4. /\ c \in Handle /\ c.stage = "open" /\ c.root = TRUE /\ c.data = "cb"
        /\ c.shut = "no" /\ c.wreqs = 0 /\ c.done = 0 /\ c.failed = 0
        /\ c.wq = <<>> /\ c.given = <<>> /\ c.wire = <<>>
        /\ c.broken = FALSE
    BY <1>3 DEF request_on, Handle
  <1> HIDE DEF c
  <1>5. /\ u \in Handle /\ u.stage = "open" /\ u.root = TRUE /\ u.data = "cb"
        /\ u.shut = "no" /\ u.wreqs = 0 /\ u.done = 0 /\ u.failed = 0
        /\ u.wq = <<>> /\ u.given = <<>> /\ u.wire = <<>>
        /\ u.broken = FALSE
    BY <1>4 DEF uv_read_start_ocaml, Handle
  <1> HIDE DEF u
  <1>6. OpenInv(u)
    BY <1>5 DEF OpenInv
  <1>7. HandleInv(u)
    BY <1>6, OpenIntro
  <1>8. Accepted(t, data) = u
    BY DEF u, c, b, a, Accepted
  <1> QED BY <1>5, <1>7, <1>8

LEMMA ShutdownInv ==
  ASSUME NEW t, HandleInv(t)
  PROVE  /\ HandleInv(uv_shutdown_ocaml(t))
         /\ uv_shutdown_ocaml(t).stage = t.stage
  <1>1. CASE t.stage = "open" /\ t.shut = "no"
    <2> DEFINE u == [t EXCEPT !.shut = "pending"]
    <2>1. t \in Handle
      BY DEF HandleInv
    <2>2. /\ u \in Handle /\ u.shut = "pending"
          /\ u.stage = t.stage /\ u.root = t.root /\ u.data = t.data
          /\ u.wreqs = t.wreqs /\ u.done = t.done /\ u.failed = t.failed
          /\ u.wq = t.wq /\ u.given = t.given /\ u.wire = t.wire
          /\ u.broken = t.broken
      BY <2>1 DEF Handle
    <2>3. uv_shutdown_ocaml(t) = u
      BY <1>1 DEF uv_shutdown_ocaml
    <2> HIDE DEF u
    <2>4. HandleInv(u)
      BY <1>1, <2>2 DEF HandleInv
    <2> QED BY <2>2, <2>3, <2>4
  <1>2. CASE ~(t.stage = "open" /\ t.shut = "no")
    BY <1>2 DEF uv_shutdown_ocaml
  <1> QED BY <1>1, <1>2

LEMMA RefuseInv ==
  ASSUME NEW t, HandleInv(t), t.stage = "free", NEW data \in {"nil", "junk"}
  PROVE  HandleInv(uv_shutdown_ocaml(uv_tcp_init_ocaml(t, data)))
  <1>1. t.root = FALSE
    <2>1. t.root \in BOOLEAN /\ ~t.root
      BY DEF HandleInv, Handle
    <2> QED BY <2>1
  <1>2. HandleInv(uv_tcp_init_ocaml(t, data))
    BY <1>1, NewHandleInv DEF uv_tcp_init_ocaml
  <1> QED BY <1>2, ShutdownInv

LEMMA FinishCloseInv ==
  ASSUME NEW t, HandleInv(t), t.stage = "closing"
  PROVE  HandleInv(uv__finish_close(t))
  <1>1. uv__finish_close(t) = NewHandle("free", "junk", FALSE)
    BY DEF HandleInv, Handle, uv__finish_close, close_cb, uv__write_callbacks,
           write_cb
  <1> QED BY <1>1, NewHandleInv

LEMMA ResetInv ==
  ASSUME NEW t, HandleInv(t), t.stage = "open"
  PROVE  HandleInv([t EXCEPT !.broken = TRUE])
  BY DEF HandleInv, Handle

LEMMA EofInv ==
  ASSUME NEW t, HandleInv(t), NEW b \in BOOLEAN
  PROVE  HandleInv([t EXCEPT !.eof = b])
  BY DEF HandleInv, Handle

----------------------------------------------------------------------------
(* Operators that write. *)

(* One write(2), whatever its result.                                      *)
LEMMA WriteInv ==
  ASSUME NEW t, OpenInv(t), t.wq # <<>>, NEW r \in Results(t)
  PROVE  OpenInv(uv__write(t, r))
  <1>1. /\ t \in Handle /\ t.broken \in BOOLEAN
        /\ t.wq \in Seq(Chunks) /\ t.wire \in Seq(Chunks)
    BY DEF OpenInv, Handle
  <1> DEFINE q == Tail(t.wq)
             w == Append(t.wire, Head(t.wq))
  <1>2. /\ q \in Seq(Chunks) /\ Head(t.wq) \in Chunks
        /\ Len(q) = Len(t.wq) - 1 /\ Len(t.wq) \in Nat \ {0}
    BY <1>1
  <1>3. CASE r = "ok"
    <2> DEFINE u == [t EXCEPT !.wq = q, !.done = t.done + 1, !.wire = w]
    <2>1. t.broken = FALSE
      BY <1>1, <1>3 DEF Results
    <2>2. t.given = t.wire \o t.wq
      BY <2>1 DEF OpenInv
    <2>3. w \in Seq(Chunks)
      BY <1>1, <1>2
    <2>4. t.given = w \o q
      <3>1. w \o q = t.wire \o t.wq
        BY <1>1, MoveHead
      <3> HIDE DEF w, q
      <3> QED BY <2>2, <3>1
    <2>5. Len(w) <= Len(t.given) /\ \A i \in 1 .. Len(w) : w[i] = t.given[i]
      <3> HIDE DEF w, q
      <3> QED BY <1>2, <2>3, <2>4, ConcatProperties
    <2>6. uv__write(t, r) = u
      BY <1>1, <1>3 DEF uv__write, Handle
    <2> HIDE DEF w, q
    <2>7. t.done + 1 \in Nat
      BY <1>1 DEF Handle
    <2>8. u \in Handle
      BY <1>1, <1>2, <2>3, <2>7 DEF Handle
    <2>9. /\ u.stage = t.stage /\ u.root = t.root /\ u.data = t.data
          /\ u.shut = t.shut /\ u.wreqs = t.wreqs /\ u.wq = q
          /\ u.done = t.done + 1 /\ u.failed = t.failed /\ u.wire = w
          /\ u.given = t.given /\ u.broken = t.broken
      BY <1>1 DEF Handle
    <2> HIDE DEF u
    <2>10. OpenInv(u)
      <3>1. u.stage = "open" /\ u.root = TRUE /\ u.data = "cb"
            /\ u.shut # "done"
        BY <2>9 DEF OpenInv
      <3>2. u.wreqs = Len(u.wq) + u.done + u.failed
        <4>1. t.done \in Nat /\ t.failed \in Nat
          BY <1>1 DEF Handle
        <4>2. t.wreqs = Len(t.wq) + t.done + t.failed
          BY DEF OpenInv
        <4>3. Len(t.wq) \in Nat /\ Len(q) = Len(t.wq) - 1
          BY <1>2
        <4>4. Len(q) + (t.done + 1) + t.failed = Len(t.wq) + t.done + t.failed
          <5> DEFINE l == Len(t.wq)
                     m == Len(q)
                     d == t.done
                     f == t.failed
          <5>1. l \in Nat /\ m = l - 1 /\ d \in Nat /\ f \in Nat
            BY <4>1, <4>3
          <5> HIDE DEF l, m, d, f
          <5>2. m + (d + 1) + f = l + d + f
            BY <5>1
          <5> QED BY <5>2, Zenon DEF l, m, d, f
        <4>5. u.wreqs = Len(q) + (t.done + 1) + t.failed
          BY <2>9, <4>2, <4>4, Zenon
        <4> QED BY <2>9, <4>5, Zenon
      <3>3. u.failed > 0 => u.broken = TRUE
        BY <2>9 DEF OpenInv
      <3>4. /\ Len(u.wire) <= Len(u.given)
            /\ \A i \in 1 .. Len(u.wire) : u.wire[i] = u.given[i]
        BY <2>5, <2>9
      <3>5. u.given = u.wire \o u.wq
        BY <2>4, <2>9
      <3> QED BY <2>8, <3>1, <3>2, <3>3, <3>4, <3>5 DEF OpenInv
    <2> QED BY <2>6, <2>10
  <1>4. CASE r = "err"
    <2> DEFINE u == [t EXCEPT !.wq = q, !.failed = t.failed + 1]
    <2>1. t.broken = TRUE
      BY <1>1, <1>4 DEF Results
    <2>2. uv__write(t, r) = u
      BY <1>1, <1>4 DEF uv__write, Handle
    <2> HIDE DEF q
    <2>3. t.failed + 1 \in Nat
      BY <1>1 DEF Handle
    <2>4. u \in Handle
      BY <1>1, <1>2, <2>3 DEF Handle
    <2>5. /\ u.stage = t.stage /\ u.root = t.root /\ u.data = t.data
          /\ u.shut = t.shut /\ u.wreqs = t.wreqs /\ u.wq = q
          /\ u.done = t.done /\ u.failed = t.failed + 1
          /\ u.wire = t.wire /\ u.given = t.given /\ u.broken = t.broken
      BY <1>1 DEF Handle
    <2> HIDE DEF u
    <2>6. OpenInv(u)
      <3>1. u.stage = "open" /\ u.root = TRUE /\ u.data = "cb"
            /\ u.shut # "done"
        BY <2>5 DEF OpenInv
      <3>2. u.wreqs = Len(u.wq) + u.done + u.failed
        <4>1. t.done \in Nat /\ t.failed \in Nat
          BY <1>1 DEF Handle
        <4>2. t.wreqs = Len(t.wq) + t.done + t.failed
          BY DEF OpenInv
        <4>3. Len(t.wq) \in Nat /\ Len(q) = Len(t.wq) - 1
          BY <1>2
        <4>4. Len(q) + t.done + (t.failed + 1) = Len(t.wq) + t.done + t.failed
          <5> DEFINE l == Len(t.wq)
                     m == Len(q)
                     d == t.done
                     f == t.failed
          <5>1. l \in Nat /\ m = l - 1 /\ d \in Nat /\ f \in Nat
            BY <4>1, <4>3
          <5> HIDE DEF l, m, d, f
          <5>2. m + d + (f + 1) = l + d + f
            BY <5>1
          <5> QED BY <5>2, Zenon DEF l, m, d, f
        <4>5. u.wreqs = Len(q) + t.done + (t.failed + 1)
          BY <2>5, <4>2, <4>4, Zenon
        <4> QED BY <2>5, <4>5, Zenon
      <3>3. u.broken = TRUE
        BY <2>1, <2>5
      <3>4. /\ Len(u.wire) <= Len(u.given)
            /\ \A i \in 1 .. Len(u.wire) : u.wire[i] = u.given[i]
        BY <2>5 DEF OpenInv
      <3> QED BY <2>4, <3>1, <3>2, <3>3, <3>4 DEF OpenInv
    <2> QED BY <2>2, <2>6
  <1>5. CASE r = "again"
    BY <1>5 DEF uv__write
  <1> QED BY <1>3, <1>4, <1>5 DEF Results

(* uv_write queues the chunk ...                                           *)
Queued(t, c) ==
  [t EXCEPT !.wq = Append(t.wq, c), !.given = Append(t.given, c),
            !.wreqs = t.wreqs + 1]

LEMMA QueuedInv ==
  ASSUME NEW t, HandleInv(t), t.stage = "open", NEW c \in Chunks
  PROVE  /\ OpenInv(Queued(t, c)) /\ Queued(t, c).wq # <<>>
         /\ Queued(t, c).given = Append(t.given, c)
         /\ Queued(t, c).wire = t.wire /\ Queued(t, c).shut = t.shut
         /\ Queued(t, c).broken = t.broken
  <1> DEFINE wq == Append(t.wq, c)
             given == Append(t.given, c)
             q == [t EXCEPT !.wq = wq, !.given = given, !.wreqs = t.wreqs + 1]
  <1>1. OpenInv(t)
    BY OpenElim
  <1>2. /\ t \in Handle /\ t.wq \in Seq(Chunks)
        /\ t.given \in Seq(Chunks) /\ t.wire \in Seq(Chunks)
    BY <1>1 DEF OpenInv, Handle
  <1>3. /\ wq \in Seq(Chunks) /\ wq # <<>> /\ Len(wq) = Len(t.wq) + 1
        /\ given \in Seq(Chunks) /\ Len(given) = Len(t.given) + 1
        /\ \A i \in 1 .. Len(t.given) : given[i] = t.given[i]
        /\ Len(t.wire) \in Nat /\ Len(t.given) \in Nat /\ Len(t.wq) \in Nat
    <2>1. wq \in Seq(Chunks) /\ wq # <<>> /\ Len(wq) = Len(t.wq) + 1
      BY <1>2, AppendFacts
    <2>2. /\ given \in Seq(Chunks) /\ Len(given) = Len(t.given) + 1
          /\ \A i \in 1 .. Len(t.given) : given[i] = t.given[i]
      BY <1>2, AppendFacts
    <2>3. Len(t.wire) \in Nat /\ Len(t.given) \in Nat /\ Len(t.wq) \in Nat
      BY <1>2
    <2> QED BY <2>1, <2>2, <2>3
  <1>4. t.broken = FALSE => given = t.wire \o wq
    <2>1. Append(t.wire \o t.wq, c) = t.wire \o wq
      <3>1. \A x \in Seq(Chunks), y \in Seq(Chunks), e \in Chunks :
              Append(x \o y, e) = x \o Append(y, e)
        OBVIOUS
      <3> QED BY ONLY <1>2, <3>1, c \in Chunks
    <2> HIDE DEF wq
    <2> QED BY <1>1, <2>1 DEF OpenInv
  <1>5. q \in Handle
    <2>1. t.wreqs + 1 \in Nat
      BY <1>2 DEF Handle
    <2> HIDE DEF wq, given
    <2> QED BY <1>2, <1>3, <2>1 DEF Handle
  <1>6. /\ q.stage = t.stage /\ q.root = t.root /\ q.data = t.data
        /\ q.shut = t.shut /\ q.wreqs = t.wreqs + 1 /\ q.wq = wq
        /\ q.done = t.done /\ q.failed = t.failed /\ q.wire = t.wire
        /\ q.given = given /\ q.broken = t.broken
        /\ t.done \in Nat /\ t.failed \in Nat /\ t.wreqs \in Nat
    <2> HIDE DEF wq, given
    <2> QED BY <1>2 DEF Handle
  <1>7. OpenInv(q)
    <2> HIDE DEF wq, given, q
    <2>1. q.stage = "open" /\ q.root = TRUE /\ q.data = "cb" /\ q.shut # "done"
      BY <1>1, <1>6 DEF OpenInv
    <2>2. q.wreqs = Len(q.wq) + q.done + q.failed
      <3>1. t.wreqs = Len(t.wq) + t.done + t.failed
        BY <1>1 DEF OpenInv
      <3>2. t.wreqs + 1 = Len(wq) + t.done + t.failed
        <4> DEFINE l == Len(t.wq)
                   m == Len(wq)
                   d == t.done
                   f == t.failed
        <4>1. l \in Nat /\ m = l + 1 /\ d \in Nat /\ f \in Nat
          BY <1>3, <1>6
        <4>2. t.wreqs = l + d + f
          BY <3>1, Zenon
        <4> HIDE DEF l, m, d, f
        <4>3. (l + d + f) + 1 = m + d + f
          BY <4>1
        <4> QED BY <4>2, <4>3, Zenon DEF l, m, d, f
      <3> QED BY <1>6, <3>2, Zenon
    <2>3. q.failed > 0 => q.broken = TRUE
      BY <1>1, <1>6 DEF OpenInv
    <2>4. Len(q.wire) <= Len(q.given)
      BY <1>1, <1>3, <1>6 DEF OpenInv
    <2>5. \A i \in 1 .. Len(q.wire) : q.wire[i] = q.given[i]
      <3>1. /\ Len(t.wire) <= Len(t.given)
            /\ \A i \in 1 .. Len(t.wire) : t.wire[i] = t.given[i]
        BY <1>1 DEF OpenInv
      <3> SUFFICES ASSUME NEW i \in 1 .. Len(t.wire)
                   PROVE  t.wire[i] = given[i]
        BY <1>6
      <3>2. i \in 1 .. Len(t.given)
        BY <1>3, <3>1
      <3> QED BY <1>3, <3>1, <3>2
    <2>6. q.broken = FALSE => q.given = q.wire \o q.wq
      BY <1>4, <1>6
    <2> QED BY <1>5, <2>1, <2>2, <2>3, <2>4, <2>5, <2>6 DEF OpenInv
  <1>8. q.wq # <<>>
    <2> HIDE DEF wq, q
    <2> QED BY <1>3, <1>6
  <1>9. Queued(t, c) = q
    BY DEF Queued
  <1> HIDE DEF q
  <1> QED BY <1>6, <1>7, <1>8, <1>9

(* ... and may try it at once.                                             *)
LEMMA UvWriteInv ==
  ASSUME NEW t, HandleInv(t), t.stage = "open",
         NEW c \in Chunks, NEW r \in Results(t)
  PROVE  /\ OpenInv(uv_write_ocaml(t, c, r))
         /\ HandleInv(uv_write_ocaml(t, c, r))
         /\ uv_write_ocaml(t, c, r).stage = "open"
         /\ uv_write_ocaml(t, c, r)
              = IF t.wq = <<>> /\ t.failed = 0 THEN uv__write(Queued(t, c), r)
                ELSE Queued(t, c)
  <1>1. t \in Handle
    BY DEF HandleInv
  <1>2. uv_write_ocaml(t, c, r)
          = IF t.wq = <<>> /\ t.failed = 0 THEN uv__write(Queued(t, c), r)
            ELSE Queued(t, c)
    BY <1>1 DEF uv_write_ocaml, AtOnce, Queued, Handle
  <1>3. r \in Results(Queued(t, c))
    BY QueuedInv DEF Results
  <1>4. OpenInv(uv_write_ocaml(t, c, r))
    BY <1>2, <1>3, QueuedInv, WriteInv
  <1> QED BY <1>2, <1>4, OpenIntro DEF OpenInv

(* The callbacks of the completed requests free them.                      *)
LEMMA CallbacksInv ==
  ASSUME NEW t, OpenInv(t)
  PROVE  /\ OpenInv(uv__write_callbacks(t))
         /\ uv__write_callbacks(t).done = 0
         /\ uv__write_callbacks(t).failed = 0
  <1> DEFINE u == [t EXCEPT !.done = 0, !.failed = 0,
                            !.wreqs = t.wreqs - (t.done + t.failed)]
  <1>1. t \in Handle
    BY DEF OpenInv
  <1>2. uv__write_callbacks(t) = u
    BY <1>1 DEF Handle, uv__write_callbacks, write_cb
  <1>3. Len(t.wq) \in Nat
    BY <1>1 DEF Handle
  <1>4. t.wreqs - (t.done + t.failed) = Len(t.wq)
    BY <1>1, <1>3 DEF OpenInv, Handle
  <1>5. u \in Handle
    BY <1>1, <1>3, <1>4 DEF Handle
  <1>6. /\ u.stage = t.stage /\ u.root = t.root /\ u.data = t.data
        /\ u.shut = t.shut /\ u.wreqs = Len(t.wq) /\ u.wq = t.wq
        /\ u.done = 0 /\ u.failed = 0 /\ u.wire = t.wire
        /\ u.given = t.given /\ u.broken = t.broken
    BY <1>1, <1>4 DEF Handle
  <1>7. OpenInv(u)
    <2> HIDE DEF u
    <2>1. u.stage = "open" /\ u.root = TRUE /\ u.data = "cb" /\ u.shut # "done"
      BY <1>6 DEF OpenInv
    <2>2. u.wreqs = Len(u.wq) + u.done + u.failed
      BY <1>3, <1>6
    <2>3. ~(u.failed > 0)
      BY <1>6
    <2>4. /\ Len(u.wire) <= Len(u.given)
          /\ \A i \in 1 .. Len(u.wire) : u.wire[i] = u.given[i]
      BY <1>6 DEF OpenInv
    <2>5. u.broken = FALSE => u.given = u.wire \o u.wq
      BY <1>6 DEF OpenInv
    <2> QED BY <1>5, <2>1, <2>2, <2>3, <2>4, <2>5 DEF OpenInv
  <1> QED BY <1>2, <1>6, <1>7

(* The pending shutdown closes the handle when nothing is left to write.   *)
LEMMA DrainInv ==
  ASSUME NEW t, OpenInv(t), t.done = 0, t.failed = 0
  PROVE  HandleInv(uv__drain(t))
  <1> DEFINE u == [t EXCEPT !.shut = "done", !.stage = "closing",
                            !.reading = FALSE]
  <1>1. CASE t.wq = <<>> /\ t.shut = "pending"
    <2>1. t \in Handle
      BY DEF OpenInv
    <2>2. uv__drain(t) = u
      BY <1>1, <2>1 DEF uv__drain, shutdown_cb, Handle
    <2>3. u \in Handle
      BY <2>1 DEF Handle
    <2>4. /\ u.stage = "closing" /\ u.root = t.root /\ u.data = t.data
          /\ u.shut = "done" /\ u.wreqs = t.wreqs /\ u.wq = t.wq
          /\ u.done = t.done /\ u.failed = t.failed /\ u.wire = t.wire
          /\ u.given = t.given /\ u.broken = t.broken
      BY <2>1 DEF Handle
    <2>5. ClosingInv(u)
      <3> HIDE DEF u
      <3> QED BY <1>1, <2>3, <2>4 DEF OpenInv, ClosingInv
    <2> QED BY <2>2, <2>5, ClosingIntro
  <1>2. CASE ~(t.wq = <<>> /\ t.shut = "pending")
    BY <1>2, OpenIntro DEF uv__drain
  <1> QED BY <1>1, <1>2

LEMMA StreamIoInv ==
  ASSUME NEW t, HandleInv(t), t.stage = "open", NEW r \in Results(t)
  PROVE  HandleInv(uv__stream_io(t, r))
  <1> DEFINE w == IF t.wq = <<>> THEN t ELSE uv__write(t, r)
  <1>1. OpenInv(w)
    BY OpenElim, WriteInv
  <1>2. uv__stream_io(t, r) = uv__drain(uv__write_callbacks(w))
    BY DEF uv__stream_io
  <1> HIDE DEF w
  <1> QED BY <1>1, <1>2, CallbacksInv, DrainInv

----------------------------------------------------------------------------
(* The inductive invariant. *)

LEMMA InitIInv == Init => IInv
  <1> SUFFICES ASSUME Init PROVE IInv
    OBVIOUS
  <1>1. \A h \in Handles : HandleInv(tcp[h])
    BY NewHandleInv DEF Init
  <1>2. tcp \in [Handles -> Handle]
    BY <1>1 DEF Init, HandleInv
  <1> QED BY <1>1, <1>2 DEF Init, IInv, TypeOK, HandlerOnOpenHandle

(* A step that replaces the record of one handle by a good one.  The       *)
(* running handler, if any, still finds its handle open.                   *)
LEMMA UpdateInv ==
  ASSUME IInv, NEW h \in Handles, NEW u, HandleInv(u),
         tcp' = [tcp EXCEPT ![h] = u], UNCHANGED cur,
         proc' \in {"setup", "up", "exit", "dead"},
         cur = h => u.stage = "open"
  PROVE  IInv'
  <1>1. \A k \in Handles : HandleInv(tcp'[k])
    BY DEF IInv, TypeOK
  <1>2. tcp' \in [Handles -> Handle]
    <2>1. u \in Handle
      BY DEF HandleInv
    <2> QED BY <2>1 DEF IInv, TypeOK
  <1>3. cur' # NoHandle => tcp'[cur'].stage = "open"
    BY DEF IInv, TypeOK, HandlerOnOpenHandle
  <1>4. (\A k \in Handles : HandleInv(tcp[k]))'
    BY <1>1
  <1> QED BY <1>2, <1>3, <1>4 DEF IInv, TypeOK, HandlerOnOpenHandle

LEMMA IInvInductive == IInv /\ [Next]_vars => IInv'
  <1> SUFFICES ASSUME IInv, [Next]_vars PROVE IInv'
    OBVIOUS
  <1> USE HandlesAssumption
  <1>1. CASE Listen
    BY <1>1 DEF Listen, IInv, TypeOK, HandlerOnOpenHandle
  <1>2. ASSUME NEW h \in Handles, ConnectionAccepted(h) PROVE IInv'
    <2>1. PICK data \in {"nil", "junk"} :
            tcp' = [tcp EXCEPT ![h] = Accepted(tcp[h], data)]
      BY <1>2 DEF ConnectionAccepted, Accepted
    <2>2. HandleInv(tcp[h]) /\ tcp[h].stage = "free" /\ cur # h
      BY <1>2 DEF ConnectionAccepted, Idle, IInv
    <2>3. UNCHANGED cur /\ proc' \in {"setup", "up", "exit", "dead"}
      BY <1>2 DEF ConnectionAccepted, IInv, TypeOK
    <2> QED BY <2>1, <2>2, <2>3, AcceptInv, UpdateInv
  <1>3. ASSUME NEW h \in Handles, ConnectionRefused(h) PROVE IInv'
    <2>1. PICK data \in {"nil", "junk"} :
            tcp' = [tcp EXCEPT ![h] =
                      uv_shutdown_ocaml(uv_tcp_init_ocaml(tcp[h], data))]
      BY <1>3 DEF ConnectionRefused
    <2>2. HandleInv(tcp[h]) /\ tcp[h].stage = "free" /\ cur # h
      BY <1>3 DEF ConnectionRefused, Idle, IInv
    <2>3. UNCHANGED cur /\ proc' \in {"setup", "up", "exit", "dead"}
      BY <1>3 DEF ConnectionRefused, IInv, TypeOK
    <2> QED BY <2>1, <2>2, <2>3, RefuseInv, UpdateInv
  <1>4. ASSUME NEW h \in Handles, ReadData(h) PROVE IInv'
    BY <1>4 DEF ReadData, CanRead, IInv, TypeOK, HandlerOnOpenHandle
  <1>5. ASSUME NEW h \in Handles, ReadFails(h) PROVE IInv'
    <2>1. PICK eof \in BOOLEAN : tcp' = [tcp EXCEPT ![h].eof = eof]
      BY <1>5 DEF ReadFails
    <2> DEFINE u == [tcp[h] EXCEPT !.eof = eof]
    <2>2. tcp' = [tcp EXCEPT ![h] = u]
      BY <2>1
    <2>3. HandleInv(tcp[h]) /\ cur # h
      BY <1>5 DEF ReadFails, CanRead, Idle, IInv
    <2>4. UNCHANGED cur /\ proc' = "dead"
      BY <1>5 DEF ReadFails
    <2>5. HandleInv(u)
      BY <2>3, EofInv
    <2> HIDE DEF u
    <2> QED BY <2>2, <2>3, <2>4, <2>5, UpdateInv
  <1>6. ASSUME NEW h \in Handles, Write(h) PROVE IInv'
    <2>1. PICK c \in Chunks, r \in Results(tcp[h]) :
            tcp' = [tcp EXCEPT ![h] = uv_write_ocaml(tcp[h], c, r)]
      BY <1>6 DEF Write
    <2>2. HandleInv(tcp[h]) /\ tcp[h].stage = "open"
      BY <1>6 DEF Write, Running, IInv, HandlerOnOpenHandle
    <2>3. UNCHANGED cur /\ proc' \in {"setup", "up", "exit", "dead"}
      BY <1>6 DEF Write, IInv, TypeOK
    <2> QED BY <2>1, <2>2, <2>3, UvWriteInv, UpdateInv
  <1>7. ASSUME NEW h \in Handles, endConnection(h) PROVE IInv'
    <2>1. PICK c \in Chunks, r \in Results(tcp[h]) :
            tcp' = [tcp EXCEPT ![h] =
                      uv_shutdown_ocaml(uv_write_ocaml(tcp[h], c, r))]
      BY <1>7 DEF endConnection
    <2>2. HandleInv(tcp[h]) /\ tcp[h].stage = "open"
      BY <1>7 DEF endConnection, Running, IInv, HandlerOnOpenHandle
    <2>3. UNCHANGED cur /\ proc' \in {"setup", "up", "exit", "dead"}
      BY <1>7 DEF endConnection, IInv, TypeOK
    <2> DEFINE w == uv_write_ocaml(tcp[h], c, r)
               u == uv_shutdown_ocaml(w)
    <2>4. HandleInv(w) /\ w.stage = "open"
      BY <2>2, UvWriteInv
    <2> HIDE DEF w
    <2>5. HandleInv(u) /\ u.stage = "open"
      BY <2>4, ShutdownInv
    <2>6. tcp' = [tcp EXCEPT ![h] = u]
      BY <2>1 DEF w
    <2> HIDE DEF u
    <2> QED BY <2>3, <2>5, <2>6, UpdateInv
  <1>8. ASSUME NEW h \in Handles, ReadReturns(h) PROVE IInv'
    BY <1>8 DEF ReadReturns, IInv, TypeOK, HandlerOnOpenHandle
  <1>9. ASSUME NEW h \in Handles, HandlerRaises(h) PROVE IInv'
    BY <1>9 DEF HandlerRaises, IInv, TypeOK, HandlerOnOpenHandle
  <1>10. ASSUME NEW h \in Handles, Writable(h) PROVE IInv'
    <2>1. PICK r \in Results(tcp[h]) :
            tcp' = [tcp EXCEPT ![h] = uv__stream_io(tcp[h], r)]
      BY <1>10 DEF Writable
    <2>2. HandleInv(tcp[h]) /\ tcp[h].stage = "open" /\ cur # h
      BY <1>10 DEF Writable, Idle, IInv
    <2>3. UNCHANGED cur /\ proc' \in {"setup", "up", "exit", "dead"}
      BY <1>10 DEF Writable, IInv, TypeOK
    <2> QED BY <2>1, <2>2, <2>3, StreamIoInv, UpdateInv
  <1>11. ASSUME NEW h \in Handles, Closing(h) PROVE IInv'
    <2>1. tcp' = [tcp EXCEPT ![h] = uv__finish_close(tcp[h])]
      BY <1>11 DEF Closing
    <2>2. HandleInv(tcp[h]) /\ tcp[h].stage = "closing" /\ cur # h
      BY <1>11 DEF Closing, Idle, IInv
    <2>3. UNCHANGED cur /\ proc' \in {"setup", "up", "exit", "dead"}
      BY <1>11 DEF Closing, IInv, TypeOK
    <2> QED BY <2>1, <2>2, <2>3, FinishCloseInv, UpdateInv
  <1>12. ASSUME NEW h \in Handles, PeerReset(h) PROVE IInv'
    <2> DEFINE u == [tcp[h] EXCEPT !.broken = TRUE]
    <2>1. tcp' = [tcp EXCEPT ![h] = u]
      BY <1>12 DEF PeerReset
    <2>2. HandleInv(tcp[h]) /\ tcp[h].stage = "open" /\ tcp[h] \in Handle
      BY <1>12 DEF PeerReset, IInv, HandleInv
    <2>3. UNCHANGED cur /\ proc' \in {"setup", "up", "exit", "dead"}
      BY <1>12 DEF PeerReset, IInv, TypeOK
    <2>4. HandleInv(u)
      BY <2>2, ResetInv
    <2>5. u.stage = "open"
      BY <2>2 DEF Handle
    <2> HIDE DEF u
    <2> QED BY <2>1, <2>3, <2>4, <2>5, UpdateInv
  <1>13. ASSUME NEW h \in Handles, SigPipe(h) PROVE IInv'
    BY <1>13 DEF SigPipe, IInv, TypeOK, HandlerOnOpenHandle
  <1>14. CASE UNCHANGED vars
    BY <1>14 DEF vars, IInv, TypeOK, HandlerOnOpenHandle
  <1> QED BY <1>1, <1>2, <1>3, <1>4, <1>5, <1>6, <1>7, <1>8, <1>9, <1>10,
             <1>11, <1>12, <1>13, <1>14 DEF Next

LEMMA IInvAlways == Spec => []IInv
  BY InitIInv, IInvInductive, PTL DEF Spec

----------------------------------------------------------------------------
(* What follows from it. *)

(* Every reachable state is well typed: among other things no count of     *)
(* write requests goes below zero, so write_cb never frees one twice.      *)
THEOREM TypeCorrect == Spec => []TypeOK
  <1>1. IInv => TypeOK
    BY DEF IInv
  <1> QED BY <1>1, IInvAlways, PTL

(* The closure read_cb calls is a root of the collector exactly while      *)
(* libuv can call it, and a freed address is never one.                    *)
THEOREM RootsSafe == Spec => []RootsMatchConnections
  <1>1. IInv => RootsMatchConnections
    BY DEF IInv, HandleInv, RootsMatchConnections
  <1> QED BY <1>1, IInvAlways, PTL

(* close_cb frees a handle no request refers to.                           *)
THEOREM ClosingSafe == Spec => []ClosingIsQuiet
  <1>1. IInv => ClosingIsQuiet
    <2> SUFFICES ASSUME IInv, NEW h \in Handles, tcp[h].stage = "closing"
                 PROVE  /\ tcp[h].wq = <<>> /\ tcp[h].done = 0
                        /\ tcp[h].failed = 0 /\ tcp[h].wreqs = 0
                        /\ tcp[h].shut = "done"
      BY DEF ClosingIsQuiet
    <2>1. HandleInv(tcp[h])
      BY DEF IInv
    <2> QED BY <2>1 DEF HandleInv
  <1> QED BY <1>1, IInvAlways, PTL

(* No handle is closed under the handler that is using it.                 *)
THEOREM HandlerSafe == Spec => []HandlerOnOpenHandle
  <1>1. IInv => HandlerOnOpenHandle
    BY DEF IInv
  <1> QED BY <1>1, IInvAlways, PTL

(* Every write request is queued or awaits the callback that frees it.     *)
THEOREM WriteReqsSafe == Spec => []WriteReqsAccounted
  <1>1. IInv => WriteReqsAccounted
    BY DEF IInv, HandleInv, WriteReqsAccounted
  <1> QED BY <1>1, IInvAlways, PTL

(* The kernel gets a prefix of what was written, in order, and the write   *)
(* queue holds the rest while the peer is there.                           *)
THEOREM OutputSafe == Spec => []OutputInOrder
  <1>1. IInv => OutputInOrder
    BY DEF IInv, HandleInv, OutputInOrder
  <1> QED BY <1>1, IInvAlways, PTL

----------------------------------------------------------------------------
(***************************************************************************)
(* UvTcp implements GracefulConn: every step of a handle that satisfies    *)
(* HandleInv is a step of the abstract connection, or leaves it as it is.  *)
(***************************************************************************)
(* The output of a handle, as the abstract connection sees it.             *)
Grows(t, u) ==
  /\ Graceful!Prefix(t.given, u.given)
  /\ Graceful!Prefix(t.wire, u.wire)
  /\ u.broken = t.broken
  /\ t.broken => u.wire = t.wire

LEMMA PrefixSame ==
  ASSUME NEW s \in Seq(Chunks)
  PROVE  Graceful!Prefix(s, s)
  <1>1. Len(s) \in Nat
    OBVIOUS
  <1> QED BY <1>1 DEF Graceful!Prefix

LEMMA PrefixAppend ==
  ASSUME NEW s \in Seq(Chunks), NEW c \in Chunks
  PROVE  Graceful!Prefix(s, Append(s, c))
  <1>1. Len(s) \in Nat
    OBVIOUS
  <1> QED BY <1>1, AppendFacts DEF Graceful!Prefix

LEMMA PrefixTrans ==
  ASSUME NEW s \in Seq(Chunks), NEW t \in Seq(Chunks), NEW u \in Seq(Chunks),
         Graceful!Prefix(s, t), Graceful!Prefix(t, u)
  PROVE  Graceful!Prefix(s, u)
  <1>1. Len(s) \in Nat /\ Len(t) \in Nat /\ Len(u) \in Nat
    OBVIOUS
  <1>2. /\ Len(s) <= Len(t) /\ \A i \in 1 .. Len(s) : s[i] = t[i]
        /\ Len(t) <= Len(u) /\ \A i \in 1 .. Len(t) : t[i] = u[i]
    BY DEF Graceful!Prefix
  <1>3. \A i \in 1 .. Len(s) : i \in 1 .. Len(t)
    BY <1>1, <1>2
  <1> QED BY <1>1, <1>2, <1>3 DEF Graceful!Prefix

LEMMA GrowsSame ==
  ASSUME NEW t \in Handle, NEW u,
         u.given = t.given, u.wire = t.wire, u.broken = t.broken
  PROVE  Grows(t, u)
  BY PrefixSame DEF Grows, Handle

LEMMA GrowsTrans ==
  ASSUME NEW t \in Handle, NEW u \in Handle, NEW v \in Handle,
         Grows(t, u), Grows(u, v)
  PROVE  Grows(t, v)
  <1>1. /\ t.given \in Seq(Chunks) /\ u.given \in Seq(Chunks)
        /\ v.given \in Seq(Chunks) /\ t.wire \in Seq(Chunks)
        /\ u.wire \in Seq(Chunks) /\ v.wire \in Seq(Chunks)
    BY DEF Handle
  <1>2. Graceful!Prefix(t.given, v.given)
    BY <1>1, PrefixTrans DEF Grows
  <1>3. Graceful!Prefix(t.wire, v.wire)
    BY <1>1, PrefixTrans DEF Grows
  <1> QED BY <1>2, <1>3 DEF Grows

----------------------------------------------------------------------------
(* What the operators of UvTcp do to the output.                           *)

LEMMA WriteGrows ==
  ASSUME NEW t, OpenInv(t), t.wq # <<>>, NEW r \in Results(t)
  PROVE  /\ Grows(t, uv__write(t, r))
         /\ uv__write(t, r).given = t.given
         /\ uv__write(t, r).shut = t.shut
  <1>1. /\ t \in Handle /\ t.broken \in BOOLEAN
        /\ t.wq \in Seq(Chunks) /\ t.wire \in Seq(Chunks)
    BY DEF OpenInv, Handle
  <1> DEFINE q == Tail(t.wq)
             w == Append(t.wire, Head(t.wq))
  <1>2. CASE r = "ok"
    <2> DEFINE u == [t EXCEPT !.wq = q, !.done = t.done + 1, !.wire = w]
    <2>1. t.broken = FALSE
      BY <1>1, <1>2 DEF Results
    <2>2. uv__write(t, r) = u
      BY <1>1, <1>2 DEF uv__write, Handle
    <2>3. Graceful!Prefix(t.wire, w)
      BY <1>1, PrefixAppend, MoveHead
    <2> HIDE DEF w, q
    <2>4. /\ u.shut = t.shut /\ u.given = t.given /\ u.wire = w
          /\ u.broken = t.broken
      BY <1>1 DEF Handle
    <2> HIDE DEF u
    <2>5. Graceful!Prefix(t.given, u.given)
      BY <1>1, <2>4, PrefixSame DEF Handle
    <2> QED BY <2>1, <2>2, <2>3, <2>4, <2>5 DEF Grows
  <1>3. CASE r = "err"
    <2> DEFINE u == [t EXCEPT !.wq = q, !.failed = t.failed + 1]
    <2>1. uv__write(t, r) = u
      BY <1>1, <1>3 DEF uv__write, Handle
    <2> HIDE DEF q
    <2>2. /\ u.shut = t.shut /\ u.given = t.given /\ u.wire = t.wire
          /\ u.broken = t.broken
      BY <1>1 DEF Handle
    <2> HIDE DEF u
    <2> QED BY <1>1, <2>1, <2>2, GrowsSame
  <1>4. CASE r = "again"
    BY <1>1, <1>4, GrowsSame DEF uv__write
  <1> QED BY <1>2, <1>3, <1>4 DEF Results

LEMMA UvWriteGrows ==
  ASSUME NEW t, HandleInv(t), t.stage = "open",
         NEW c \in Chunks, NEW r \in Results(t)
  PROVE  /\ Grows(t, uv_write_ocaml(t, c, r))
         /\ uv_write_ocaml(t, c, r).shut = t.shut
  <1> DEFINE q == Queued(t, c)
             u == uv_write_ocaml(t, c, r)
  <1>1. /\ t \in Handle /\ t.given \in Seq(Chunks) /\ t.wire \in Seq(Chunks)
    BY DEF HandleInv, Handle
  <1>2. /\ OpenInv(q) /\ q.wq # <<>> /\ q.given = Append(t.given, c)
        /\ q.wire = t.wire /\ q.shut = t.shut /\ q.broken = t.broken
    BY QueuedInv
  <1>3. OpenInv(u) /\ (u = uv__write(q, r) \/ u = q)
    BY UvWriteInv
  <1>4. r \in Results(q)
    BY <1>2 DEF Results
  <1> HIDE DEF q, u
  <1>5. q \in Handle /\ u \in Handle
    BY <1>2, <1>3 DEF OpenInv
  <1>6. Grows(t, q)
    BY <1>1, <1>2, PrefixAppend, PrefixSame DEF Grows
  <1>7. Grows(q, u) /\ u.shut = q.shut
    BY <1>2, <1>3, <1>4, <1>5, WriteGrows, GrowsSame
  <1> QED BY <1>1, <1>2, <1>5, <1>6, <1>7, GrowsTrans DEF u

(* The loop writes, calls back what is done and, at the end, closes.       *)
LEMMA StreamIoGrows ==
  ASSUME NEW t, HandleInv(t), t.stage = "open", NEW r \in Results(t)
  PROVE  /\ Grows(t, uv__stream_io(t, r))
         /\ uv__stream_io(t, r).given = t.given
         /\ \/ /\ uv__stream_io(t, r).stage = "open"
               /\ uv__stream_io(t, r).shut = t.shut
            \/ /\ uv__stream_io(t, r).stage = "closing"
               /\ t.shut = "pending"
  <1> DEFINE w == IF t.wq = <<>> THEN t ELSE uv__write(t, r)
             b == uv__write_callbacks(w)
             d == uv__drain(b)
  <1>1. OpenInv(t) /\ t \in Handle
    BY OpenElim DEF OpenInv
  <1>2. OpenInv(w)
    BY <1>1, WriteInv
  <1>3. Grows(t, w) /\ w.given = t.given /\ w.shut = t.shut
    BY <1>1, WriteGrows, GrowsSame
  <1> HIDE DEF w
  <1>4. OpenInv(b) /\ w \in Handle
    BY <1>2, CallbacksInv DEF OpenInv
  <1>5. /\ b.given = w.given /\ b.wire = w.wire /\ b.broken = w.broken
        /\ b.shut = w.shut
    BY <1>4 DEF uv__write_callbacks, write_cb, Handle
  <1> HIDE DEF b
  <1>6. b \in Handle /\ b.stage = "open"
    BY <1>4 DEF OpenInv
  <1>7. /\ d.given = b.given /\ d.wire = b.wire /\ d.broken = b.broken
        /\ \/ d.stage = "open" /\ d.shut = b.shut
           \/ d.stage = "closing" /\ b.shut = "pending"
    BY <1>6 DEF uv__drain, shutdown_cb, Handle
  <1>8. uv__stream_io(t, r) = d
    BY DEF d, b, w, uv__stream_io
  <1> HIDE DEF d
  <1>9. d.given = w.given /\ d.wire = w.wire /\ d.broken = w.broken
    BY <1>5, <1>7
  <1>10. Grows(t, d)
    BY <1>3, <1>9 DEF Grows
  <1> QED BY <1>3, <1>5, <1>7, <1>8, <1>10

----------------------------------------------------------------------------
(* The abstract state of a handle in each stage, and its steps.            *)

LEMMA IdleState ==
  ASSUME NEW t, HandleInv(t), t.stage \in {"free", "inited"}
  PROVE  Abstract(t) = Graceful!Idle
  <1>1. t.broken = FALSE /\ t.given = <<>> /\ t.wire = <<>>
    BY DEF HandleInv, Handle
  <1> QED BY <1>1 DEF Abstract, Phase, Graceful!Idle, Graceful!Fresh

LEMMA AbstractFields ==
  ASSUME NEW t
  PROVE  /\ Abstract(t).phase = Phase(t) /\ Abstract(t).given = t.given
         /\ Abstract(t).wire = t.wire /\ Abstract(t).broken = t.broken
  BY DEF Abstract

(* Output of an open handle, which may be ended by the way, or broken.     *)
LEMMA ServeStep ==
  ASSUME NEW t, HandleInv(t), t.stage = "open",
         NEW u, HandleInv(u), u.stage = "open",
         Graceful!Prefix(t.given, u.given), Graceful!Prefix(t.wire, u.wire),
         t.broken => u.broken /\ u.wire = t.wire,
         t.shut # "no" => u.shut # "no"
  PROVE  Graceful!Serve(Abstract(t), Abstract(u))
  <1>1. /\ Phase(t) = IF t.shut = "no" THEN "open" ELSE "ended"
        /\ Phase(u) = IF u.shut = "no" THEN "open" ELSE "ended"
    BY DEF Phase
  <1>2. Graceful!Prefix(u.wire, u.given)
    BY DEF HandleInv, Graceful!Prefix
  <1> QED BY <1>1, <1>2, AbstractFields DEF Graceful!Serve, Graceful!Output

LEMMA CloseStep ==
  ASSUME NEW t, HandleInv(t), t.stage = "open", t.shut = "pending",
         NEW u, HandleInv(u), u.stage = "closing",
         Grows(t, u), u.given = t.given
  PROVE  Graceful!Close(Abstract(t), Abstract(u))
  <1>1. Phase(t) = "ended" /\ Phase(u) = "closed"
    BY DEF Phase
  <1>2. Graceful!Prefix(u.wire, u.given)
    BY DEF HandleInv, Graceful!Prefix
  <1>3. ~u.broken => u.wire = u.given
    <2>1. ~u.broken => u.given = u.wire \o u.wq
      BY DEF HandleInv
    <2>2. u.wq = <<>> /\ u.wire \in Seq(Chunks)
      BY DEF HandleInv, Handle
    <2>3. u.wire \o <<>> = u.wire
      BY <2>2, ConcatEmptySeq
    <2> QED BY <2>1, <2>2, <2>3
  <1> QED BY <1>1, <1>2, <1>3, AbstractFields
          DEF Graceful!Close, Graceful!Output, Grows

LEMMA OpenStep ==
  ASSUME NEW t, HandleInv(t), t.stage = "free", NEW data \in {"nil", "junk"}
  PROVE  Graceful!Open(Abstract(t), Abstract(Accepted(t, data)))
  <1> DEFINE u == Accepted(t, data)
  <1>1. /\ u.stage = "open" /\ u.shut = "no" /\ u.given = <<>>
        /\ u.wire = <<>> /\ u.broken = FALSE
    BY AcceptInv
  <1> HIDE DEF u
  <1>2. Abstract(u) = Graceful!Fresh("open")
    <2>1. Phase(u) = "open"
      BY <1>1 DEF Phase
    <2> QED BY <1>1, <2>1 DEF Abstract, Graceful!Fresh
  <1>3. Abstract(t) = Graceful!Idle /\ Graceful!Idle.phase = "idle"
    BY IdleState DEF Graceful!Idle, Graceful!Fresh
  <1>4. Graceful!Open(Abstract(t), Abstract(u))
    BY <1>2, <1>3 DEF Graceful!Open
  <1> QED BY <1>4 DEF u

LEMMA RecycleStep ==
  ASSUME NEW t, HandleInv(t), t.stage = "closing"
  PROVE  Graceful!Recycle(Abstract(t), Abstract(uv__finish_close(t)))
  <1> DEFINE u == uv__finish_close(t)
  <1>1. HandleInv(u)
    BY FinishCloseInv
  <1>2. u.stage = "free"
    BY DEF uv__finish_close, close_cb, NewHandle
  <1> HIDE DEF u
  <1>3. Abstract(u) = Graceful!Idle
    BY <1>1, <1>2, IdleState
  <1>4. Phase(t) = "closed"
    BY DEF Phase
  <1>5. Graceful!Recycle(Abstract(t), Abstract(u))
    BY <1>3, <1>4, AbstractFields DEF Graceful!Recycle
  <1> QED BY <1>5 DEF u

----------------------------------------------------------------------------
(* The step of one handle is a step of its connection, or none.            *)
Mapped == [h \in Handles |-> Abstract(tcp[h])]

LEMMA MappedStep ==
  ASSUME IInv, NEW h \in Handles, NEW u, tcp' = [tcp EXCEPT ![h] = u],
         \/ Graceful!Step(Abstract(tcp[h]), Abstract(u))
         \/ Abstract(u) = Abstract(tcp[h])
  PROVE  Graceful!Next \/ Mapped' = Mapped
  <1>1. Mapped' = [Mapped EXCEPT ![h] = Abstract(u)]
    BY DEF IInv, TypeOK, Mapped
  <1>2. Mapped[h] = Abstract(tcp[h]) /\ Mapped'[h] = Abstract(u)
    BY <1>1 DEF Mapped
  <1>3. CASE Graceful!Step(Abstract(tcp[h]), Abstract(u))
    <2>1. /\ Graceful!Step(Mapped[h], Mapped'[h])
          /\ Mapped' = [Mapped EXCEPT ![h] = Mapped'[h]]
      BY <1>1, <1>2, <1>3
    <2> QED BY <2>1 DEF Graceful!Next, Mapped
  <1>4. CASE Abstract(u) = Abstract(tcp[h])
    BY <1>1, <1>2, <1>4 DEF Mapped
  <1> QED BY <1>3, <1>4

LEMMA NextMapped ==
  ASSUME IInv, [Next]_vars
  PROVE  Graceful!Next \/ Mapped' = Mapped
  <1>0. \A h \in Handles : HandleInv(tcp[h]) /\ tcp[h] \in Handle
    BY DEF IInv, HandleInv
  <1>1. CASE UNCHANGED tcp
    BY <1>1 DEF Mapped
  <1>2. ASSUME NEW h \in Handles, ConnectionAccepted(h)
        PROVE  Graceful!Next \/ Mapped' = Mapped
    <2>1. PICK data \in {"nil", "junk"} :
            tcp' = [tcp EXCEPT ![h] = Accepted(tcp[h], data)]
      BY <1>2 DEF ConnectionAccepted, Accepted
    <2>2. Graceful!Open(Abstract(tcp[h]), Abstract(Accepted(tcp[h], data)))
      BY <1>0, <1>2, OpenStep DEF ConnectionAccepted
    <2> QED BY <2>1, <2>2, MappedStep DEF Graceful!Step
  <1>3. ASSUME NEW h \in Handles, ConnectionRefused(h)
        PROVE  Graceful!Next \/ Mapped' = Mapped
    <2>1. PICK data \in {"nil", "junk"} :
            tcp' = [tcp EXCEPT ![h] =
                      uv_shutdown_ocaml(uv_tcp_init_ocaml(tcp[h], data))]
      BY <1>3 DEF ConnectionRefused
    <2> DEFINE u == uv_shutdown_ocaml(uv_tcp_init_ocaml(tcp[h], data))
    <2>2. HandleInv(u)
      BY <1>0, <1>3, RefuseInv DEF ConnectionRefused
    <2>3. u.stage = "inited"
      BY DEF uv_shutdown_ocaml, uv_tcp_init_ocaml, NewHandle
    <2> HIDE DEF u
    <2>4. Abstract(u) = Graceful!Idle
      BY <2>2, <2>3, IdleState
    <2>5. Abstract(tcp[h]) = Graceful!Idle
      BY <1>0, <1>3, IdleState DEF ConnectionRefused
    <2>6. tcp' = [tcp EXCEPT ![h] = u]
      BY <2>1 DEF u
    <2> QED BY <2>4, <2>5, <2>6, MappedStep
  <1>4. ASSUME NEW h \in Handles, ReadFails(h)
        PROVE  Graceful!Next \/ Mapped' = Mapped
    <2>1. PICK eof \in BOOLEAN : tcp' = [tcp EXCEPT ![h].eof = eof]
      BY <1>4 DEF ReadFails
    <2> DEFINE u == [tcp[h] EXCEPT !.eof = eof]
    <2>2. tcp' = [tcp EXCEPT ![h] = u]
      BY <2>1
    <2>3. Abstract(u) = Abstract(tcp[h])
      BY <1>0 DEF Abstract, Phase, Handle
    <2> HIDE DEF u
    <2> QED BY <2>2, <2>3, MappedStep
  <1>5. ASSUME NEW h \in Handles, Write(h)
        PROVE  Graceful!Next \/ Mapped' = Mapped
    <2>1. PICK c \in Chunks, r \in Results(tcp[h]) :
            tcp' = [tcp EXCEPT ![h] = uv_write_ocaml(tcp[h], c, r)]
      BY <1>5 DEF Write
    <2> DEFINE u == uv_write_ocaml(tcp[h], c, r)
    <2>2. HandleInv(tcp[h]) /\ tcp[h].stage = "open"
      BY <1>5, HandlesAssumption
         DEF Write, Running, IInv, HandlerOnOpenHandle
    <2>3. /\ HandleInv(u) /\ u.stage = "open" /\ u.shut = tcp[h].shut
          /\ Grows(tcp[h], u)
      BY <2>2, UvWriteInv, UvWriteGrows
    <2>4. tcp' = [tcp EXCEPT ![h] = u]
      BY <2>1
    <2> HIDE DEF u
    <2>5. Graceful!Serve(Abstract(tcp[h]), Abstract(u))
      BY <2>2, <2>3, ServeStep DEF Grows
    <2> QED BY <2>4, <2>5, MappedStep DEF Graceful!Step
  <1>6. ASSUME NEW h \in Handles, endConnection(h)
        PROVE  Graceful!Next \/ Mapped' = Mapped
    <2>1. PICK c \in Chunks, r \in Results(tcp[h]) :
            tcp' = [tcp EXCEPT ![h] =
                      uv_shutdown_ocaml(uv_write_ocaml(tcp[h], c, r))]
      BY <1>6 DEF endConnection
    <2> DEFINE w == uv_write_ocaml(tcp[h], c, r)
               u == uv_shutdown_ocaml(w)
    <2>2. HandleInv(tcp[h]) /\ tcp[h].stage = "open"
      BY <1>6, HandlesAssumption
         DEF endConnection, Running, IInv, HandlerOnOpenHandle
    <2>3. /\ HandleInv(w) /\ w.stage = "open" /\ Grows(tcp[h], w)
      BY <2>2, UvWriteInv, UvWriteGrows
    <2>4. tcp' = [tcp EXCEPT ![h] = u]
      BY <2>1
    <2> HIDE DEF w
    <2>5. HandleInv(u) /\ u.stage = "open"
      BY <2>3, ShutdownInv
    <2>6. /\ u.given = w.given /\ u.wire = w.wire /\ u.broken = w.broken
          /\ u.shut # "no"
      BY <2>3 DEF uv_shutdown_ocaml, HandleInv, Handle
    <2> HIDE DEF u
    <2>7. Graceful!Serve(Abstract(tcp[h]), Abstract(u))
      BY <2>2, <2>3, <2>5, <2>6, ServeStep DEF Grows
    <2> QED BY <2>4, <2>7, MappedStep DEF Graceful!Step
  <1>7. ASSUME NEW h \in Handles, Writable(h)
        PROVE  Graceful!Next \/ Mapped' = Mapped
    <2>1. PICK r \in Results(tcp[h]) :
            tcp' = [tcp EXCEPT ![h] = uv__stream_io(tcp[h], r)]
      BY <1>7 DEF Writable
    <2> DEFINE u == uv__stream_io(tcp[h], r)
    <2>2. HandleInv(tcp[h]) /\ tcp[h].stage = "open"
      BY <1>0, <1>7 DEF Writable
    <2>3. HandleInv(u) /\ Grows(tcp[h], u) /\ u.given = tcp[h].given
      BY <2>2, StreamIoInv, StreamIoGrows
    <2>4. \/ u.stage = "open" /\ u.shut = tcp[h].shut
          \/ u.stage = "closing" /\ tcp[h].shut = "pending"
      BY <2>2, StreamIoGrows
    <2>5. tcp' = [tcp EXCEPT ![h] = u]
      BY <2>1
    <2> HIDE DEF u
    <2>6. CASE u.stage = "open" /\ u.shut = tcp[h].shut
      <3>1. Graceful!Serve(Abstract(tcp[h]), Abstract(u))
        BY <2>2, <2>3, <2>6, ServeStep DEF Grows
      <3> QED BY <2>5, <3>1, MappedStep DEF Graceful!Step
    <2>7. CASE u.stage = "closing" /\ tcp[h].shut = "pending"
      <3>1. Graceful!Close(Abstract(tcp[h]), Abstract(u))
        BY <2>2, <2>3, <2>7, CloseStep
      <3> QED BY <2>5, <3>1, MappedStep DEF Graceful!Step
    <2> QED BY <2>4, <2>6, <2>7
  <1>8. ASSUME NEW h \in Handles, Closing(h)
        PROVE  Graceful!Next \/ Mapped' = Mapped
    <2>1. tcp' = [tcp EXCEPT ![h] = uv__finish_close(tcp[h])]
      BY <1>8 DEF Closing
    <2>2. Graceful!Recycle(Abstract(tcp[h]),
                           Abstract(uv__finish_close(tcp[h])))
      BY <1>0, <1>8, RecycleStep DEF Closing
    <2> QED BY <2>1, <2>2, MappedStep DEF Graceful!Step
  <1>9. ASSUME NEW h \in Handles, PeerReset(h)
        PROVE  Graceful!Next \/ Mapped' = Mapped
    <2> DEFINE u == [tcp[h] EXCEPT !.broken = TRUE]
    <2>1. /\ HandleInv(tcp[h]) /\ tcp[h].stage = "open" /\ tcp[h] \in Handle
          /\ ~tcp[h].broken
      BY <1>0, <1>9 DEF PeerReset
    <2>2. tcp' = [tcp EXCEPT ![h] = u]
      BY <1>9 DEF PeerReset
    <2>3. HandleInv(u)
      BY <2>1, ResetInv
    <2>4. /\ u.stage = "open" /\ u.given = tcp[h].given
          /\ u.wire = tcp[h].wire /\ u.shut = tcp[h].shut
      BY <2>1 DEF Handle
    <2>5. /\ Graceful!Prefix(tcp[h].given, tcp[h].given)
          /\ Graceful!Prefix(tcp[h].wire, tcp[h].wire)
      BY <2>1, PrefixSame DEF Handle
    <2> HIDE DEF u
    <2>6. Graceful!Serve(Abstract(tcp[h]), Abstract(u))
      BY <2>1, <2>3, <2>4, <2>5, ServeStep
    <2> QED BY <2>2, <2>6, MappedStep DEF Graceful!Step
  <1>10. CASE UNCHANGED vars
    BY <1>1, <1>10 DEF vars
  <1>11. CASE Listen \/ \E h \in Handles :
                \/ ReadData(h) \/ ReadReturns(h) \/ HandlerRaises(h)
                \/ SigPipe(h)
    BY <1>1, <1>11 DEF Listen, ReadData, ReadReturns, HandlerRaises, SigPipe
  <1> QED BY <1>2, <1>3, <1>4, <1>5, <1>6, <1>7, <1>8, <1>9, <1>10, <1>11
          DEF Next

LEMMA InitMapped == Init => Graceful!Init
  <1> SUFFICES ASSUME Init
               PROVE  \A h \in Handles : Abstract(tcp[h]) = Graceful!Idle
    BY DEF Graceful!Init
  <1> TAKE h \in Handles
  <1>1. HandleInv(tcp[h]) /\ tcp[h].stage = "free"
    BY NewHandleInv DEF Init, NewHandle
  <1> QED BY <1>1, IdleState

(* Every connection keeps the promise of GracefulConn to its peer: output  *)
(* in order, and no close before all of it was sent to a peer that stays.  *)
THEOREM Refines == Spec => ImplementsGracefulConn
  <1>1. IInv /\ [Next]_vars => [Graceful!Next]_Mapped
    BY NextMapped
  <1> QED BY <1>1, InitMapped, IInvAlways, PTL
          DEF Spec, ImplementsGracefulConn, Graceful!Spec, Mapped

=============================================================================
