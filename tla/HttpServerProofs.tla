-------------------------- MODULE HttpServerProofs --------------------------
(***************************************************************************)
(* The server with one of the example programs implements UvTcp, for any   *)
(* number of connections, requests and body parts.  The step that takes an *)
(* argument is that a handler never writes more often than UvTcp allows.   *)
(* Then, from what is proved of UvTcp and of the client of HttpFraming,    *)
(* that every client reads well formed responses and a whole answer before *)
(* its connection is closed: OutputInv, which relates what was said and    *)
(* what the running handler has left to say, is inductive.                 *)
(***************************************************************************)
EXTENDS HttpServer, SequenceTheorems, TLAPS

----------------------------------------------------------------------------
(* Numbers and records of the application.                                 *)
LEMMA AppFacts ==
  ASSUME NEW a \in App
  PROVE  /\ a.res \in R!Res /\ a.reading \in BOOLEAN /\ a.complete \in BOOLEAN
         /\ a.requests \in Nat /\ a.requests <= MaxRequests
         /\ a.data \in Nat /\ a.data <= MaxData
         /\ MaxRequests \in Nat /\ MaxData \in Nat
  <1>1. a.requests \in 0 .. MaxRequests /\ a.data \in 0 .. MaxData
    BY DEF App
  <1>2. a.res \in R!Res /\ a.reading \in BOOLEAN /\ a.complete \in BOOLEAN
    BY DEF App
  <1> QED BY <1>1, <1>2, BoundsAssumption

LEMMA NewAppFacts ==
  /\ NewApp \in App /\ NewApp.reading = FALSE
  /\ NewApp.requests = 0 /\ NewApp.data = 0
  <1>1. NewApp.res \in R!Res
    BY DEF NewApp, R!NewRes, R!Res, R!Statuses, R!Encodings
  <1>2. 0 \in 0 .. MaxRequests /\ 0 \in 0 .. MaxData
    BY BoundsAssumption
  <1> QED BY <1>1, <1>2 DEF NewApp, App

LEMMA PieceIs ==
  ASSUME NEW r \in R!Res, NEW m \in R!Messages
  PROVE  R!piece(r, m) \in R!Piece
  BY DEF R!piece, R!Piece, R!Res, R!HeaderBlock, R!NoHead

LEMMA WroteIs ==
  ASSUME NEW r \in R!Res
  PROVE  R!wrote(r) \in R!Res
  BY DEF R!Res, R!wrote

(* The operations of a handler are what they are called.                   *)
LEMMA OperationFacts ==
  ASSUME NEW o \in Operation
  PROVE  /\ o.do = "write" => o.arg \in R!Messages
         /\ o.do = "status" => o.arg \in R!Statuses
  BY DEF Operation, Write, Status, End, Raise, Op

LEMMA HandlersFacts ==
  /\ \A t \in onRequest : t \in Seq(Operation) /\ Len(t) <= 3
  /\ onData \in Seq(Operation) /\ Len(onData) <= 1
  /\ onEnd \in Seq(Operation) /\ Len(onEnd) <= 1
  <1>1. /\ \A m \in Texts \cup {R!Empty} : Write(m) \in Operation
        /\ Status(404) \in Operation
        /\ End \in Operation /\ Raise \in Operation
    BY DEF Operation, R!Messages, R!Statuses
  <1>2. /\ Write("hello") \in Operation /\ Write("url") \in Operation
        /\ Write("headers") \in Operation /\ Write("testdata") \in Operation
        /\ Write("content") \in Operation /\ Write("notfound") \in Operation
        /\ Write(R!Empty) \in Operation
    BY <1>1 DEF Texts
  <1>3. \A a \in Operation : <<a>> \in Seq(Operation) /\ Len(<<a>>) = 1
    OBVIOUS
  <1>4. \A a, b \in Operation :
          <<a, b>> \in Seq(Operation) /\ Len(<<a, b>>) = 2
    OBVIOUS
  <1>5. \A a, b, c \in Operation :
          <<a, b, c>> \in Seq(Operation) /\ Len(<<a, b, c>>) = 3
    OBVIOUS
  <1> DEFINE ok(t) == t \in Seq(Operation) /\ Len(t) <= 3
  <1>a. /\ \A a \in Operation : ok(<<a>>)
        /\ \A a, b \in Operation : ok(<<a, b>>)
        /\ \A a, b, c \in Operation : ok(<<a, b, c>>)
    BY <1>3, <1>4, <1>5
  <1> HIDE DEF ok
  <1>6. \A t \in static : ok(t)
    <2>0. End \in Operation /\ Raise \in Operation /\ Status(404) \in Operation
      BY <1>1, Zenon
    <2>a. ok(<<Write("content"), End>>)
      BY <1>2, <1>a, <2>0, Zenon
    <2>b. ok(<<Write(R!Empty), End>>)
      BY <1>2, <1>a, <2>0, Zenon
    <2>c. ok(<<Raise>>)
      BY <1>a, <2>0, Zenon
    <2>1. /\ ok(<<Write("content"), End>>) /\ ok(<<Write(R!Empty), End>>)
          /\ ok(<<Raise>>)
      BY <2>a, <2>b, <2>c, Zenon
    <2>2. ok(<<Status(404), Write("notfound"), End>>)
      <3>1. Write("notfound") \in Operation
        BY <1>2, Zenon
      <3>2. \A a, b, c \in Operation : ok(<<a, b, c>>)
        BY <1>a, Zenon
      <3> QED BY <2>0, <3>1, <3>2
    <2>3. ASSUME NEW t \in static
          PROVE  \/ t = <<Write("content"), End>>
                 \/ t = <<Write(R!Empty), End>>
                 \/ t = <<Status(404), Write("notfound"), End>>
                 \/ t = <<Raise>>
      BY Zenon DEF static
    <2> QED BY <2>1, <2>2, <2>3, Zenon
  <1>7. \A t \in server : ok(t)
    <2>1. ok(<<Raise>>)
      BY <1>1, <1>a, Zenon
    <2>2. ok(<<Write("hello"), Write("url"), Write("headers")>>)
      BY <1>2, <1>a, Zenon
    <2> QED BY <2>1, <2>2, Zenon DEF server
  <1>8. <<>> \in Seq(Operation) /\ Len(<<>>) = 0
    OBVIOUS
  <1>9. onData \in Seq(Operation) /\ Len(onData) <= 1
    BY <1>2, <1>3, <1>8 DEF onData
  <1>10. onEnd \in Seq(Operation) /\ Len(onEnd) <= 1
    BY <1>1, <1>3, <1>8 DEF onEnd
  <1> QED BY <1>6, <1>7, <1>9, <1>10 DEF onRequest, ok

----------------------------------------------------------------------------
(* What each operator of UvTcp does to what was given to uv_write.         *)
Shape(t) == "given" \in DOMAIN t /\ t.given \in Seq(R!Piece)

LEMMA TryGiven ==
  ASSUME NEW t, "given" \in DOMAIN t, NEW r \in {"ok", "err", "again"}
  PROVE  /\ "given" \in DOMAIN U!uv__write(t, r)
         /\ U!uv__write(t, r).given = t.given
  BY DEF U!uv__write

LEMMA WriteGiven ==
  ASSUME NEW t, Shape(t), NEW c \in R!Piece, NEW r \in U!Results(t)
  PROVE  /\ Shape(uv_write(t, c, r))
         /\ Len(uv_write(t, c, r).given) <= Len(t.given) + 1
  <1> DEFINE q == [t EXCEPT !.wq = Append(@, c), !.given = Append(@, c),
                            !.wreqs = @ + 1]
  <1>1. r \in {"ok", "err", "again"}
    BY DEF U!Results
  <1>2. "given" \in DOMAIN q /\ q.given = Append(t.given, c)
    BY DEF Shape
  <1>3. Shape(q) /\ Len(q.given) = Len(t.given) + 1 /\ Len(t.given) \in Nat
    BY <1>2, AppendProperties, LenProperties DEF Shape
  <1>4. Shape([t EXCEPT !.wreqs = @ + 1])
        /\ [t EXCEPT !.wreqs = @ + 1].given = t.given
    BY DEF Shape
  <1>5. Shape(U!uv__write(q, r)) /\ U!uv__write(q, r).given = q.given
    BY <1>1, <1>3, TryGiven DEF Shape
  <1> DEFINE refused == [t EXCEPT !.wreqs = @ + 1]
             tried == U!uv__write(q, r)
  <1>6. uv_write(t, c, r) \in {refused, tried, q}
    BY DEF uv_write, U!uv_write_ocaml, U!AtOnce
  <1>7. /\ Shape(refused) /\ refused.given = t.given
        /\ Shape(tried) /\ tried.given = q.given
    BY <1>4, <1>5
  <1> HIDE DEF q, refused, tried
  <1> QED BY <1>3, <1>6, <1>7

LEMMA ShutdownGiven ==
  ASSUME NEW t, Shape(t)
  PROVE  /\ Shape(U!uv_shutdown_ocaml(t))
         /\ U!uv_shutdown_ocaml(t).given = t.given
  BY DEF Shape, U!uv_shutdown_ocaml

LEMMA StreamIoGiven ==
  ASSUME NEW t, Shape(t), NEW r \in U!Results(t)
  PROVE  /\ Shape(U!uv__stream_io(t, r))
         /\ U!uv__stream_io(t, r).given = t.given
  <1> DEFINE w == IF t.wq = <<>> THEN t ELSE U!uv__write(t, r)
             c == U!uv__write_callbacks(w)
  <1>1. "given" \in DOMAIN w /\ w.given = t.given
    BY TryGiven DEF U!Results, Shape
  <1> HIDE DEF w
  <1>2. "given" \in DOMAIN c /\ c.given = t.given
    BY <1>1 DEF U!uv__write_callbacks, U!write_cb
  <1> HIDE DEF c
  <1>3. /\ "given" \in DOMAIN U!uv__drain(c)
        /\ U!uv__drain(c).given = t.given
    BY <1>2 DEF U!uv__drain, U!shutdown_cb
  <1> QED BY <1>3 DEF U!uv__stream_io, w, c, Shape

LEMMA NewGiven ==
  ASSUME NEW stage, NEW data, NEW root
  PROVE  /\ Shape(U!NewHandle(stage, data, root))
         /\ U!NewHandle(stage, data, root).given = <<>>
  BY DEF Shape, U!NewHandle

LEMMA AcceptGiven ==
  ASSUME NEW t, NEW data
  PROVE  LET u == U!uv_read_start_ocaml(U!request_on(U!uv_accept_ocaml(
                    U!uv_tcp_init_ocaml(t, data))))
         IN  Shape(u) /\ u.given = <<>>
  BY DEF U!uv_read_start_ocaml, U!request_on, U!uv_accept_ocaml,
         U!uv_tcp_init_ocaml, U!NewHandle, Shape

----------------------------------------------------------------------------
(* A step at one connection.                                               *)
LEMMA Update ==
  ASSUME HandlerInv, NEW h \in Handles,
         DOMAIN tcp' = Handles, app' \in [Handles -> App],
         todo' \in Seq(Operation), cur' = NoHandle => todo' = <<>>,
         \A k \in Handles \ {h} :
           tcp'[k] = tcp[k] /\ app'[k] = app[k] /\ ToWrite(k)' = ToWrite(k),
         Shape(tcp'[h]), Budget(h)'
  PROVE  HandlerInv'
  BY DEF HandlerInv, Shape, Budget, AtEnd

(* The facts about a connection that its steps start from.                 *)
LEMMA At ==
  ASSUME HandlerInv, NEW h \in Handles
  PROVE  /\ Shape(tcp[h]) /\ Len(tcp[h].given) \in Nat
         /\ app[h] \in App /\ AtEnd(h) \in {0, 1}
         /\ todo \in Seq(Operation) /\ Len(todo) \in Nat
         /\ ToWrite(h) \in Nat
         /\ Budget(h)
  BY LenProperties DEF HandlerInv, Shape, AtEnd, ToWrite

(* An operation of the handler that runs.                                  *)
LEMMA DoingFacts ==
  ASSUME HandlerInv, NEW h \in Handles, NEW do, Doing(h, do)
  PROVE  /\ cur = h /\ proc = "up"
         /\ Head(todo) \in Operation /\ Head(todo).do = do
         /\ todo' \in Seq(Operation) /\ Len(todo') = Len(todo) - 1
         /\ Len(todo) \in Nat /\ Len(todo) > 0
  <1>1. todo \in Seq(Operation) /\ todo # <<>> /\ todo' = Tail(todo)
    BY DEF HandlerInv, Doing
  <1> QED BY <1>1, HeadTailProperties, EmptySeq, LenProperties
          DEF Doing, U!Running

(* What is left of a budget.                                               *)
LEMMA BudgetLeft ==
  ASSUME NEW given \in Nat, NEW left \in Nat, NEW end \in {0, 1},
         NEW q \in Nat, NEW d \in Nat, NEW Q \in Nat, NEW D \in Nat,
         left > 0, given + left + end <= 4 * q + d, q <= Q, d <= D
  PROVE  given < 4 * Q + D
  OBVIOUS

LEMMA BudgetSpent ==
  ASSUME NEW given \in Nat, NEW left \in Nat, NEW end \in {0, 1},
         NEW q \in Nat, NEW d \in Nat, NEW more \in Nat, more <= given + 1,
         given + left + end <= 4 * q + d
  PROVE  more + (left - 1) + end <= 4 * q + d
  OBVIOUS

LEMMA BudgetPays ==
  ASSUME NEW given \in Nat, NEW end \in {0, 1}, NEW left \in Nat,
         NEW n \in Nat, NEW q \in Nat, NEW d \in Nat, NEW Q \in Nat,
         NEW D \in Nat,
         given + end <= 4 * q + d,
         left + n + 4 * q + d <= end + 4 * Q + D
  PROVE  given + left + n <= 4 * Q + D
  OBVIOUS

(* The bound of UvTcp is out of reach while there is something to do.      *)
LEMMA BelowMaxWrites ==
  ASSUME HandlerInv, NEW h \in Handles, NEW do, Doing(h, do)
  PROVE  Len(tcp[h].given) < MaxWrites
  <1>1. cur = h /\ Len(todo) \in Nat /\ Len(todo) > 0
    BY DoingFacts
  <1>2. /\ Len(tcp[h].given) \in Nat /\ AtEnd(h) \in {0, 1}
        /\ Len(tcp[h].given) + Len(todo) + AtEnd(h)
             <= 4 * app[h].requests + app[h].data
    BY <1>1, At DEF Budget, ToWrite
  <1>3. /\ app[h].requests \in Nat /\ app[h].requests <= MaxRequests
        /\ app[h].data \in Nat /\ app[h].data <= MaxData
        /\ MaxRequests \in Nat /\ MaxData \in Nat
    BY At, AppFacts
  <1> QED BY <1>1, <1>2, <1>3, BudgetLeft DEF MaxWrites

(* A handler writes one more piece, and has one operation less to do.      *)
LEMMA Wrote ==
  ASSUME HandlerInv, NEW h \in Handles, NEW do, Doing(h, do),
         NEW u, Shape(u), Len(u.given) <= Len(tcp[h].given) + 1,
         tcp' = [tcp EXCEPT ![h] = u],
         app' = [app EXCEPT ![h].res = R!wrote(@)], UNCHANGED cur
  PROVE  HandlerInv'
  <1>1. /\ cur = h /\ todo' \in Seq(Operation)
        /\ Len(todo') = Len(todo) - 1 /\ Len(todo) \in Nat /\ Len(todo) > 0
    BY DoingFacts
  <1>2. /\ DOMAIN tcp' = Handles /\ tcp'[h] = u
        /\ \A k \in Handles \ {h} : tcp'[k] = tcp[k]
    BY DEF HandlerInv
  <1> DEFINE a == [app[h] EXCEPT !.res = R!wrote(@)]
  <1>3. a \in App /\ a.requests = app[h].requests /\ a.data = app[h].data
        /\ a.reading = app[h].reading
    BY At, AppFacts, WroteIs DEF App
  <1>4. /\ app' \in [Handles -> App] /\ app'[h] = a
        /\ \A k \in Handles \ {h} : app'[k] = app[k]
    BY <1>3 DEF HandlerInv
  <1>5. \A k \in Handles \ {h} : ToWrite(k)' = ToWrite(k)
    BY <1>1 DEF ToWrite
  <1>6. Budget(h)'
    <2>1. Len(u.given) \in Nat
      BY LenProperties DEF Shape
    <2>2. AtEnd(h)' = AtEnd(h)
      BY <1>3, <1>4 DEF AtEnd
    <2>3. ToWrite(h) = Len(todo) /\ ToWrite(h)' = Len(todo')
      BY <1>1 DEF ToWrite
    <2>4. Len(u.given) + Len(todo') + AtEnd(h)
            <= 4 * app[h].requests + app[h].data
      <3>1. app[h].requests \in Nat /\ app[h].data \in Nat
        BY At, AppFacts
      <3>2. /\ Len(tcp[h].given) \in Nat /\ AtEnd(h) \in {0, 1}
            /\ Len(tcp[h].given) + Len(todo) + AtEnd(h)
                 <= 4 * app[h].requests + app[h].data
        BY <2>3, At DEF Budget
      <3> QED BY <1>1, <2>1, <3>1, <3>2, BudgetSpent
    <2> QED BY <1>2, <1>3, <1>4, <2>2, <2>3, <2>4 DEF Budget
  <1>7. cur' = NoHandle => todo' = <<>>
    BY <1>1 DEF HandlerInv
  <1> QED BY <1>1, <1>2, <1>4, <1>5, <1>6, <1>7, Update

LEMMA BudgetLess ==
  ASSUME NEW given \in Nat, NEW left \in Nat, NEW end \in Nat,
         NEW q \in Nat, NEW d \in Nat, NEW less \in Nat, less <= given,
         given + left + end <= 4 * q + d
  PROVE  less + left + end <= 4 * q + d
  OBVIOUS

(* The bindings change a handle, and what was given does not grow.         *)
LEMMA Bindings ==
  ASSUME HandlerInv, NEW h \in Handles, NEW u, Shape(u),
         u.given = tcp[h].given \/ u.given = <<>>,
         tcp' = [tcp EXCEPT ![h] = u], UNCHANGED <<cur, app, todo>>
  PROVE  HandlerInv'
  <1>1. /\ DOMAIN tcp' = Handles /\ tcp'[h] = u
        /\ \A k \in Handles \ {h} : tcp'[k] = tcp[k]
    BY DEF HandlerInv
  <1>2. \A k \in Handles : ToWrite(k)' = ToWrite(k) /\ AtEnd(k)' = AtEnd(k)
    BY DEF ToWrite, AtEnd
  <1>3. Len(u.given) \in Nat /\ Len(u.given) <= Len(tcp[h].given)
    BY At DEF Shape
  <1>4. Len(u.given) + ToWrite(h) + AtEnd(h)
          <= 4 * app[h].requests + app[h].data
    <2>1. /\ Len(tcp[h].given) \in Nat /\ ToWrite(h) \in Nat
          /\ AtEnd(h) \in Nat
          /\ Len(tcp[h].given) + ToWrite(h) + AtEnd(h)
               <= 4 * app[h].requests + app[h].data
      BY At DEF Budget
    <2>2. app[h].requests \in Nat /\ app[h].data \in Nat
      BY At, AppFacts
    <2> QED BY <1>3, <2>1, <2>2, BudgetLess
  <1>5. Budget(h)'
    BY <1>1, <1>2, <1>4 DEF Budget
  <1> QED BY <1>1, <1>2, <1>5, Update DEF HandlerInv

(* A connection is accepted with a new res record, between two handlers.   *)
LEMMA OnAccepted ==
  ASSUME HandlerInv, NEW h \in Handles, ConnectionAccepted(h)
  PROVE  HandlerInv' /\ U!Next
  <1>1. U!ConnectionAccepted(h)
    BY DEF ConnectionAccepted
  <1>2. /\ cur = NoHandle /\ cur' = cur /\ todo' = todo
        /\ app' = [app EXCEPT ![h] = NewApp]
    BY DEF ConnectionAccepted, U!ConnectionAccepted, U!Idle, new_app
  <1>3. todo = <<>> /\ todo' \in Seq(Operation)
    BY <1>2 DEF HandlerInv
  <1>4. PICK data \in {"nil", "junk"} :
          tcp' = [tcp EXCEPT ![h] =
                    U!uv_read_start_ocaml(U!request_on(U!uv_accept_ocaml(
                      U!uv_tcp_init_ocaml(@, data))))]
    BY <1>1 DEF U!ConnectionAccepted
  <1>5. /\ DOMAIN tcp' = Handles /\ Shape(tcp'[h]) /\ tcp'[h].given = <<>>
        /\ \A k \in Handles \ {h} : tcp'[k] = tcp[k]
    BY <1>4, AcceptGiven DEF HandlerInv
  <1>6. /\ app' \in [Handles -> App] /\ app'[h] = NewApp
        /\ \A k \in Handles \ {h} : app'[k] = app[k]
    BY <1>2, NewAppFacts DEF HandlerInv
  <1>7. \A k \in Handles : ToWrite(k) = 0 /\ ToWrite(k)' = 0
    BY <1>2, <1>3 DEF ToWrite
  <1>8. Budget(h)'
    <2>1. AtEnd(h)' = 0 /\ app'[h].requests = 0 /\ app'[h].data = 0
      BY <1>6, NewAppFacts DEF AtEnd
    <2> QED BY <1>5, <1>7, <2>1 DEF Budget
  <1>9. HandlerInv'
    BY <1>2, <1>3, <1>5, <1>6, <1>7, <1>8, Update
  <1> QED BY <1>1, <1>9 DEF U!Next

(* What the application has no part in.                                    *)
LEMMA OnLoop ==
  ASSUME HandlerInv, NEW h \in Handles,
         \/ ConnectionRefused(h) \/ ReadFails(h) \/ Writable(h)
         \/ Closing(h) \/ PeerReset(h)
  PROVE  HandlerInv' /\ U!Next
  <1>1. CASE ConnectionRefused(h)
    <2>1. PICK data \in {"nil", "junk"} :
            tcp' = [tcp EXCEPT ![h] =
                      U!uv_shutdown_ocaml(U!uv_tcp_init_ocaml(@, data))]
      BY <1>1 DEF ConnectionRefused, U!ConnectionRefused
    <2> DEFINE new == U!uv_tcp_init_ocaml(tcp[h], data)
    <2>2. Shape(new) /\ new.given = <<>>
      BY NewGiven DEF U!uv_tcp_init_ocaml
    <2>3. /\ Shape(U!uv_shutdown_ocaml(new))
          /\ U!uv_shutdown_ocaml(new).given = <<>>
      BY <2>2, ShutdownGiven
    <2>4. UNCHANGED <<cur, app, todo>>
      BY <1>1 DEF ConnectionRefused, U!ConnectionRefused
    <2>5. tcp' = [tcp EXCEPT ![h] = U!uv_shutdown_ocaml(new)]
      BY <2>1
    <2> HIDE DEF new
    <2>6. HandlerInv'
      BY <2>3, <2>4, <2>5, Bindings
    <2> QED BY <1>1, <2>6 DEF ConnectionRefused, U!Next
  <1>2. CASE ReadFails(h)
    <2>1. PICK eof \in BOOLEAN : tcp' = [tcp EXCEPT ![h].eof = eof]
      BY <1>2 DEF ReadFails, U!ReadFails
    <2> DEFINE new == [tcp[h] EXCEPT !.eof = eof]
    <2>2. Shape(new) /\ new.given = tcp[h].given
      BY At DEF Shape
    <2>3. UNCHANGED <<cur, app, todo>>
      BY <1>2 DEF ReadFails, U!ReadFails
    <2>4. tcp' = [tcp EXCEPT ![h] = new]
      BY <2>1
    <2> HIDE DEF new
    <2>5. HandlerInv'
      BY <2>2, <2>3, <2>4, Bindings
    <2> QED BY <1>2, <2>5 DEF ReadFails, U!Next
  <1>3. CASE Writable(h)
    <2>1. PICK r \in U!Results(tcp[h]) :
            tcp' = [tcp EXCEPT ![h] = U!uv__stream_io(@, r)]
      BY <1>3 DEF Writable, U!Writable
    <2>2. /\ Shape(U!uv__stream_io(tcp[h], r))
          /\ U!uv__stream_io(tcp[h], r).given = tcp[h].given
      BY At, StreamIoGiven
    <2>3. UNCHANGED <<cur, app, todo>>
      BY <1>3 DEF Writable, U!Writable
    <2>4. HandlerInv'
      BY <2>1, <2>2, <2>3, Bindings
    <2> QED BY <1>3, <2>4 DEF Writable, U!Next
  <1>4. CASE Closing(h)
    <2>1. tcp' = [tcp EXCEPT ![h] = U!uv__finish_close(@)]
      BY <1>4 DEF Closing, U!Closing
    <2>2. /\ Shape(U!uv__finish_close(tcp[h]))
          /\ U!uv__finish_close(tcp[h]).given = <<>>
      BY NewGiven DEF U!uv__finish_close, U!close_cb
    <2>3. UNCHANGED <<cur, app, todo>>
      BY <1>4 DEF Closing, U!Closing
    <2>4. HandlerInv'
      BY <2>1, <2>2, <2>3, Bindings
    <2> QED BY <1>4, <2>4 DEF Closing, U!Next
  <1>5. CASE PeerReset(h)
    <2> DEFINE new == [tcp[h] EXCEPT !.broken = TRUE]
    <2>1. tcp' = [tcp EXCEPT ![h] = new]
      BY <1>5 DEF PeerReset, U!PeerReset
    <2>2. Shape(new) /\ new.given = tcp[h].given
      BY At DEF Shape
    <2>3. UNCHANGED <<cur, app, todo>>
      BY <1>5 DEF PeerReset, U!PeerReset
    <2> HIDE DEF new
    <2>4. HandlerInv'
      BY <2>1, <2>2, <2>3, Bindings
    <2> QED BY <1>5, <2>4 DEF PeerReset, U!Next
  <1> QED BY <1>1, <1>2, <1>3, <1>4, <1>5

(* read_cb is entered or left: no handler runs in the bindings' step.      *)
LEMMA OnReadCb ==
  ASSUME HandlerInv, NEW h \in Handles, ReadData(h) \/ ReadReturns(h)
  PROVE  HandlerInv' /\ U!Next
  <1>1. todo = <<>> /\ UNCHANGED <<tcp, app, todo>>
    BY DEF HandlerInv, ReadData, ReadReturns, U!ReadData, U!ReadReturns,
           U!CanRead, U!Idle
  <1>2. \A k \in Handles : ToWrite(k)' = ToWrite(k) /\ AtEnd(k)' = AtEnd(k)
    BY <1>1 DEF ToWrite, AtEnd
  <1>3. HandlerInv'
    BY <1>1, <1>2 DEF HandlerInv, Budget
  <1> QED BY <1>3 DEF ReadData, ReadReturns, U!Next

(* The parser starts a handler: the budget pays for it.                    *)
LEMMA Started ==
  ASSUME HandlerInv, NEW h \in Handles, cur = h, todo = <<>>,
         NEW a \in App, app' = [app EXCEPT ![h] = a],
         todo' \in Seq(Operation), UNCHANGED <<cur, tcp>>,
         Len(todo') + (IF a.reading THEN 1 ELSE 0)
             + 4 * app[h].requests + app[h].data
           <= AtEnd(h) + 4 * a.requests + a.data
  PROVE  HandlerInv'
  <1>1. /\ app' \in [Handles -> App] /\ app'[h] = a
        /\ \A k \in Handles \ {h} : app'[k] = app[k]
    BY DEF HandlerInv
  <1>2. /\ DOMAIN tcp' = Handles /\ Shape(tcp'[h]) /\ tcp' = tcp
    BY DEF HandlerInv, Shape
  <1>3. \A k \in Handles \ {h} : ToWrite(k)' = ToWrite(k)
    BY DEF ToWrite
  <1>4. Budget(h)'
    <2>1. ToWrite(h) = 0 /\ ToWrite(h)' = Len(todo') /\ Len(todo') \in Nat
      BY LenProperties DEF ToWrite
    <2>2. AtEnd(h)' = IF a.reading THEN 1 ELSE 0
      BY <1>1 DEF AtEnd
    <2>3. /\ Len(tcp[h].given) \in Nat /\ AtEnd(h) \in {0, 1}
          /\ Len(tcp[h].given) + AtEnd(h)
               <= 4 * app[h].requests + app[h].data
      BY <2>1, At DEF Budget
    <2>4. /\ app[h].requests \in Nat /\ app[h].data \in Nat
          /\ a.requests \in Nat /\ a.data \in Nat
      BY At, AppFacts
    <2> DEFINE n == IF a.reading THEN 1 ELSE 0
    <2>5. n \in Nat
      OBVIOUS
    <2> HIDE DEF n
    <2>6. Len(todo') + n + 4 * app[h].requests + app[h].data
            <= AtEnd(h) + 4 * a.requests + a.data
      BY DEF n
    <2>7. Len(tcp[h].given) + Len(todo') + n <= 4 * a.requests + a.data
      <3> DEFINE g == Len(tcp[h].given)
                 e == AtEnd(h)
                 l == Len(todo')
                 q == app[h].requests
                 d == app[h].data
                 Q == a.requests
                 D == a.data
      <3>1. /\ g \in Nat /\ e \in {0, 1} /\ l \in Nat /\ q \in Nat
            /\ d \in Nat /\ Q \in Nat /\ D \in Nat
            /\ g + e <= 4 * q + d
            /\ l + n + 4 * q + d <= e + 4 * Q + D
        BY <2>1, <2>3, <2>4, <2>6
      <3> HIDE DEF g, e, l, q, d, Q, D
      <3>2. g + l + n <= 4 * Q + D
        BY <3>1, <2>5, BudgetPays
      <3> QED BY <3>2 DEF g, e, l, q, d, Q, D
    <2> QED BY <1>1, <1>2, <2>1, <2>2, <2>7 DEF Budget, n
  <1>5. cur' = NoHandle => todo' = <<>>
    BY HandlesAssumption
  <1> QED BY <1>1, <1>2, <1>3, <1>4, <1>5, Update

(* A request pays for its handler, and so does a part of its body.         *)
LEMMA EventPays ==
  ASSUME NEW l \in Nat, NEW q \in Nat, NEW d \in Nat
  PROVE  /\ l <= 3 => l + 1 + 4 * q + d <= 0 + 4 * (q + 1) + d
         /\ l <= 1 => l + 1 + 4 * q + d <= 1 + 4 * q + (d + 1)
         /\ l <= 1 => l + 0 + 4 * q + d <= 1 + 4 * q + d
  OBVIOUS

LEMMA OnEvent ==
  ASSUME HandlerInv, NEW h \in Handles, OnRequest(h) \/ OnData(h) \/ OnEnd(h)
  PROVE  HandlerInv' /\ UNCHANGED U!vars
  <1>1. UNCHANGED <<proc, cur, tcp>> /\ cur = h /\ todo = <<>>
    BY DEF OnRequest, OnData, OnEnd, Parsing, U!Running
  <1>2. /\ app[h] \in App /\ app[h].reading \in BOOLEAN
        /\ app[h].requests \in Nat /\ app[h].data \in Nat
        /\ MaxRequests \in Nat /\ MaxData \in Nat
    BY At, AppFacts
  <1>3. CASE OnRequest(h)
    <2> DEFINE a == [app[h] EXCEPT !.reading = TRUE, !.requests = @ + 1]
    <2>1. app' = [app EXCEPT ![h] = a] /\ todo' \in onRequest
      BY <1>3 DEF OnRequest
    <2>2. app[h].reading = FALSE /\ app[h].requests + 1 \in 0 .. MaxRequests
      BY <1>2, <1>3 DEF OnRequest
    <2>3. /\ a \in App /\ a.reading = TRUE
          /\ a.requests = app[h].requests + 1 /\ a.data = app[h].data
      BY <1>2, <2>2 DEF App
    <2>4. todo' \in Seq(Operation) /\ Len(todo') \in Nat /\ Len(todo') <= 3
      BY <2>1, HandlersFacts, LenProperties
    <2>5. AtEnd(h) = 0
      BY <2>2 DEF AtEnd
    <2> HIDE DEF a
    <2>6. Len(todo') + (IF a.reading THEN 1 ELSE 0)
              + 4 * app[h].requests + app[h].data
            <= AtEnd(h) + 4 * a.requests + a.data
      <3>1. Len(todo') + 1 + 4 * app[h].requests + app[h].data
              <= 0 + 4 * (app[h].requests + 1) + app[h].data
        BY <1>2, <2>4, EventPays
      <3>2. (IF a.reading THEN 1 ELSE 0) = 1
        BY <2>3
      <3> QED BY <2>3, <2>5, <3>1, <3>2, Zenon
    <2> QED BY <1>1, <2>1, <2>3, <2>4, <2>6, Started DEF U!vars
  <1>4. CASE OnData(h)
    <2> DEFINE a == [app[h] EXCEPT !.data = @ + 1]
    <2>1. app' = [app EXCEPT ![h] = a] /\ todo' = onData
      BY <1>4 DEF OnData
    <2>2. app[h].reading = TRUE /\ app[h].data + 1 \in 0 .. MaxData
      BY <1>2, <1>4 DEF OnData
    <2>3. /\ a \in App /\ a.reading = TRUE
          /\ a.requests = app[h].requests /\ a.data = app[h].data + 1
      BY <1>2, <2>2 DEF App
    <2>4. todo' \in Seq(Operation) /\ Len(todo') \in Nat /\ Len(todo') <= 1
      BY <2>1, HandlersFacts, LenProperties
    <2>5. AtEnd(h) = 1
      BY <2>2 DEF AtEnd
    <2> HIDE DEF a
    <2>6. Len(todo') + (IF a.reading THEN 1 ELSE 0)
              + 4 * app[h].requests + app[h].data
            <= AtEnd(h) + 4 * a.requests + a.data
      <3>1. Len(todo') + 1 + 4 * app[h].requests + app[h].data
              <= 1 + 4 * app[h].requests + (app[h].data + 1)
        BY <1>2, <2>4, EventPays
      <3>2. (IF a.reading THEN 1 ELSE 0) = 1
        BY <2>3
      <3> QED BY <2>3, <2>5, <3>1, <3>2, Zenon
    <2> QED BY <1>1, <2>1, <2>3, <2>4, <2>6, Started DEF U!vars
  <1>5. CASE OnEnd(h)
    <2> DEFINE a == [app[h] EXCEPT !.reading = FALSE, !.complete = TRUE]
    <2>1. app' = [app EXCEPT ![h] = a] /\ todo' = onEnd
      BY <1>5 DEF OnEnd
    <2>2. app[h].reading = TRUE
      BY <1>2, <1>5 DEF OnEnd
    <2>3. /\ a \in App /\ a.reading = FALSE
          /\ a.requests = app[h].requests /\ a.data = app[h].data
      BY <1>2 DEF App
    <2>4. todo' \in Seq(Operation) /\ Len(todo') \in Nat /\ Len(todo') <= 1
      BY <2>1, HandlersFacts, LenProperties
    <2>5. AtEnd(h) = 1
      BY <2>2 DEF AtEnd
    <2> HIDE DEF a
    <2>6. Len(todo') + (IF a.reading THEN 1 ELSE 0)
              + 4 * app[h].requests + app[h].data
            <= AtEnd(h) + 4 * a.requests + a.data
      <3>1. Len(todo') + 0 + 4 * app[h].requests + app[h].data
              <= 1 + 4 * app[h].requests + app[h].data
        BY <1>2, <2>4, EventPays
      <3>2. (IF a.reading THEN 1 ELSE 0) = 0
        BY <2>3
      <3> QED BY <2>3, <2>5, <3>1, <3>2, Zenon
    <2> QED BY <1>1, <2>1, <2>3, <2>4, <2>6, Started DEF U!vars
  <1> QED BY <1>3, <1>4, <1>5

(* The operations of a handler.                                            *)
LEMMA OnWrite ==
  ASSUME HandlerInv, NEW h \in Handles, DoWrite(h)
  PROVE  HandlerInv' /\ U!Next
  <1>1. /\ Doing(h, "write") /\ UNCHANGED <<proc, cur>>
        /\ app' = [app EXCEPT ![h].res = R!wrote(@)]
    BY DEF DoWrite
  <1> DEFINE c == R!piece(app[h].res, Head(todo).arg)
  <1>2. PICK r \in U!Results(tcp[h]) :
          tcp' = [tcp EXCEPT ![h] = uv_write(@, c, r)]
    BY DEF DoWrite
  <1>3. c \in R!Piece
    BY <1>1, DoingFacts, OperationFacts, At, AppFacts, PieceIs
  <1> HIDE DEF c
  <1>4. /\ Shape(uv_write(tcp[h], c, r))
        /\ Len(uv_write(tcp[h], c, r).given) <= Len(tcp[h].given) + 1
    BY <1>3, At, WriteGiven
  <1>5. HandlerInv'
    BY <1>1, <1>2, <1>4, Wrote
  <1>6. U!Running(h) /\ Len(tcp[h].given) < MaxWrites
    BY <1>1, BelowMaxWrites DEF Doing
  <1>7. U!Write(h)
    BY <1>1, <1>2, <1>3, <1>6 DEF U!Write, uv_write
  <1> QED BY <1>5, <1>7 DEF U!Next

LEMMA OnEndConnection ==
  ASSUME HandlerInv, NEW h \in Handles, DoEnd(h)
  PROVE  HandlerInv' /\ U!Next
  <1>1. /\ Doing(h, "end") /\ UNCHANGED <<proc, cur>>
        /\ app' = [app EXCEPT ![h].res = R!wrote(@)]
    BY DEF DoEnd
  <1> DEFINE c == R!piece(app[h].res, R!Empty)
  <1>2. PICK r \in U!Results(tcp[h]) :
          tcp' = [tcp EXCEPT ![h] = end_connection(@, c, r)]
    BY DEF DoEnd
  <1>3. c \in R!Piece
    BY At, AppFacts, PieceIs DEF R!Messages
  <1> HIDE DEF c
  <1>4. /\ Shape(end_connection(tcp[h], c, r))
        /\ Len(end_connection(tcp[h], c, r).given) <= Len(tcp[h].given) + 1
    BY <1>3, At, WriteGiven, ShutdownGiven DEF end_connection
  <1>5. HandlerInv'
    BY <1>1, <1>2, <1>4, Wrote
  <1>6. U!Running(h) /\ Len(tcp[h].given) < MaxWrites
    BY <1>1, BelowMaxWrites DEF Doing
  <1>7. U!endConnection(h)
    BY <1>1, <1>2, <1>3, <1>6 DEF U!endConnection, end_connection, uv_write
  <1> QED BY <1>5, <1>7 DEF U!Next

(* A status is set, or an exception raised: there is less to do.           *)
LEMMA LessToDo ==
  ASSUME HandlerInv, NEW h \in Handles, NEW do, Doing(h, do),
         NEW a \in App, a.requests = app[h].requests, a.data = app[h].data,
         a.reading = app[h].reading,
         app' = [app EXCEPT ![h] = a], UNCHANGED <<cur, tcp>>
  PROVE  HandlerInv'
  <1>1. /\ cur = h /\ todo' \in Seq(Operation)
        /\ Len(todo') = Len(todo) - 1 /\ Len(todo) \in Nat /\ Len(todo) > 0
    BY DoingFacts
  <1>2. /\ app' \in [Handles -> App] /\ app'[h] = a
        /\ \A k \in Handles \ {h} : app'[k] = app[k]
    BY DEF HandlerInv
  <1>3. /\ DOMAIN tcp' = Handles /\ Shape(tcp'[h]) /\ tcp' = tcp
    BY DEF HandlerInv, Shape
  <1>4. \A k \in Handles \ {h} : ToWrite(k)' = ToWrite(k)
    BY <1>1 DEF ToWrite
  <1>5. Budget(h)'
    <2>1. ToWrite(h) = Len(todo) /\ ToWrite(h)' = Len(todo')
      BY <1>1 DEF ToWrite
    <2>2. AtEnd(h)' = AtEnd(h)
      BY <1>2 DEF AtEnd
    <2>3. /\ Len(tcp[h].given) \in Nat /\ AtEnd(h) \in {0, 1}
          /\ Len(tcp[h].given) + Len(todo) + AtEnd(h)
               <= 4 * app[h].requests + app[h].data
      BY <2>1, At DEF Budget
    <2>4. app[h].requests \in Nat /\ app[h].data \in Nat
      BY At, AppFacts
    <2>5. Len(tcp[h].given) <= Len(tcp[h].given) + 1
      BY <2>3
    <2>6. Len(tcp[h].given) + (Len(todo) - 1) + AtEnd(h)
            <= 4 * app[h].requests + app[h].data
      BY <1>1, <2>3, <2>4, <2>5, BudgetSpent
    <2> QED BY <1>1, <1>2, <1>3, <2>1, <2>2, <2>6 DEF Budget
  <1>6. cur' = NoHandle => todo' = <<>>
    BY <1>1, HandlesAssumption
  <1> QED BY <1>1, <1>2, <1>3, <1>4, <1>5, <1>6, Update

LEMMA OnStatus ==
  ASSUME HandlerInv, NEW h \in Handles, DoStatus(h)
  PROVE  HandlerInv' /\ UNCHANGED U!vars
  <1>1. /\ Doing(h, "status") /\ UNCHANGED <<proc, cur, tcp>>
        /\ app' = [app EXCEPT ![h].res.statusCode = Head(todo).arg]
    BY DEF DoStatus
  <1> DEFINE a == [app[h] EXCEPT !.res.statusCode = Head(todo).arg]
  <1>2. Head(todo).arg \in R!Statuses /\ app[h] \in App /\ app[h].res \in R!Res
    BY <1>1, DoingFacts, OperationFacts, At, AppFacts
  <1>3. [app[h].res EXCEPT !.statusCode = Head(todo).arg] \in R!Res
    BY <1>2 DEF R!Res
  <1>4. /\ a \in App /\ a.requests = app[h].requests /\ a.data = app[h].data
        /\ a.reading = app[h].reading
    BY <1>2, <1>3 DEF App
  <1>5. app' = [app EXCEPT ![h] = a]
    BY <1>1
  <1> HIDE DEF a
  <1> QED BY <1>1, <1>4, <1>5, LessToDo DEF U!vars

LEMMA OnRaise ==
  ASSUME HandlerInv, NEW h \in Handles, DoRaise(h)
  PROVE  HandlerInv' /\ U!Next
  <1>1. Doing(h, "raise") /\ U!HandlerRaises(h) /\ app' = app
    BY DEF DoRaise
  <1>2. UNCHANGED <<cur, tcp>>
    BY <1>1 DEF U!HandlerRaises
  <1>3. app' = [app EXCEPT ![h] = app[h]] /\ app[h] \in App
    BY <1>1 DEF HandlerInv
  <1>4. HandlerInv'
    BY <1>1, <1>2, <1>3, LessToDo
  <1> QED BY <1>1, <1>4 DEF U!Next

LEMMA OnSigPipe ==
  ASSUME HandlerInv, NEW h \in Handles, SigPipe(h)
  PROVE  HandlerInv' /\ U!Next
  <1>1. UNCHANGED <<cur, tcp, app, todo>> /\ U!SigPipe(h)
    BY DEF SigPipe, U!SigPipe
  <1>2. HandlerInv'
    BY <1>1 DEF HandlerInv, Budget, ToWrite, AtEnd
  <1> QED BY <1>1, <1>2 DEF U!Next

LEMMA OnListen ==
  ASSUME HandlerInv, Listen
  PROVE  HandlerInv' /\ U!Next
  <1>1. UNCHANGED <<cur, tcp, app, todo>>
    BY DEF Listen, U!Listen
  <1>2. HandlerInv'
    BY <1>1 DEF HandlerInv, Budget, ToWrite, AtEnd
  <1> QED BY <1>2 DEF Listen, U!Next

----------------------------------------------------------------------------
LEMMA InitInv == Init => HandlerInv /\ U!Init
  <1> SUFFICES ASSUME Init PROVE HandlerInv /\ U!Init
    OBVIOUS
  <1>1. /\ U!Init /\ todo = <<>> /\ app = [h \in Handles |-> NewApp]
        /\ tcp = [h \in Handles |-> U!NewHandle("free", "junk", FALSE)]
    BY DEF Init, U!Init
  <1>2. \A h \in Handles : Shape(tcp[h]) /\ tcp[h].given = <<>>
    BY <1>1, NewGiven
  <1>3. \A h \in Handles : ToWrite(h) = 0 /\ AtEnd(h) = 0
    BY <1>1, NewAppFacts DEF ToWrite, AtEnd
  <1>4. \A h \in Handles : Budget(h)
    <2> TAKE h \in Handles
    <2>1. app[h].requests = 0 /\ app[h].data = 0 /\ Len(tcp[h].given) = 0
      BY <1>1, <1>2, NewAppFacts
    <2> QED BY <1>3, <2>1 DEF Budget
  <1>5. todo \in Seq(Operation) /\ app \in [Handles -> App]
    BY <1>1, NewAppFacts
  <1>6. DOMAIN tcp = Handles
    BY <1>1
  <1> QED BY <1>1, <1>2, <1>4, <1>5, <1>6, Zenon DEF HandlerInv, Shape

LEMMA StepInv ==
  ASSUME HandlerInv, [Next]_vars
  PROVE  HandlerInv' /\ [U!Next]_(U!vars)
  <1>1. CASE Next
    BY <1>1, OnListen, OnAccepted, OnLoop, OnReadCb, OnEvent, OnWrite,
       OnStatus, OnEndConnection, OnRaise, OnSigPipe DEF Next
  <1>2. CASE UNCHANGED vars
    BY <1>2 DEF vars, U!vars, HandlerInv, Budget, ToWrite, AtEnd
  <1> QED BY <1>1, <1>2

(* The handlers of the example programs, run by the parser on any packets, *)
(* call uv_write and uv_shutdown (libuv_c.c) only as UvTcp allows any      *)
(* program: in the read_cb of their connection, with strings, and within   *)
(* four writes for a request.  So what is proved of UvTcp holds for them.  *)
THEOREM Refines == Spec => ImplementsUvTcp
  <1>1. Spec => []HandlerInv
    BY InitInv, StepInv, PTL DEF Spec
  <1>2. HandlerInv /\ [Next]_vars => [U!Next]_(U!vars)
    BY StepInv
  <1>3. Init => U!Init
    BY InitInv
  <1> QED BY <1>1, <1>2, <1>3, PTL DEF Spec, ImplementsUvTcp, U!Spec

----------------------------------------------------------------------------
F == INSTANCE HttpFramingProofs
P == INSTANCE UvTcpProofs WITH Chunks <- R!Piece

(* HttpFraming is a part of HttpServer, and what is proved of the client   *)
(* there holds here.                                                       *)
LEMMA ClientIs ==
  /\ R!Client(<<>>) = R!Reader("head", <<>>, FALSE)
  /\ \A s \in Seq(R!Piece), p \in R!Piece :
       R!Client(Append(s, p)) = R!Read(R!Client(s), p)
  <1>b. \A a, b, x : R!Reader(a, b, x) = F!Reader(a, b, x)
    BY Zenon DEF R!Reader, F!Reader
  <1>c. \A c, p : R!ReadHead(c, p) = F!ReadHead(c, p)
    BY Zenon DEF R!ReadHead, F!ReadHead, R!NoHead, F!NoHead
  <1>d. \A c, p : R!ReadBody(c, p) = F!ReadBody(c, p)
    BY Zenon DEF R!ReadBody, F!ReadBody, R!Empty, F!Empty
  <1>2. \A c, p : R!Read(c, p) = F!Read(c, p)
    BY <1>c, <1>d, Zenon DEF R!Read, F!Read
  <1>1. \A s : R!Client(s) = F!Client(s)
    BY <1>b, <1>2, Zenon DEF R!Client, F!Client
  <1>3. F!Client(<<>>) = R!Reader("head", <<>>, FALSE)
    BY F!ClientOfNothing, Zenon DEF R!Reader, F!Reader
  <1>4. ASSUME NEW s \in Seq(R!Piece), NEW p \in R!Piece
        PROVE  F!Client(Append(s, p)) = F!Read(F!Client(s), p)
    BY F!ClientOfAppend
  <1> QED BY <1>1, <1>2, <1>3, <1>4, Zenon

(* What a client makes of one piece: the header block, a chunk, the first  *)
(* piece, a later one.                                                     *)
LEMMA HeadRead ==
  ASSUME NEW p, p.head # R!NoHead, p.head.encoding = "chunked", NEW b, NEW x
  PROVE  R!Read(R!Reader("head", b, x), p)
           = R!ReadBody(R!Reader("chunks", b, x), p)
  BY DEF R!Read, R!ReadHead, R!Reader

LEMMA ChunkRead ==
  ASSUME NEW p, p.framed = TRUE, NEW b, NEW x
  PROVE  R!ReadBody(R!Reader("chunks", b, x), p)
           = IF p.msg = R!Empty THEN R!Reader("done", b, x)
             ELSE R!Reader("chunks", Append(b, p.msg), x)
  <1>1. p.framed
    OBVIOUS
  <1>2. CASE p.msg = R!Empty
    BY <1>1, <1>2 DEF R!ReadBody, R!Reader
  <1>3. CASE p.msg # R!Empty
    BY <1>1, <1>3 DEF R!ReadBody, R!Reader
  <1> QED BY <1>2, <1>3

LEMMA FirstRead ==
  ASSUME NEW p, p.head # R!NoHead, p.head.encoding = "chunked",
         p.framed = TRUE, NEW b, NEW x
  PROVE  R!Read(R!Reader("head", b, x), p)
           = IF p.msg = R!Empty THEN R!Reader("done", b, x)
             ELSE R!Reader("chunks", Append(b, p.msg), x)
  <1>1. R!Read(R!Reader("head", b, x), p)
          = R!ReadBody(R!Reader("chunks", b, x), p)
    BY HeadRead
  <1> QED BY <1>1, ChunkRead

LEMMA NextRead ==
  ASSUME NEW p, p.head = R!NoHead, p.framed = TRUE, NEW b, NEW x
  PROVE  /\ R!Read(R!Reader("chunks", b, x), p)
              = IF p.msg = R!Empty THEN R!Reader("done", b, x)
                ELSE R!Reader("chunks", Append(b, p.msg), x)
         /\ R!Read(R!Reader("done", b, x), p) = R!Reader("done", b, TRUE)
  <1>1. \A c : R!Read(c, p) = R!ReadBody(c, p)
    BY DEF R!Read, R!ReadHead
  <1>2. R!ReadBody(R!Reader("done", b, x), p) = R!Reader("done", b, TRUE)
    BY DEF R!ReadBody, R!Reader
  <1> QED BY <1>1, <1>2, ChunkRead

(* The fields of a client.                                                 *)
LEMMA ReaderFields ==
  ASSUME NEW a, NEW b, NEW x
  PROVE  /\ R!Reader(a, b, x).state = a /\ R!Reader(a, b, x).body = b
         /\ R!Reader(a, b, x).extra = x
  BY DEF R!Reader

(* Pieces that are chunks, after one header block, are never malformed.    *)
LEMMA ChunksAreRead ==
  ASSUME NEW s \in Seq(R!Piece),
         InChunks(s)
  PROVE  R!Client(s).state # "bad"
  <1> DEFINE pre(n) == SubSeq(s, 1, n)
             ok(n) == \E b, x : R!Client(pre(n)) = R!Reader("chunks", b, x)
                                \/ R!Client(pre(n)) = R!Reader("done", b, x)
             S == {n \in Nat : n # 0 /\ n <= Len(s) => ok(n)}
  <1>1. 0 \in S
    OBVIOUS
  <1>2. ASSUME NEW n \in S PROVE n + 1 \in S
    <2> SUFFICES ASSUME n + 1 <= Len(s) PROVE ok(n + 1)
      OBVIOUS
    <2> DEFINE p == s[n + 1]
    <2>1. n \in Nat /\ n + 1 \in DOMAIN s /\ p \in R!Piece
      OBVIOUS
    <2>2. p.framed = TRUE
      BY <2>1 DEF R!Piece, InChunks
    <2>3. pre(n) \in Seq(R!Piece) /\ pre(n + 1) = Append(pre(n), p)
      BY <2>1
    <2>4. R!Client(pre(n + 1)) = R!Read(R!Client(pre(n)), p)
      BY <2>1, <2>3, ClientIs
    <2>5. CASE n = 0
      <3>1. pre(n) = <<>>
        BY <2>5
      <3>2. p.head # R!NoHead /\ p.head.encoding = "chunked"
        BY <2>1, <2>5 DEF InChunks
      <3> HIDE DEF pre, p
      <3>3. R!Client(pre(n + 1)) = R!Read(R!Reader("head", <<>>, FALSE), p)
        BY <2>4, <3>1, ClientIs
      <3>4. R!Read(R!Reader("head", <<>>, FALSE), p)
              = IF p.msg = R!Empty THEN R!Reader("done", <<>>, FALSE)
                ELSE R!Reader("chunks", Append(<<>>, p.msg), FALSE)
        BY <2>2, <3>2, FirstRead
      <3> QED BY <3>3, <3>4
    <2>6. CASE n # 0
      <3>1. p.head = R!NoHead
        BY <2>1, <2>6 DEF InChunks
      <3>2. ok(n)
        BY <2>1, <2>6
      <3> HIDE DEF pre, p
      <3>3. PICK b, x : R!Client(pre(n)) = R!Reader("chunks", b, x)
                        \/ R!Client(pre(n)) = R!Reader("done", b, x)
        BY <3>2
      <3>4. CASE R!Client(pre(n)) = R!Reader("done", b, x)
        <4>1. R!Client(pre(n + 1)) = R!Reader("done", b, TRUE)
          <5>1. R!Read(R!Reader("done", b, x), p) = R!Reader("done", b, TRUE)
            BY <2>2, <3>1, NextRead, Zenon
          <5> QED BY <2>4, <3>4, <5>1
        <4> QED BY <4>1
      <3>5. CASE R!Client(pre(n)) = R!Reader("chunks", b, x)
        <4>1. R!Client(pre(n + 1)) = R!Reader("done", b, x)
              \/ R!Client(pre(n + 1)) = R!Reader("chunks", Append(b, p.msg), x)
          <5>1. R!Read(R!Reader("chunks", b, x), p)
                  = IF p.msg = R!Empty THEN R!Reader("done", b, x)
                    ELSE R!Reader("chunks", Append(b, p.msg), x)
            BY <2>2, <3>1, NextRead, Zenon
          <5> QED BY <2>4, <3>5, <5>1
        <4> QED BY <4>1
      <3> QED BY <3>3, <3>4, <3>5
    <2> QED BY <2>5, <2>6
  <1>3. S = Nat
    <2> HIDE DEF S
    <2>1. S \in SUBSET Nat
      BY DEF S
    <2> QED BY <1>1, <1>2, <2>1, F!SetInduction
  <1>4. Len(s) \in Nat /\ pre(Len(s)) = s
    OBVIOUS
  <1>5. CASE Len(s) = 0
    <2>1. R!Client(s) = R!Reader("head", <<>>, FALSE)
      BY <1>5, ClientIs, EmptySeq
    <2>2. R!Reader("head", <<>>, FALSE).state = "head"
      BY DEF R!Reader
    <2> QED BY <2>1, <2>2
  <1>6. CASE Len(s) # 0
    <2>1. ok(Len(s))
      BY <1>3, <1>4, <1>6
    <2>2. PICK b, x : R!Client(s) = R!Reader("chunks", b, x)
                      \/ R!Client(s) = R!Reader("done", b, x)
      BY <1>4, <2>1
    <2>3. R!Client(s).state = "chunks" \/ R!Client(s).state = "done"
      <3>1. R!Reader("chunks", b, x).state = "chunks"
            /\ R!Reader("done", b, x).state = "done"
        BY DEF R!Reader
      <3> QED BY <2>2, <3>1
    <2> QED BY <2>3
  <1> QED BY <1>5, <1>6

----------------------------------------------------------------------------
(* What is proved of UvTcp holds of its instance in HttpServer.            *)
LEMMA SameTcp ==
  /\ U!Init => P!Init
  /\ [U!Next]_(U!vars) => [P!Next]_(P!vars)
  /\ P!IInv => U!IInv
  <1>1. U!Init => P!Init
    BY DEF U!Init, P!Init, U!NewHandle, P!NewHandle
  <1>2. U!Next <=> P!Next
    BY Zenon DEF P!vars, U!vars, P!Stages, U!Stages, P!uv_shutdown_t,
           U!uv_shutdown_t, P!write_queue, U!write_queue, P!Handle, U!Handle,
           P!NewHandle, U!NewHandle, P!uv_tcp_init_ocaml,
           U!uv_tcp_init_ocaml, P!uv_accept_ocaml, U!uv_accept_ocaml,
           P!request_on, U!request_on, P!uv_read_start_ocaml,
           U!uv_read_start_ocaml, P!uv_shutdown_ocaml, U!uv_shutdown_ocaml,
           P!Results, U!Results, P!uv__write, U!uv__write, P!uv_write_ocaml,
           U!uv_write_ocaml, P!write_cb, U!write_cb, P!uv__write_callbacks,
           U!uv__write_callbacks, P!shutdown_cb, U!shutdown_cb, P!uv__drain,
           U!uv__drain, P!uv__stream_io, U!uv__stream_io, P!close_cb,
           U!close_cb, P!uv__finish_close, U!uv__finish_close, P!Init,
           U!Init, P!Listen, U!Listen, P!Idle, U!Idle, P!ConnectionAccepted,
           U!ConnectionAccepted, P!ConnectionRefused, U!ConnectionRefused,
           P!CanRead, U!CanRead, P!ReadData, U!ReadData, P!ReadFails,
           U!ReadFails, P!Running, U!Running, P!Write, U!Write,
           P!endConnection, U!endConnection, P!ReadReturns, U!ReadReturns,
           P!HandlerRaises, U!HandlerRaises, P!Writable, U!Writable,
           P!Closing, U!Closing, P!PeerReset, U!PeerReset, P!AtOnce,
           U!AtOnce, P!SigPipe, U!SigPipe, P!Next, U!Next
  <1>3. U!vars = P!vars
    BY DEF U!vars, P!vars
  <1>4. P!IInv => U!IInv
    BY DEF P!IInv, U!IInv, P!TypeOK, U!TypeOK, P!HandleInv, U!HandleInv,
           P!Handle, U!Handle, P!Stages, U!Stages, P!uv_shutdown_t,
           U!uv_shutdown_t, P!write_queue, U!write_queue,
           P!HandlerOnOpenHandle, U!HandlerOnOpenHandle
  <1>5. ASSUME [U!Next]_(U!vars) PROVE [P!Next]_(P!vars)
    <2>1. CASE U!Next
      BY <1>2, <2>1
    <2>2. CASE UNCHANGED U!vars
      BY <2>2 DEF U!vars, P!vars
    <2> QED BY <1>5, <2>1, <2>2
  <1> QED BY <1>1, <1>4, <1>5

LEMMA WritesBound == MaxWrites \in Nat
  BY BoundsAssumption DEF MaxWrites

(* So the invariant of UvTcp holds of the server.                          *)
LEMMA TcpInvAlways == Spec => []U!IInv
  <1>1. P!Spec => []P!IInv
    <2>1. MaxWrites \in Nat /\ NoHandle \notin Handles
      BY WritesBound, HandlesAssumption
    <2> QED BY <2>1, P!IInvAlways
  <1>2. U!Spec => P!Spec
    BY SameTcp, PTL DEF U!Spec, P!Spec
  <1>3. P!IInv => U!IInv
    BY SameTcp
  <1> QED BY <1>1, <1>2, <1>3, Refines, PTL DEF ImplementsUvTcp

----------------------------------------------------------------------------
(* A handle has the fields the proofs below ask for.                       *)
Fields(t) ==
  {"given", "stage", "shut", "wq", "done", "failed", "wire", "wreqs",
   "reading"} \subseteq DOMAIN t

(* The handles UvTcp allows have them.                                     *)
LEMMA HandleFields ==
  ASSUME NEW t \in U!Handle
  PROVE  Fields(t)
  BY DEF Fields, U!Handle

(* What the bindings do to the output of a handle, its stage and its       *)
(* pending shutdown.                                                       *)
LEMMA TryEffect ==
  ASSUME NEW t, Fields(t), NEW r \in {"ok", "err", "again"}
  PROVE  LET u == U!uv__write(t, r) IN
         /\ Fields(u) /\ u.given = t.given /\ u.stage = t.stage
         /\ u.shut = t.shut
  BY DEF Fields, U!uv__write

LEMMA WriteEffect ==
  ASSUME NEW t, Fields(t), t.stage = "open", NEW c, NEW r \in U!Results(t)
  PROVE  LET u == uv_write(t, c, r) IN
         /\ Fields(u) /\ u.given = Append(t.given, c) /\ u.stage = "open"
         /\ u.shut = t.shut
  <1> DEFINE q == [t EXCEPT !.wq = Append(@, c), !.given = Append(@, c),
                            !.wreqs = @ + 1]
  <1>1. r \in {"ok", "err", "again"}
    BY DEF U!Results
  <1>2. Fields(q) /\ q.given = Append(t.given, c) /\ q.stage = "open"
        /\ q.shut = t.shut
    BY DEF Fields
  <1>3. uv_write(t, c, r) \in {q, U!uv__write(q, r)}
    BY DEF uv_write, U!uv_write_ocaml, U!AtOnce
  <1> HIDE DEF q
  <1> QED BY <1>1, <1>2, <1>3, TryEffect

LEMMA EndEffect ==
  ASSUME NEW t, Fields(t), t.stage = "open", NEW c, NEW r \in U!Results(t)
  PROVE  LET u == end_connection(t, c, r) IN
         /\ u.given = Append(t.given, c) /\ u.stage = "open"
  <1> DEFINE w == uv_write(t, c, r)
  <1>1. Fields(w) /\ w.given = Append(t.given, c) /\ w.stage = "open"
    BY WriteEffect
  <1> HIDE DEF w
  <1>2. /\ U!uv_shutdown_ocaml(w).given = Append(t.given, c)
        /\ U!uv_shutdown_ocaml(w).stage = "open"
    BY <1>1 DEF U!uv_shutdown_ocaml, Fields
  <1> QED BY <1>2 DEF end_connection, w

LEMMA StreamIoEffect ==
  ASSUME NEW t, Fields(t), t.stage = "open", NEW r \in U!Results(t)
  PROVE  LET u == U!uv__stream_io(t, r) IN
         /\ u.given = t.given
         /\ \/ u.stage = "open" /\ u.shut = t.shut
            \/ u.stage = "closing" /\ t.shut = "pending"
  <1> DEFINE w == IF t.wq = <<>> THEN t ELSE U!uv__write(t, r)
             c == U!uv__write_callbacks(w)
  <1>1. r \in {"ok", "err", "again"}
    BY DEF U!Results
  <1>2. Fields(w) /\ w.given = t.given /\ w.stage = "open" /\ w.shut = t.shut
    BY <1>1, TryEffect
  <1> HIDE DEF w
  <1>3. Fields(c) /\ c.given = t.given /\ c.stage = "open" /\ c.shut = t.shut
    BY <1>2 DEF U!uv__write_callbacks, U!write_cb, Fields
  <1> HIDE DEF c
  <1>4. LET u == U!uv__drain(c) IN
         /\ u.given = t.given
         /\ \/ u.stage = "open" /\ u.shut = t.shut
            \/ u.stage = "closing" /\ t.shut = "pending"
    BY <1>3 DEF U!uv__drain, U!shutdown_cb, Fields
  <1> QED BY <1>4 DEF U!uv__stream_io, w, c

LEMMA AcceptEffect ==
  ASSUME NEW t, NEW data
  PROVE  LET u == U!uv_read_start_ocaml(U!request_on(U!uv_accept_ocaml(
                    U!uv_tcp_init_ocaml(t, data))))
         IN  u.given = <<>> /\ u.stage = "open" /\ u.shut = "no"
  BY DEF U!uv_read_start_ocaml, U!request_on, U!uv_accept_ocaml,
         U!uv_tcp_init_ocaml, U!NewHandle

LEMMA RefuseEffect ==
  ASSUME NEW t, NEW data
  PROVE  LET u == U!uv_shutdown_ocaml(U!uv_tcp_init_ocaml(t, data))
         IN  u.given = <<>> /\ u.stage = "inited"
  BY DEF U!uv_shutdown_ocaml, U!uv_tcp_init_ocaml, U!NewHandle

LEMMA FinishEffect ==
  ASSUME NEW t
  PROVE  LET u == U!uv__finish_close(t)
         IN  u.given = <<>> /\ u.stage = "free"
  BY DEF U!uv__finish_close, U!close_cb, U!NewHandle

----------------------------------------------------------------------------
(* A connection of which the step changes nothing that matters here.       *)
LEMMA Untouched ==
  ASSUME NEW h \in Handles, PieceInv(h), AnswerInv(h),
         tcp'[h].given = tcp[h].given, tcp'[h].stage = tcp[h].stage,
         tcp'[h].shut = tcp[h].shut, app'[h] = app[h],
         proc' # "dead" => proc # "dead" /\ Rest(h)' = Rest(h)
  PROVE  PieceInv(h)' /\ AnswerInv(h)'
  <1>1. PieceInv(h)'
    BY DEF PieceInv
  <1>2. Given(h)' = Given(h)
    BY DEF Given
  <1>3. (Whole(h)' <=> Whole(h)) /\ (NotFoundSaid(h)' <=> NotFoundSaid(h))
    BY <1>2 DEF Whole, NotFoundSaid
  <1>4. CASE tcp'[h].stage = "open" /\ proc' # "dead"
    <2>1. Rest(h)' = Rest(h)
      BY <1>4
    <2>2. (Answered(h)' <=> Answered(h))
      BY <1>2, <1>3, <2>1 DEF Answered
    <2>3. (Unasked(h)' <=> Unasked(h)) /\ (Asked(h)' <=> Asked(h))
      BY <2>1 DEF Unasked, Asked
    <2>4. (AnsweringStatic(h)' <=> AnsweringStatic(h))
      <3>1. \A b : Part(h, b)' <=> Part(h, b)
        BY <1>2 DEF Part
      <3> QED BY <1>3, <2>1, <3>1 DEF AnsweringStatic
    <2>5. (AnsweringServer(h)' <=> AnsweringServer(h))
      BY <1>2, <2>1 DEF AnsweringServer, Part
    <2>6. tcp[h].stage = "open" /\ proc # "dead"
      BY <1>4
    <2>7. \/ Answered(h)
          \/ /\ tcp[h].shut = "no"
             /\ \/ Unasked(h) \/ Asked(h)
                \/ AnsweringStatic(h) \/ AnsweringServer(h)
      BY <2>6, Zenon DEF AnswerInv
    <2>8. tcp'[h].stage # "closing"
      BY <1>4
    <2>9. \/ Answered(h)'
          \/ /\ tcp'[h].shut = "no"
             /\ \/ Unasked(h)' \/ Asked(h)'
                \/ AnsweringStatic(h)' \/ AnsweringServer(h)'
      BY <2>2, <2>3, <2>4, <2>5, <2>7
    <2> QED BY <1>1, <2>8, <2>9, Zenon DEF AnswerInv
  <1>5. CASE ~ (tcp'[h].stage = "open" /\ proc' # "dead")
    <2>1. tcp'[h].stage = "closing" =>
            Whole(h)' /\ (app'[h].requests > 1 => Given(h)'.extra)
      <3>1. tcp[h].stage = "closing" =>
              Whole(h) /\ (app[h].requests > 1 => Given(h).extra)
        BY Zenon DEF AnswerInv
      <3> QED BY <1>2, <1>3, <3>1
    <2> QED BY <1>1, <1>5, <2>1, Zenon DEF AnswerInv
  <1> QED BY <1>1, <1>4, <1>5

----------------------------------------------------------------------------
(* A client that got nothing has read no answer and no part of one.        *)
LEMMA EmptyReading ==
  ASSUME NEW h \in Handles, tcp[h].given = <<>>
  PROVE  /\ ~Whole(h) /\ \A b : ~Part(h, b)
  <1>1. Given(h) = R!Reader("head", <<>>, FALSE)
    BY ClientIs DEF Given
  <1>2. Given(h).state = "head"
    BY <1>1 DEF R!Reader
  <1>3. \A b, x : R!Reader("chunks", b, x).state = "chunks"
                  /\ R!Reader("done", b, x).state = "done"
    BY DEF R!Reader
  <1>4. \A b : ~Part(h, b)
    BY <1>2, <1>3 DEF Part
  <1>5. ~Whole(h)
    BY <1>2, <1>3 DEF Whole
  <1> QED BY <1>4, <1>5

(* The piece of a write: a chunk, after the header block if it is the      *)
(* first.                                                                  *)
LEMMA PieceFacts ==
  ASSUME NEW r \in R!Res, NEW m \in R!Messages, r.encoding = "chunked"
  PROVE  LET p == R!piece(r, m) IN
         /\ p \in R!Piece /\ p.msg = m /\ p.framed = TRUE
         /\ r.wroteHeaders => p.head = R!NoHead
         /\ ~r.wroteHeaders =>
              /\ p.head # R!NoHead /\ p.head.encoding = "chunked"
              /\ p.head.statusCode = r.statusCode
  <1> DEFINE p == R!piece(r, m)
  <1>1. p \in R!Piece
    BY PieceIs
  <1>2. p.framed = (r.encoding = "chunked") /\ p.msg = m
    BY DEF R!piece
  <1>3. r.wroteHeaders => p.head = R!NoHead
    BY DEF R!piece
  <1>4. ~r.wroteHeaders =>
          p.head = [statusCode |-> r.statusCode, encoding |-> r.encoding]
    BY DEF R!piece
  <1>5. [statusCode |-> r.statusCode, encoding |-> r.encoding] # R!NoHead
    BY DEF R!NoHead
  <1> HIDE DEF p
  <1>6. p.framed = TRUE
    BY <1>2
  <1>7. ~r.wroteHeaders =>
              /\ p.head # R!NoHead /\ p.head.encoding = "chunked"
              /\ p.head.statusCode = r.statusCode
    BY <1>4, <1>5
  <1> QED BY <1>1, <1>2, <1>3, <1>6, <1>7 DEF p

(* A message is written on an open connection.                             *)
Writes(h, m) ==
  /\ tcp[h].stage = "open"
  /\ tcp'[h].stage = "open"
  /\ tcp'[h].given = Append(tcp[h].given, R!piece(app[h].res, m))
  /\ app'[h] = [app[h] EXCEPT !.res = R!wrote(@)]

(* Its first piece carries the header block and all are chunks.            *)
LEMMA WritesPiece ==
  ASSUME NEW h \in Handles, HandlerInv, PieceInv(h),
         NEW m \in R!Messages, Writes(h, m)
  PROVE  /\ PieceInv(h)'
         /\ app'[h].requests = app[h].requests
         /\ app'[h].reading = app[h].reading
         /\ app'[h].data = app[h].data
  <1>1. app[h] \in App /\ app[h].res \in R!Res
    BY At, AppFacts
  <1>2. /\ app'[h].requests = app[h].requests
        /\ app'[h].reading = app[h].reading /\ app'[h].data = app[h].data
        /\ app'[h].res = R!wrote(app[h].res)
    BY <1>1 DEF App, Writes
  <1>3. /\ app'[h].res.encoding = app[h].res.encoding
        /\ app'[h].res.wroteHeaders
    BY <1>1, <1>2 DEF R!wrote, R!Res
  <1> DEFINE p == R!piece(app[h].res, m)
             g == tcp[h].given
  <1>4. app[h].res.encoding = "chunked"
        /\ (app[h].res.wroteHeaders <=> g # <<>>)
    BY DEF PieceInv, Writes
  <1>5. /\ p \in R!Piece /\ p.msg = m /\ p.framed
        /\ app[h].res.wroteHeaders => p.head = R!NoHead
        /\ ~app[h].res.wroteHeaders =>
             p.head # R!NoHead /\ p.head.encoding = "chunked"
    <2>1. app[h].res \in R!Res /\ app[h].res.encoding = "chunked"
      BY <1>1, <1>4
    <2>2. LET s == R!piece(app[h].res, m) IN
          /\ s \in R!Piece /\ s.msg = m /\ s.framed = TRUE
          /\ app[h].res.wroteHeaders => s.head = R!NoHead
          /\ ~app[h].res.wroteHeaders =>
               /\ s.head # R!NoHead /\ s.head.encoding = "chunked"
               /\ s.head.statusCode = app[h].res.statusCode
      BY <2>1, PieceFacts, Zenon
    <2> QED BY <2>2, Zenon
  <1>6. g \in Seq(R!Piece)
    BY At DEF Shape
  <1> HIDE DEF p
  <1>7. /\ DOMAIN g = 1 .. Len(g) /\ Len(g) \in Nat
        /\ DOMAIN Append(g, p) = 1 .. Len(g) + 1
        /\ Append(g, p)[Len(g) + 1] = p /\ Append(g, p) # <<>>
        /\ \A i \in 1 .. Len(g) : Append(g, p)[i] = g[i]
        /\ g = <<>> <=> Len(g) = 0
    <2> HIDE DEF g
    <2>1. p \in R!Piece /\ g \in Seq(R!Piece)
      BY <1>5, <1>6
    <2> QED BY <2>1
  <1>8. tcp'[h].given = Append(g, p) /\ tcp'[h].stage = "open"
    BY DEF Writes, p
  <1>9. \A i \in DOMAIN g : /\ g[i].framed
           /\ IF i = 1
              THEN g[i].head # R!NoHead /\ g[i].head.encoding = "chunked"
              ELSE g[i].head = R!NoHead
    BY DEF PieceInv, InChunks
  <1>10. ASSUME NEW i \in DOMAIN tcp'[h].given
         PROVE  LET q == tcp'[h].given[i] IN
           /\ q.framed
           /\ IF i = 1
              THEN q.head # R!NoHead /\ q.head.encoding = "chunked"
              ELSE q.head = R!NoHead
    <2> HIDE DEF g
    <2>1. CASE i \in 1 .. Len(g)
      BY <1>7, <1>8, <1>9, <2>1
    <2>2. CASE i = Len(g) + 1
      BY <1>4, <1>5, <1>7, <1>8, <2>2
    <2> QED BY <1>7, <1>8, <2>1, <2>2
  <1> HIDE DEF g
  <1>11. app'[h].res.encoding = "chunked"
         /\ (app'[h].res.wroteHeaders <=> tcp'[h].given # <<>>)
    BY <1>3, <1>4, <1>7, <1>8
  <1>12. PieceInv(h)'
    BY <1>10, <1>11, Zenon DEF PieceInv, InChunks
  <1> QED BY <1>2, <1>12

(* And the client reads one chunk more, which the empty one ends; after    *)
(* the end it reads only what is extra.                                    *)
LEMMA WritesRead ==
  ASSUME NEW h \in Handles, HandlerInv, PieceInv(h),
         NEW m \in R!Messages, Writes(h, m)
  PROVE  /\ tcp[h].given = <<>> =>
              /\ Given(h)' = IF m = R!Empty THEN R!Reader("done", <<>>, FALSE)
                             ELSE R!Reader("chunks", <<m>>, FALSE)
              /\ NotFoundSaid(h)' <=> app[h].res.statusCode = 404
         /\ tcp[h].given # <<>> => (NotFoundSaid(h)' <=> NotFoundSaid(h))
         /\ \A b : Part(h, b) =>
              Given(h)' = IF m = R!Empty THEN R!Reader("done", b, FALSE)
                          ELSE R!Reader("chunks", Append(b, m), FALSE)
         /\ Whole(h) => Whole(h)' /\ Given(h)'.extra = TRUE
  <1>1. app[h].res \in R!Res
    BY At, AppFacts
  <1> DEFINE p == R!piece(app[h].res, m)
             g == tcp[h].given
  <1>4. app[h].res.encoding = "chunked"
        /\ (app[h].res.wroteHeaders <=> g # <<>>)
    BY DEF PieceInv, Writes
  <1>5. /\ p \in R!Piece /\ p.msg = m /\ p.framed = TRUE
        /\ app[h].res.wroteHeaders => p.head = R!NoHead
        /\ ~app[h].res.wroteHeaders =>
             /\ p.head # R!NoHead /\ p.head.encoding = "chunked"
             /\ p.head.statusCode = app[h].res.statusCode
    BY <1>1, <1>4, PieceFacts
  <1>6. g \in Seq(R!Piece)
    BY At DEF Shape
  <1> HIDE DEF p
  <1>7. Given(h)' = R!Read(Given(h), p)
    BY <1>5, <1>6, ClientIs DEF Given, Writes, p
  <1>8. g = <<>> => tcp'[h].given[1] = p
    BY <1>5 DEF Writes, p
  <1>9. g # <<>> => tcp'[h].given[1] = g[1]
    BY <1>5, <1>6 DEF Writes, p
  <1>10. CASE g = <<>>
    <2>1. Given(h) = R!Reader("head", <<>>, FALSE)
      BY <1>10, ClientIs DEF Given
    <2>2. R!Read(R!Reader("head", <<>>, FALSE), p)
            = IF p.msg = R!Empty THEN R!Reader("done", <<>>, FALSE)
              ELSE R!Reader("chunks", Append(<<>>, p.msg), FALSE)
      BY <1>4, <1>5, <1>10, FirstRead
    <2>3. Append(<<>>, m) = <<m>>
      OBVIOUS
    <2>4. NotFoundSaid(h)' <=> app[h].res.statusCode = 404
      BY <1>4, <1>5, <1>8, <1>10 DEF NotFoundSaid
    <2>5. Given(h)' = IF m = R!Empty THEN R!Reader("done", <<>>, FALSE)
                      ELSE R!Reader("chunks", <<m>>, FALSE)
      BY <1>5, <1>7, <2>1, <2>2, <2>3
    <2>6. ~Whole(h) /\ \A b : ~Part(h, b)
      BY <1>10, EmptyReading
    <2> HIDE DEF g
    <2> QED BY <1>10, <2>4, <2>5, <2>6, Zenon DEF g
  <1>11. CASE g # <<>>
    <2>1. NotFoundSaid(h)' <=> NotFoundSaid(h)
      BY <1>9, <1>11 DEF NotFoundSaid
    <2>2. p.head = R!NoHead
      BY <1>4, <1>5, <1>11
    <2>3. ASSUME NEW b, Part(h, b)
          PROVE  Given(h)' = IF m = R!Empty THEN R!Reader("done", b, FALSE)
                             ELSE R!Reader("chunks", Append(b, m), FALSE)
      <3>1. Given(h) = R!Reader("chunks", b, FALSE)
        BY <2>3 DEF Part
      <3>2. R!Read(R!Reader("chunks", b, FALSE), p)
              = IF p.msg = R!Empty THEN R!Reader("done", b, FALSE)
                ELSE R!Reader("chunks", Append(b, p.msg), FALSE)
        BY <1>5, <2>2, NextRead
      <3> QED BY <1>5, <1>7, <3>1, <3>2
    <2>4. ASSUME Whole(h) PROVE Whole(h)' /\ Given(h)'.extra = TRUE
      <3> DEFINE b == Given(h).body
                 x == Given(h).extra
      <3>1. Given(h) = R!Reader("done", b, x) /\ b \in Answers
            /\ (b = <<"notfound">> => NotFoundSaid(h))
        BY <2>4, Zenon DEF Whole
      <3> HIDE DEF b, x
      <3>2. R!Read(R!Reader("done", b, x), p) = R!Reader("done", b, TRUE)
        BY <1>5, <2>2, NextRead
      <3>3. Given(h)' = R!Reader("done", b, TRUE)
        BY <1>7, <3>1, <3>2
      <3>4. Given(h)'.body = b /\ Given(h)'.extra = TRUE
        BY <3>3 DEF R!Reader
      <3>5. Answers' = Answers
        BY DEF Answers, Echo
      <3>6. Whole(h)'
        BY <2>1, <3>1, <3>3, <3>4 DEF Whole
      <3> QED BY <3>4, <3>6
    <2> QED BY <1>11, <2>1, <2>3, <2>4
  <1> QED BY <1>10, <1>11

----------------------------------------------------------------------------
(* Handlers are short sequences of operations, and answers of texts.       *)
LEMMA Tuples ==
  /\ \A a : Head(<<a>>) = a /\ Tail(<<a>>) = <<>>
  /\ \A a, b : Head(<<a, b>>) = a /\ Tail(<<a, b>>) = <<b>>
  /\ \A a, b, c : Head(<<a, b, c>>) = a /\ Tail(<<a, b, c>>) = <<b, c>>
  <1>1. \A a : Head(<<a>>) = a /\ Tail(<<a>>) = <<>>
    OBVIOUS
  <1>2. \A a, b : Head(<<a, b>>) = a /\ Tail(<<a, b>>) = <<b>>
    OBVIOUS
  <1>3. \A a, b, c : Head(<<a, b, c>>) = a /\ Tail(<<a, b, c>>) = <<b, c>>
    OBVIOUS
  <1> QED BY <1>1, <1>2, <1>3

LEMMA AppendToOne ==
  ASSUME NEW a, NEW b
  PROVE  Append(<<a>>, b) = <<a, b>>
  <1> DEFINE S == {a, b}
             u == <<a>>
             v == <<a, b>>
             w == Append(u, b)
  <1>1. u \in Seq(S) /\ Len(u) = 1 /\ u[1] = a /\ b \in S
    OBVIOUS
  <1>2. v \in Seq(S) /\ Len(v) = 2 /\ v[1] = a /\ v[2] = b
    OBVIOUS
  <1> HIDE DEF S, u, v
  <1>3. w \in Seq(S) /\ Len(w) = Len(u) + 1 /\ w[Len(u) + 1] = b
        /\ \A i \in 1 .. Len(u) : w[i] = u[i]
    <2>1. u \in Seq(S) /\ b \in S
      BY <1>1
    <2> QED BY <2>1
  <1> HIDE DEF w
  <1>4. Len(w) = 2 /\ w[1] = a /\ w[2] = b
    BY <1>1, <1>3
  <1>5. \A i \in 1 .. 2 : v[i] = w[i]
    BY <1>2, <1>4
  <1>6. w = v
    BY <1>2, <1>3, <1>4, <1>5, SeqEqual
  <1> QED BY <1>6 DEF u, v, w

LEMMA AppendToTwo ==
  ASSUME NEW a, NEW b, NEW c
  PROVE  Append(<<a, b>>, c) = <<a, b, c>>
  <1> DEFINE S == {a, b, c}
             u == <<a, b>>
             v == <<a, b, c>>
             w == Append(u, c)
  <1>1. u \in Seq(S) /\ Len(u) = 2 /\ u[1] = a /\ u[2] = b /\ c \in S
    OBVIOUS
  <1>2. v \in Seq(S) /\ Len(v) = 3 /\ v[1] = a /\ v[2] = b /\ v[3] = c
    OBVIOUS
  <1> HIDE DEF S, u, v
  <1>3. w \in Seq(S) /\ Len(w) = Len(u) + 1 /\ w[Len(u) + 1] = c
        /\ \A i \in 1 .. Len(u) : w[i] = u[i]
    <2>1. u \in Seq(S) /\ c \in S
      BY <1>1
    <2> QED BY <2>1
  <1> HIDE DEF w
  <1>4. Len(w) = 3 /\ w[1] = a /\ w[2] = b /\ w[3] = c
    BY <1>1, <1>3
  <1>5. \A i \in 1 .. 3 : v[i] = w[i]
    BY <1>2, <1>4
  <1>6. w = v
    BY <1>2, <1>3, <1>4, <1>5, SeqEqual
  <1> QED BY <1>6 DEF u, v, w

(* The answers of ExampleServer grow by one text for each part of the      *)
(* body, and are not the page that is not found.                           *)
LEMMA EchoFacts ==
  /\ Echo(0) = <<"hello", "url", "headers">>
  /\ \A n \in Nat : /\ Append(Echo(n), "testdata") = Echo(n + 1)
                    /\ Echo(n) # <<"notfound">>
  <1>1. \A n \in Nat : /\ Len(Echo(n)) = n + 3
                       /\ Echo(n) \in
                            Seq({"hello", "url", "headers", "testdata"})
                       /\ Echo(n)[1] = "hello" /\ Echo(n)[2] = "url"
                            /\ Echo(n)[3] = "headers"
                       /\ \A i \in 1 .. n : Echo(n)[i + 3] = "testdata"
    <2> TAKE n \in Nat
    <2> DEFINE S == {"hello", "url", "headers", "testdata"}
               s == <<"hello", "url", "headers">>
               t == [i \in 1 .. n |-> "testdata"]
    <2>1. s \in Seq(S) /\ Len(s) = 3 /\ s[1] = "hello" /\ s[2] = "url"
          /\ s[3] = "headers"
      OBVIOUS
    <2>2. t \in Seq(S) /\ Len(t) = n /\ \A i \in 1 .. n : t[i] = "testdata"
      OBVIOUS
    <2> HIDE DEF S, s, t
    <2>3. /\ s \o t \in Seq(S) /\ Len(s \o t) = Len(s) + Len(t)
          /\ \A i \in 1 .. Len(s) + Len(t) :
               (s \o t)[i] = IF i <= Len(s) THEN s[i] ELSE t[i - Len(s)]
      <3>1. s \in Seq(S) /\ t \in Seq(S)
        BY <2>1, <2>2
      <3> QED BY <3>1, ConcatProperties, Zenon
    <2>4. \A i \in 1 .. n : i + 3 \in 1 .. Len(s) + Len(t)
          /\ ~ (i + 3 <= Len(s)) /\ (i + 3) - Len(s) = i
      BY <2>1, <2>2
    <2>5. \A i \in 1 .. n : (s \o t)[i + 3] = "testdata"
      BY <2>2, <2>3, <2>4
    <2> QED BY <2>1, <2>2, <2>3, <2>5 DEF Echo, S, s, t
  <1>2. Echo(0) = <<"hello", "url", "headers">>
    <2> DEFINE S == {"hello", "url", "headers", "testdata"}
               a == Echo(0)
               b == <<"hello", "url", "headers">>
    <2>1. a \in Seq(S) /\ Len(a) = 3 /\ a[1] = "hello" /\ a[2] = "url"
          /\ a[3] = "headers"
      <3>1. 0 \in Nat /\ 0 + 3 = 3
        OBVIOUS
      <3> HIDE DEF S
      <3> QED BY <1>1, <3>1, Zenon DEF S
    <2>2. b \in Seq(S) /\ Len(b) = 3 /\ b[1] = "hello" /\ b[2] = "url"
          /\ b[3] = "headers"
      OBVIOUS
    <2> HIDE DEF S, a, b
    <2>3. \A i \in 1 .. 3 : a[i] = b[i]
      BY <2>1, <2>2
    <2>4. a = b
      BY <2>1, <2>2, <2>3, SeqEqual
    <2> QED BY <2>4 DEF a, b
  <1>3. ASSUME NEW n \in Nat PROVE Append(Echo(n), "testdata") = Echo(n + 1)
    <2> DEFINE S == {"hello", "url", "headers", "testdata"}
               a == Append(Echo(n), "testdata")
               b == Echo(n + 1)
    <2>1. a \in Seq(S) /\ Len(a) = n + 4 /\ a[1] = "hello" /\ a[2] = "url"
          /\ a[3] = "headers"
          /\ (\A i \in 1 .. n : a[i + 3] = "testdata") /\ a[n + 4] = "testdata"
      <3> DEFINE e == Echo(n)
      <3>1. e \in Seq(S) /\ Len(e) = n + 3 /\ e[1] = "hello"
            /\ e[2] = "url" /\ e[3] = "headers"
            /\ (\A i \in 1 .. n : e[i + 3] = "testdata")
        BY <1>1
      <3>2. "testdata" \in S
        OBVIOUS
      <3> HIDE DEF e, S
      <3>3. a = Append(e, "testdata")
        BY DEF e
      <3>4. /\ a \in Seq(S) /\ Len(a) = n + 4 /\ a[n + 4] = "testdata"
            /\ \A i \in 1 .. n + 3 : a[i] = e[i]
        <4> HIDE DEF a
        <4> QED BY <3>1, <3>2, <3>3, AppendProperties
      <3>5. 1 \in 1 .. n + 3 /\ 2 \in 1 .. n + 3 /\ 3 \in 1 .. n + 3
            /\ \A i \in 1 .. n : i + 3 \in 1 .. n + 3
        OBVIOUS
      <3> HIDE DEF a
      <3> QED BY <3>1, <3>4, <3>5
    <2>2. b \in Seq(S) /\ Len(b) = n + 4 /\ b[1] = "hello" /\ b[2] = "url"
          /\ b[3] = "headers"
          /\ (\A i \in 1 .. n + 1 : b[i + 3] = "testdata")
      BY <1>1
    <2> HIDE DEF a, b
    <2>3. ASSUME NEW i \in 1 .. n + 4 PROVE a[i] = b[i]
      <3>1. CASE i \in {1, 2, 3}
        BY <2>1, <2>2, <3>1
      <3>2. CASE i = n + 4
        <4>1. n + 1 \in 1 .. n + 1 /\ i = (n + 1) + 3
          BY <3>2
        <4> QED BY <2>1, <2>2, <3>2, <4>1
      <3>3. CASE i \notin {1, 2, 3} /\ i # n + 4
        <4>1. i - 3 \in 1 .. n /\ i - 3 \in 1 .. n + 1 /\ (i - 3) + 3 = i
          BY <3>3
        <4> QED BY <2>1, <2>2, <4>1
      <3> QED BY <3>1, <3>2, <3>3
    <2>4. a = b
      BY <2>1, <2>2, <2>3, SeqEqual
    <2> QED BY <2>4 DEF a, b
  <1>4. ASSUME NEW n \in Nat PROVE Echo(n) # <<"notfound">>
    <2>1. <<"notfound">>[1] = "notfound"
      OBVIOUS
    <2> QED BY <1>1, <2>1
  <1> QED BY <1>2, <1>3, <1>4

(* An operation is what it is called.                                      *)
LEMMA OpFields ==
  /\ \A m : Write(m).do = "write" /\ Write(m).arg = m
  /\ \A s : Status(s).do = "status" /\ Status(s).arg = s
  /\ End.do = "end" /\ Raise.do = "raise"
  BY DEF Write, Status, End, Raise, Op

(* No text is the empty message, which ends a response.                    *)
LEMMA TextFacts == \A t \in Texts : t # R!Empty
  BY DEF Texts, R!Empty

(* The next message of the handler of h, with or without a shutdown.       *)
Says(h, m) ==
  /\ Writes(h, m) /\ m \in R!Messages
  /\ proc = "up" /\ proc' = "up" /\ cur = h /\ cur' = h
  /\ todo # <<>> /\ todo' = Tail(todo)
  /\ \/ Head(todo).do = "write" /\ m = Head(todo).arg
          /\ tcp'[h].shut = tcp[h].shut
     \/ Head(todo).do = "end" /\ m = R!Empty

(* The running handler has one operation less to do.                       *)
LEMMA SaysRest ==
  ASSUME NEW h \in Handles, HandlerInv, NEW m, Says(h, m)
  PROVE  Rest(h) = todo /\ Rest(h) # <<>> /\ Rest(h)' = Tail(Rest(h))
  BY DEF Says, Rest

(* After the answer, whatever is said is extra.                            *)
LEMMA SaysAnswered ==
  ASSUME NEW h \in Handles, HandlerInv, PieceInv(h), NEW m, Says(h, m),
         Answered(h)
  PROVE  Answered(h)'
  <1>1. Whole(h)' /\ Given(h)'.extra = TRUE
    BY WritesRead DEF Says, Answered
  <1>2. Rest(h) \in Seq(Operation) /\ Rest(h) # <<>>
        /\ Rest(h)' = Tail(Rest(h))
    BY SaysRest, At
  <1>3. Rest(h)[Len(Rest(h))].do # "status"
    BY <1>2 DEF Answered
  <1>4. Tail(Rest(h)) # <<>> =>
          Tail(Rest(h))[Len(Tail(Rest(h)))] = Rest(h)[Len(Rest(h))]
    BY <1>2
  <1>5. Rest(h)' # <<>> => Rest(h)'[Len(Rest(h)')].do # "status"
    BY <1>2, <1>3, <1>4
  <1> QED BY <1>1, <1>5 DEF Answered

(* The first operation of the first answer, in either program.             *)
LEMMA SaysAsked ==
  ASSUME NEW h \in Handles, HandlerInv, PieceInv(h), NEW m, Says(h, m),
         Asked(h), tcp[h].shut = "no"
  PROVE  Answered(h)' \/ (tcp'[h].shut = "no"
                            /\ (AnsweringStatic(h)' \/ AnsweringServer(h)'))
  <1>1. /\ Rest(h) = todo /\ Rest(h)' = Tail(todo) /\ todo \in onRequest
        /\ tcp[h].given = <<>> /\ app[h].requests = 1 /\ app[h].reading
    BY SaysRest DEF Asked
  <1>2. app'[h].requests = 1 /\ app'[h].reading = app[h].reading
    BY <1>1, WritesPiece DEF Says
  <1>3. Given(h)' = IF m = R!Empty THEN R!Reader("done", <<>>, FALSE)
                    ELSE R!Reader("chunks", <<m>>, FALSE)
    <2>1. Writes(h, m) /\ m \in R!Messages
      BY Zenon DEF Says
    <2> QED BY <1>1, <2>1, WritesRead, Zenon
  <1>4. \/ Head(todo).do = "write" /\ m = Head(todo).arg /\ tcp'[h].shut = "no"
        \/ Head(todo).do = "end" /\ m = R!Empty
    BY DEF Says
  <1>5. CASE Program = "server"
    <2>1. todo = <<Write("hello"), Write("url"), Write("headers")>>
      <3>1. todo # <<Raise>>
        BY <1>4, Tuples, OpFields
      <3>2. todo \in server
        BY <1>1, <1>5 DEF onRequest
      <3> QED BY <3>1, <3>2, Zenon DEF server
    <2>2. Head(todo) = Write("hello")
          /\ Tail(todo) = <<Write("url"), Write("headers")>>
      BY <2>1, Tuples
    <2>3. m = "hello" /\ m # R!Empty /\ tcp'[h].shut = "no"
      BY <1>4, <2>2, OpFields, TextFacts DEF Texts
    <2>4. Part(h, <<"hello">>)'
      BY <1>3, <2>3 DEF Part
    <2>5. AnsweringServer(h)'
      BY <1>1, <1>2, <1>5, <2>2, <2>4 DEF AnsweringServer
    <2> QED BY <2>3, <2>5
  <1>6. CASE Program = "static"
    <2>1. todo \in static
      BY <1>1, <1>6 DEF onRequest
    <2>2. CASE todo = <<Write("content"), End>>
      <3>1. Head(todo) = Write("content") /\ Tail(todo) = <<End>>
        BY <2>2, Tuples
      <3>2. m = "content" /\ m # R!Empty /\ tcp'[h].shut = "no"
        BY <1>4, <3>1, OpFields, TextFacts DEF Texts
      <3>3. Part(h, <<"content">>)'
        BY <1>3, <3>2 DEF Part
      <3>4. AnsweringStatic(h)'
        BY <1>1, <1>2, <1>6, <3>1, <3>3 DEF AnsweringStatic
      <3> QED BY <3>2, <3>4
    <2>3. CASE todo = <<Write(R!Empty), End>>
      <3>1. Head(todo) = Write(R!Empty) /\ Tail(todo) = <<End>>
        BY <2>3, Tuples
      <3>2. m = R!Empty
        BY <1>4, <3>1, OpFields
      <3>3. Given(h)' = R!Reader("done", <<>>, FALSE)
        BY <1>3, <3>2
      <3>4. Given(h)'.body = <<>> /\ Given(h)'.extra = FALSE
        BY <3>3 DEF R!Reader
      <3>5. Whole(h)'
        <4>1. <<>> \in Answers' /\ <<>> # <<"notfound">>
          BY <1>6 DEF Answers
        <4> QED BY <3>3, <3>4, <4>1 DEF Whole
      <3>6. Rest(h)' = <<End>> /\ <<End>> # <<>> /\ <<End>>[Len(<<End>>)] = End
        BY <1>1, <3>1
      <3>7. Answered(h)'
        BY <3>5, <3>6, OpFields DEF Answered
      <3> QED BY <3>7
    <2>4. CASE todo = <<Status(404), Write("notfound"), End>>
      <3>1. Head(todo) = Status(404)
        BY <2>4, Tuples
      <3> QED BY <1>4, <3>1, OpFields
    <2>5. CASE todo = <<Raise>>
      <3>1. Head(todo) = Raise
        BY <2>5, Tuples
      <3> QED BY <1>4, <3>1, OpFields
    <2> QED BY <2>1, <2>2, <2>3, <2>4, <2>5, Zenon DEF static
  <1> QED BY <1>5, <1>6, ProgramAssumption

(* The next operations of ExampleStatic end in a whole answer.             *)
LEMMA SaysStatic ==
  ASSUME NEW h \in Handles, HandlerInv, PieceInv(h), NEW m, Says(h, m),
         AnsweringStatic(h), tcp[h].shut = "no"
  PROVE  Answered(h)' \/ (tcp'[h].shut = "no" /\ AnsweringStatic(h)')
  <1>1. /\ Rest(h) = todo /\ Rest(h)' = Tail(todo)
        /\ Program = "static" /\ app[h].requests = 1
    BY SaysRest DEF AnsweringStatic
  <1>2. app'[h].requests = 1
    BY <1>1, WritesPiece DEF Says
  <1>3. \/ Head(todo).do = "write" /\ m = Head(todo).arg /\ tcp'[h].shut = "no"
        \/ Head(todo).do = "end" /\ m = R!Empty
    BY DEF Says
  <1>4. CASE /\ Rest(h) = <<Write("notfound"), End>> /\ tcp[h].given = <<>>
             /\ app[h].res.statusCode = 404
    <2>1. Head(todo) = Write("notfound") /\ Tail(todo) = <<End>>
      BY <1>1, <1>4, Tuples
    <2>2. m = "notfound" /\ m # R!Empty /\ tcp'[h].shut = "no"
      BY <1>3, <2>1, OpFields, TextFacts DEF Texts
    <2>3. /\ Given(h)' = IF m = R!Empty THEN R!Reader("done", <<>>, FALSE)
                         ELSE R!Reader("chunks", <<m>>, FALSE)
          /\ NotFoundSaid(h)' <=> app[h].res.statusCode = 404
      BY <1>4, WritesRead DEF Says
    <2>4. Part(h, <<"notfound">>)' /\ NotFoundSaid(h)'
      BY <1>4, <2>2, <2>3 DEF Part
    <2>5. AnsweringStatic(h)'
      BY <1>1, <1>2, <2>1, <2>4 DEF AnsweringStatic
    <2> QED BY <2>2, <2>5
  <1>5. ASSUME NEW b, Part(h, b), Rest(h) = <<End>>, b \in Answers,
               b = <<"notfound">> => NotFoundSaid(h)
        PROVE  Answered(h)'
    <2>1. Head(todo) = End /\ Tail(todo) = <<>>
      BY <1>1, <1>5, Tuples
    <2>2. m = R!Empty
      BY <1>3, <2>1, OpFields
    <2>3. tcp[h].given # <<>>
      BY <1>5, EmptyReading
    <2>4. /\ NotFoundSaid(h)' <=> NotFoundSaid(h)
          /\ Given(h)' = R!Reader("done", b, FALSE)
      <3>1. /\ NotFoundSaid(h)' <=> NotFoundSaid(h)
            /\ Part(h, b) =>
                 Given(h)' = IF m = R!Empty THEN R!Reader("done", b, FALSE)
                             ELSE R!Reader("chunks", Append(b, m), FALSE)
        <4>1. m \in R!Messages /\ Writes(h, m)
          BY DEF Says
        <4>2. NotFoundSaid(h)' <=> NotFoundSaid(h)
          BY <2>3, <4>1, WritesRead
        <4>3. Part(h, b) =>
                 Given(h)' = IF m = R!Empty THEN R!Reader("done", b, FALSE)
                             ELSE R!Reader("chunks", Append(b, m), FALSE)
          BY <4>1, WritesRead
        <4> QED BY <4>2, <4>3
      <3> QED BY <1>5, <2>2, <3>1
    <2>5. Given(h)'.body = b /\ Given(h)'.extra = FALSE
      BY <2>4 DEF R!Reader
    <2>6. Answers' = Answers
      BY DEF Answers, Echo
    <2>7. Whole(h)'
      BY <1>5, <2>4, <2>5 DEF Whole
    <2> QED BY <1>1, <1>2, <2>1, <2>7 DEF Answered
  <1>6. <<"content">> \in Answers /\ <<"notfound">> \in Answers
        /\ <<"content">> # <<"notfound">>
    BY <1>1 DEF Answers
  <1>7. \/ /\ Rest(h) = <<Write("notfound"), End>> /\ tcp[h].given = <<>>
           /\ app[h].res.statusCode = 404
        \/ Rest(h) = <<End>> /\ Part(h, <<"content">>)
        \/ Rest(h) = <<End>> /\ Part(h, <<"notfound">>) /\ NotFoundSaid(h)
    BY Zenon DEF AnsweringStatic
  <1> QED BY <1>4, <1>5, <1>6, <1>7

----------------------------------------------------------------------------
(* The next operations of ExampleServer: its three texts, those of the     *)
(* body, and the end.                                                      *)
LEMMA SaysServer ==
  ASSUME NEW h \in Handles, HandlerInv, PieceInv(h), NEW m, Says(h, m),
         AnsweringServer(h), tcp[h].shut = "no"
  PROVE  Answered(h)' \/ (tcp'[h].shut = "no" /\ AnsweringServer(h)')
  <1>1. /\ Rest(h) = todo /\ Rest(h)' = Tail(todo) /\ todo # <<>>
        /\ Program = "server" /\ app[h].requests = 1
    BY SaysRest DEF AnsweringServer
  <1>2. app'[h].requests = 1 /\ app'[h].reading = app[h].reading
        /\ app'[h].data = app[h].data
    BY <1>1, WritesPiece DEF Says
  <1>3. \/ Head(todo).do = "write" /\ m = Head(todo).arg /\ tcp'[h].shut = "no"
        \/ Head(todo).do = "end" /\ m = R!Empty
    BY DEF Says
  <1>4. \A b : Part(h, b) =>
           Given(h)' = IF m = R!Empty THEN R!Reader("done", b, FALSE)
                       ELSE R!Reader("chunks", Append(b, m), FALSE)
    <2>1. m \in R!Messages /\ Writes(h, m)
      BY DEF Says
    <2> QED BY <2>1, WritesRead
  <1>5. app[h].data \in Nat /\ app[h].data <= MaxData /\ MaxData \in Nat
    BY At, AppFacts
  <1>6. CASE /\ app[h].reading /\ Rest(h) = <<Write("url"), Write("headers")>>
             /\ Part(h, <<"hello">>)
    <2>1. Head(todo) = Write("url") /\ Tail(todo) = <<Write("headers")>>
      BY <1>1, <1>6, Tuples
    <2>2. m = "url" /\ m # R!Empty /\ tcp'[h].shut = "no"
      BY <1>3, <2>1, OpFields, TextFacts DEF Texts
    <2>3. Append(<<"hello">>, "url") = <<"hello", "url">>
      BY AppendToOne
    <2>4. Part(h, <<"hello", "url">>)'
      BY <1>4, <1>6, <2>2, <2>3 DEF Part
    <2>5. AnsweringServer(h)'
      BY <1>1, <1>2, <1>6, <2>1, <2>4 DEF AnsweringServer
    <2> QED BY <2>2, <2>5
  <1>7. CASE /\ app[h].reading /\ Rest(h) = <<Write("headers")>>
             /\ Part(h, <<"hello", "url">>)
    <2>1. Head(todo) = Write("headers") /\ Tail(todo) = <<>>
      BY <1>1, <1>7, Tuples
    <2>2. m = "headers" /\ m # R!Empty /\ tcp'[h].shut = "no"
      BY <1>3, <2>1, OpFields, TextFacts DEF Texts
    <2>3. Append(<<"hello", "url">>, "headers") = Echo(0)
      <3>1. Append(<<"hello", "url">>, "headers")
              = <<"hello", "url", "headers">>
        BY AppendToTwo
      <3> QED BY <3>1, EchoFacts
    <2>4. Part(h, Echo(0))'
      <3>1. Given(h)' = R!Reader("chunks", Echo(0), FALSE)
        BY <1>4, <1>7, <2>2, <2>3
      <3>2. Echo(0)' = Echo(0)
        BY DEF Echo
      <3> QED BY <3>1, <3>2 DEF Part
    <2>5. 0 \in 0 .. app'[h].data
      BY <1>2, <1>5
    <2>6. AnsweringServer(h)'
      BY <1>1, <1>2, <1>7, <2>1, <2>4, <2>5 DEF AnsweringServer
    <2> QED BY <2>2, <2>6
  <1>8. ASSUME NEW n \in 0 .. app[h].data, Part(h, Echo(n)), app[h].reading,
               n < app[h].data, Rest(h) = <<Write("testdata")>>
        PROVE  tcp'[h].shut = "no" /\ AnsweringServer(h)'
    <2>1. Head(todo) = Write("testdata") /\ Tail(todo) = <<>>
      BY <1>1, <1>8, Tuples
    <2>2. m = "testdata" /\ m # R!Empty /\ tcp'[h].shut = "no"
      BY <1>3, <2>1, OpFields, TextFacts DEF Texts
    <2>3. n \in Nat /\ n + 1 \in 0 .. app'[h].data
      BY <1>2, <1>5, <1>8
    <2>4. Part(h, Echo(n + 1))'
      <3>1. Given(h)' = R!Reader("chunks", Append(Echo(n), m), FALSE)
        BY <1>4, <1>8, <2>2
      <3>2. Given(h)' = R!Reader("chunks", Echo(n + 1), FALSE)
        BY <2>2, <2>3, <3>1, EchoFacts
      <3> QED BY <3>2, Zenon DEF Part
    <2>5. AnsweringServer(h)'
      BY <1>1, <1>2, <1>8, <2>1, <2>3, <2>4 DEF AnsweringServer
    <2> QED BY <2>2, <2>5
  <1>9. ASSUME NEW n \in 0 .. app[h].data, Part(h, Echo(n)), Rest(h) = <<End>>
        PROVE  Answered(h)'
    <2>1. Head(todo) = End /\ Tail(todo) = <<>>
      BY <1>1, <1>9, Tuples
    <2>2. m = R!Empty
      BY <1>3, <2>1, OpFields
    <2>3. Given(h)' = R!Reader("done", Echo(n), FALSE)
      BY <1>4, <1>9, <2>2
    <2>4. Given(h)'.body = Echo(n) /\ Given(h)'.extra = FALSE
      BY <2>3 DEF R!Reader
    <2>5. n \in Nat /\ n \in 0 .. MaxData
      BY <1>5, <1>9
    <2>6. Echo(n) \in Answers' /\ Echo(n) # <<"notfound">>
      BY <1>1, <2>5, EchoFacts DEF Answers
    <2>7. Whole(h)'
      BY <2>3, <2>4, <2>6 DEF Whole
    <2> QED BY <1>1, <1>2, <2>1, <2>7 DEF Answered
  <1>10. \/ /\ app[h].reading /\ Rest(h) = <<Write("url"), Write("headers")>>
            /\ Part(h, <<"hello">>)
         \/ /\ app[h].reading /\ Rest(h) = <<Write("headers")>>
            /\ Part(h, <<"hello", "url">>)
         \/ \E n \in 0 .. app[h].data :
              /\ Part(h, Echo(n))
              /\ \/ Rest(h) = <<>>
                 \/ /\ app[h].reading /\ n < app[h].data
                    /\ Rest(h) = <<Write("testdata")>>
                 \/ Rest(h) = <<End>>
    BY DEF AnsweringServer
  <1> QED BY <1>1, <1>6, <1>7, <1>8, <1>9, <1>10

(* Whatever it says, the running handler keeps AnswerInv.                  *)
LEMMA SaysAnswers ==
  ASSUME NEW h \in Handles, HandlerInv, PieceInv(h), AnswerInv(h),
         NEW m, Says(h, m)
  PROVE  PieceInv(h)' /\ AnswerInv(h)'
  <1>1. tcp[h].stage = "open" /\ tcp'[h].stage = "open" /\ proc = "up"
        /\ m \in R!Messages /\ Writes(h, m)
    BY DEF Says, Writes
  <1>2. PieceInv(h)'
    BY <1>1, WritesPiece
  <1>3. \/ Answered(h)
        \/ /\ tcp[h].shut = "no"
           /\ \/ Unasked(h) \/ Asked(h)
              \/ AnsweringStatic(h) \/ AnsweringServer(h)
    BY <1>1, Zenon DEF AnswerInv
  <1>4. ~Unasked(h)
    BY SaysRest DEF Unasked
  <1>5. \/ Answered(h)'
        \/ /\ tcp'[h].shut = "no"
           /\ AnsweringStatic(h)' \/ AnsweringServer(h)'
    BY <1>3, <1>4, SaysAnswered, SaysAsked, SaysStatic, SaysServer
  <1>6. tcp'[h].stage # "closing"
    BY <1>1
  <1> QED BY <1>2, <1>5, <1>6, Zenon DEF AnswerInv

(* A running handler uses a connection that is open.                       *)
LEMMA OpenWhileRunning ==
  ASSUME U!IInv, NEW h \in Handles, U!Running(h)
  PROVE  tcp[h].stage = "open" /\ Fields(tcp[h]) /\ proc = "up" /\ cur = h
  <1>1. cur = h /\ proc = "up"
    BY DEF U!Running
  <1>2. tcp[h].stage = "open"
    BY <1>1, HandlesAssumption DEF U!IInv, U!HandlerOnOpenHandle
  <1>3. tcp[h] \in U!Handle
    BY DEF U!IInv, U!HandleInv
  <1> QED BY <1>1, <1>2, <1>3, HandleFields

(* Write and End say a message.                                            *)
LEMMA WriteSays ==
  ASSUME HandlerInv, U!IInv, NEW h \in Handles, DoWrite(h)
  PROVE  Says(h, Head(todo).arg)
  <1>1. /\ Doing(h, "write") /\ UNCHANGED <<proc, cur>>
        /\ app' = [app EXCEPT ![h].res = R!wrote(@)]
    BY DEF DoWrite
  <1> DEFINE m == Head(todo).arg
             c == R!piece(app[h].res, m)
  <1>2. PICK r \in U!Results(tcp[h]) :
          tcp' = [tcp EXCEPT ![h] = uv_write(@, c, r)]
    BY DEF DoWrite
  <1>3. m \in R!Messages /\ Head(todo).do = "write"
    BY <1>1, DoingFacts, OperationFacts
  <1>4. tcp[h].stage = "open" /\ Fields(tcp[h]) /\ proc = "up" /\ cur = h
    BY <1>1, OpenWhileRunning DEF Doing
  <1> HIDE DEF c
  <1>5. LET u == uv_write(tcp[h], c, r) IN
         u.given = Append(tcp[h].given, c) /\ u.stage = "open"
         /\ u.shut = tcp[h].shut
    BY <1>4, WriteEffect
  <1>6. tcp'[h] = uv_write(tcp[h], c, r)
        /\ app'[h] = [app[h] EXCEPT !.res = R!wrote(@)]
    BY <1>1, <1>2 DEF HandlerInv
  <1>7. Writes(h, m)
    BY <1>4, <1>5, <1>6 DEF Writes, c
  <1>8. tcp'[h].shut = tcp[h].shut
    BY <1>5, <1>6
  <1>9. todo # <<>> /\ todo' = Tail(todo)
    BY <1>1 DEF Doing
  <1> QED BY <1>1, <1>3, <1>4, <1>7, <1>8, <1>9 DEF Says

LEMMA EndSays ==
  ASSUME HandlerInv, U!IInv, NEW h \in Handles, DoEnd(h)
  PROVE  Says(h, R!Empty)
  <1>1. /\ Doing(h, "end") /\ UNCHANGED <<proc, cur>>
        /\ app' = [app EXCEPT ![h].res = R!wrote(@)]
    BY DEF DoEnd
  <1> DEFINE c == R!piece(app[h].res, R!Empty)
  <1>2. PICK r \in U!Results(tcp[h]) :
          tcp' = [tcp EXCEPT ![h] = end_connection(@, c, r)]
    BY DEF DoEnd
  <1>3. R!Empty \in R!Messages /\ Head(todo).do = "end"
    BY <1>1 DEF Doing, R!Messages
  <1>4. tcp[h].stage = "open" /\ Fields(tcp[h]) /\ proc = "up" /\ cur = h
    BY <1>1, OpenWhileRunning DEF Doing
  <1> HIDE DEF c
  <1>5. LET u == end_connection(tcp[h], c, r) IN
         u.given = Append(tcp[h].given, c) /\ u.stage = "open"
    BY <1>4, EndEffect
  <1>6. tcp'[h] = end_connection(tcp[h], c, r)
        /\ app'[h] = [app[h] EXCEPT !.res = R!wrote(@)]
    BY <1>1, <1>2 DEF HandlerInv
  <1>7. Writes(h, R!Empty)
    BY <1>4, <1>5, <1>6 DEF Writes, c
  <1>9. todo # <<>> /\ todo' = Tail(todo)
    BY <1>1 DEF Doing
  <1> QED BY <1>1, <1>3, <1>4, <1>7, <1>9 DEF Says

----------------------------------------------------------------------------
(* The other connections, when one of them takes a step.                   *)
LEMMA Others ==
  ASSUME OutputInv, HandlerInv, NEW h \in Handles,
         \A k \in Handles \ {h} : tcp'[k] = tcp[k] /\ app'[k] = app[k],
         proc' # "dead" => proc # "dead",
         \/ cur = h /\ cur' = h
         \/ todo = <<>> /\ todo' = <<>>,
         PieceInv(h)', AnswerInv(h)'
  PROVE  OutputInv'
  <1>1. ASSUME NEW k \in Handles \ {h} PROVE PieceInv(k)' /\ AnswerInv(k)'
    <2>1. Rest(k)' = Rest(k)
      BY DEF Rest
    <2>2. PieceInv(k) /\ AnswerInv(k) /\ k \in Handles
      BY DEF OutputInv
    <2>3. tcp'[k] = tcp[k] /\ app'[k] = app[k]
      OBVIOUS
    <2> QED BY <2>1, <2>2, <2>3, Untouched
  <1> QED BY <1>1 DEF OutputInv

(* Without a connection, or without the process, nothing is promised.      *)
LEMMA NotUp ==
  ASSUME NEW h \in Handles, tcp'[h].stage # "closing",
         ~ (tcp'[h].stage = "open" /\ proc' # "dead"), PieceInv(h)'
  PROVE  PieceInv(h)' /\ AnswerInv(h)'
  BY Zenon DEF AnswerInv

(* A handle that got or lost its memory.                                   *)
LEMMA NoConnection ==
  ASSUME NEW h \in Handles, PieceInv(h), app'[h] = app[h],
         tcp'[h].given = <<>>, tcp'[h].stage \in {"free", "inited"}
  PROVE  PieceInv(h)' /\ AnswerInv(h)'
  <1>1. DOMAIN tcp'[h].given = {}
    OBVIOUS
  <1>2. PieceInv(h)'
    BY <1>1 DEF PieceInv, InChunks
  <1> QED BY <1>2, NotUp

(* The steps of the server, one by one: a handler writes, sets the status, *)
(* raises.                                                                 *)
LEMMA WritesOutput ==
  ASSUME OutputInv, HandlerInv, U!IInv, NEW h \in Handles,
         DoWrite(h) \/ DoEnd(h)
  PROVE  OutputInv'
  <1>1. \E m : Says(h, m)
    BY WriteSays, EndSays
  <1>2. PieceInv(h)' /\ AnswerInv(h)'
    BY <1>1, SaysAnswers DEF OutputInv
  <1>3. cur = h /\ cur' = h /\ proc = "up"
    BY <1>1 DEF Says
  <1>4. \A k \in Handles \ {h} : tcp'[k] = tcp[k] /\ app'[k] = app[k]
    <2>1. \E u : tcp' = [tcp EXCEPT ![h] = u]
      BY DEF DoWrite, DoEnd
    <2>2. app' = [app EXCEPT ![h].res = R!wrote(@)]
      BY DEF DoWrite, DoEnd
    <2>3. DOMAIN tcp = Handles /\ app \in [Handles -> App]
      BY DEF HandlerInv
    <2> QED BY <2>1, <2>2, <2>3
  <1> QED BY <1>2, <1>3, <1>4, Others

LEMMA StatusOutput ==
  ASSUME OutputInv, HandlerInv, U!IInv, NEW h \in Handles, DoStatus(h)
  PROVE  OutputInv'
  <1>1. /\ Doing(h, "status") /\ UNCHANGED <<proc, cur, tcp>>
        /\ app' = [app EXCEPT ![h].res.statusCode = Head(todo).arg]
        /\ todo # <<>> /\ todo' = Tail(todo) /\ Head(todo).do = "status"
    BY DEF DoStatus, Doing
  <1>2. tcp[h].stage = "open" /\ proc = "up" /\ cur = h
    BY <1>1, OpenWhileRunning DEF Doing
  <1>3. /\ app[h] \in App /\ app[h].res \in R!Res /\ todo \in Seq(Operation)
    BY At, AppFacts
  <1>4. /\ app'[h] = [app[h] EXCEPT !.res.statusCode = Head(todo).arg]
        /\ \A k \in Handles \ {h} : tcp'[k] = tcp[k] /\ app'[k] = app[k]
    BY <1>1 DEF HandlerInv
  <1>5. /\ app'[h].requests = app[h].requests
        /\ app'[h].reading = app[h].reading
        /\ app'[h].res.encoding = app[h].res.encoding
        /\ app'[h].res.wroteHeaders = app[h].res.wroteHeaders
        /\ app'[h].res.statusCode = Head(todo).arg
    BY <1>3, <1>4 DEF App, R!Res
  <1>6. PieceInv(h) /\ AnswerInv(h)
    BY DEF OutputInv
  <1>7. PieceInv(h)'
    BY <1>1, <1>5, <1>6 DEF PieceInv
  <1>8. Rest(h) = todo /\ Rest(h)' = Tail(todo)
    BY <1>1, <1>2 DEF Rest
  <1>9. /\ Given(h)' = Given(h) /\ (Whole(h)' <=> Whole(h))
    BY <1>1 DEF Given, Whole, NotFoundSaid
  <1>10. ASSUME Answered(h) PROVE Answered(h)'
    <2>1. todo[Len(todo)].do # "status"
      BY <1>1, <1>8, <1>10 DEF Answered
    <2>2. Tail(todo) # <<>> /\ Tail(todo)[Len(Tail(todo))] = todo[Len(todo)]
      <3>1. Len(todo) \in Nat /\ Len(todo) # 0 /\ Head(todo) = todo[1]
        BY <1>1, <1>3
      <3>2. Len(todo) # 1
        BY <1>1, <2>1, <3>1
      <3>3. Len(Tail(todo)) = Len(todo) - 1
        BY <1>1, <1>3
      <3>4. Tail(todo) # <<>>
        BY <3>1, <3>2, <3>3
      <3>5. Tail(todo) # <<>> =>
              Tail(todo)[Len(Tail(todo))] = todo[Len(todo)]
        BY <1>1, <1>3
      <3> QED BY <3>4, <3>5
    <2>3. Answered(h)'
      BY <1>8, <1>9, <1>10, <2>1, <2>2 DEF Answered
    <2> QED BY <2>3
  <1>11. ASSUME Asked(h), tcp[h].shut = "no"
         PROVE  tcp'[h].shut = "no" /\ AnsweringStatic(h)'
    <2>1. Head(todo) = Status(404)
          /\ Tail(todo) = <<Write("notfound"), End>> /\ Program = "static"
      <3>1. CASE Program = "server"
        <4>1. todo \in server
          BY <1>8, <1>11, <3>1 DEF Asked, onRequest
        <4>2. Head(todo) = Write("hello") \/ Head(todo) = Raise
          BY <4>1, Tuples DEF server
        <4> QED BY <1>1, <4>2, OpFields
      <3>2. CASE Program = "static"
        <4>1. todo \in static
          BY <1>8, <1>11, <3>2 DEF Asked, onRequest
        <4>2. todo # <<Write("content"), End>>
              /\ todo # <<Write(R!Empty), End>>
              /\ todo # <<Raise>>
          BY <1>1, Tuples, OpFields
        <4>3. todo = <<Status(404), Write("notfound"), End>>
          BY <4>1, <4>2, Zenon DEF static
        <4> QED BY <3>2, <4>3, Tuples
      <3> QED BY <3>1, <3>2, ProgramAssumption
    <2>2. AnsweringStatic(h)'
      BY <1>1, <1>5, <1>8, <1>11, <2>1, OpFields DEF AnsweringStatic, Asked
    <2> QED BY <1>1, <1>11, <2>2
  <1>12. ~Unasked(h)
    BY <1>1, <1>8 DEF Unasked
  <1>13. ~AnsweringStatic(h)
    <2>1. todo # <<Write("notfound"), End>> /\ todo # <<End>>
      BY <1>1, Tuples, OpFields
    <2> QED BY <1>8, <2>1 DEF AnsweringStatic
  <1>14. ~AnsweringServer(h)
    <2>1. todo # <<Write("url"), Write("headers")>>
          /\ todo # <<Write("headers")>>
          /\ todo # <<Write("testdata")>> /\ todo # <<End>>
      BY <1>1, Tuples, OpFields
    <2> QED BY <1>1, <1>8, <2>1 DEF AnsweringServer
  <1>15. \/ Answered(h)
         \/ /\ tcp[h].shut = "no"
            /\ \/ Unasked(h) \/ Asked(h)
               \/ AnsweringStatic(h) \/ AnsweringServer(h)
    BY <1>2, <1>6, Zenon DEF AnswerInv
  <1>16. Answered(h)' \/ (tcp'[h].shut = "no" /\ AnsweringStatic(h)')
    BY <1>10, <1>11, <1>12, <1>13, <1>14, <1>15
  <1>17. tcp'[h].stage # "closing"
    BY <1>1, <1>2
  <1>18. AnswerInv(h)'
    BY <1>16, <1>17, Zenon DEF AnswerInv
  <1> QED BY <1>1, <1>2, <1>4, <1>7, <1>18, Others

LEMMA RaiseOutput ==
  ASSUME OutputInv, HandlerInv, U!IInv, NEW h \in Handles,
         DoRaise(h) \/ SigPipe(h)
  PROVE  OutputInv'
  <1>1. UNCHANGED <<cur, tcp, app>> /\ proc' = "dead"
    BY DEF DoRaise, U!HandlerRaises, SigPipe, U!SigPipe
  <1>2. \A k \in Handles : PieceInv(k) /\ AnswerInv(k)
    BY DEF OutputInv
  <1>3. \A k \in Handles : PieceInv(k)' /\ AnswerInv(k)'
    BY <1>1, <1>2, Untouched
  <1> QED BY <1>3 DEF OutputInv

----------------------------------------------------------------------------
(* The handlers of a request end in a write, in the end or in an           *)
(* exception.                                                              *)
LEMMA RequestHandlers ==
  \A t \in onRequest : t # <<>> /\ t[Len(t)].do # "status"
  <1>1. \A a : <<a>> # <<>> /\ <<a>>[Len(<<a>>)] = a
    OBVIOUS
  <1>2. \A a, b : <<a, b>> # <<>> /\ <<a, b>>[Len(<<a, b>>)] = b
    OBVIOUS
  <1>3. \A a, b, c : <<a, b, c>> # <<>> /\ <<a, b, c>>[Len(<<a, b, c>>)] = c
    OBVIOUS
  <1> DEFINE ok(t) == t # <<>> /\ t[Len(t)].do # "status"
  <1>4. \A t \in static : ok(t)
    <2>1. ok(<<Write("content"), End>>)
      BY <1>2, OpFields
    <2>2. ok(<<Write(R!Empty), End>>)
      BY <1>2, OpFields
    <2>3. ok(<<Raise>>)
      BY <1>1, OpFields
    <2>4. ok(<<Status(404), Write("notfound"), End>>)
      BY <1>3, OpFields
    <2> HIDE DEF ok
    <2> QED BY <2>1, <2>2, <2>3, <2>4, Zenon DEF static
  <1>5. \A t \in server : ok(t)
    <2>1. ok(<<Write("hello"), Write("url"), Write("headers")>>)
      BY <1>3, OpFields
    <2>2. ok(<<Raise>>)
      BY <1>1, OpFields
    <2> HIDE DEF ok
    <2> QED BY <2>1, <2>2, Zenon DEF server
  <1> QED BY <1>4, <1>5 DEF onRequest

(* Those of its body and its end do nothing else either.                   *)
LEMMA BodyHandlers ==
  /\ Program = "static" => onData = <<>> /\ onEnd = <<>>
  /\ Program # "static" => onData = <<Write("testdata")>> /\ onEnd = <<End>>
  /\ \A t \in {onData, onEnd} : t # <<>> => t[Len(t)].do # "status"
  <1>1. /\ Program = "static" => onData = <<>> /\ onEnd = <<>>
        /\ Program # "static" => onData = <<Write("testdata")>>
             /\ onEnd = <<End>>
    BY DEF onData, onEnd
  <1>2. \A a : <<a>> # <<>> /\ <<a>>[Len(<<a>>)] = a
    OBVIOUS
  <1> QED BY <1>1, <1>2, OpFields

(* What was given to uv_write is the same after a step.                    *)
LEMMA GivenSame ==
  ASSUME NEW h \in Handles, tcp'[h].given = tcp[h].given
  PROVE  /\ Given(h)' = Given(h) /\ (Whole(h)' <=> Whole(h))
         /\ \A b : Part(h, b)' <=> Part(h, b)
  <1>1. Given(h)' = Given(h)
    BY DEF Given
  <1>2. NotFoundSaid(h)' <=> NotFoundSaid(h)
    BY DEF NotFoundSaid
  <1>3. Whole(h)' <=> Whole(h)
    BY <1>1, <1>2 DEF Whole
  <1> QED BY <1>1, <1>3 DEF Part

(* The parser reports a request, a part of its body, its end.              *)
LEMMA EventAnswer ==
  ASSUME OutputInv, HandlerInv, U!IInv, NEW h \in Handles,
         OnRequest(h) \/ OnData(h) \/ OnEnd(h)
  PROVE  \/ Answered(h)'
         \/ tcp'[h].shut = "no" /\ (Asked(h)' \/ AnsweringServer(h)')
  <1>1. UNCHANGED <<proc, cur, tcp>> /\ todo = <<>> /\ U!Running(h)
    BY DEF OnRequest, OnData, OnEnd, Parsing
  <1>2. tcp[h].stage = "open" /\ proc = "up" /\ cur = h
    BY <1>1, OpenWhileRunning
  <1>3. /\ app[h] \in App /\ app[h].reading \in BOOLEAN
        /\ app[h].requests \in Nat /\ app[h].data \in Nat
    BY At, AppFacts
  <1>4. Rest(h) = <<>> /\ Rest(h)' = todo'
    BY <1>1, <1>2 DEF Rest
  <1>5. /\ Given(h)' = Given(h) /\ (Whole(h)' <=> Whole(h))
        /\ \A b : Part(h, b)' <=> Part(h, b)
    BY <1>1, GivenSame
  <1>6. \/ Answered(h)
        \/ /\ tcp[h].shut = "no"
           /\ \/ Unasked(h) \/ Asked(h)
              \/ AnsweringStatic(h) \/ AnsweringServer(h)
    <2>1. AnswerInv(h) /\ proc # "dead"
      BY <1>2 DEF OutputInv
    <2> QED BY <1>2, <2>1, Zenon DEF AnswerInv
  <1>7. ~Asked(h)
    BY <1>4, RequestHandlers DEF Asked
  <1>8. ~AnsweringStatic(h)
    <2>1. <<Write("notfound"), End>> # <<>> /\ <<End>> # <<>>
      OBVIOUS
    <2> QED BY <1>4, <2>1 DEF AnsweringStatic
  <1>9. ASSUME AnsweringServer(h)
        PROVE  /\ app[h].reading /\ Program = "server" /\ app[h].requests = 1
               /\ \E n \in 0 .. app[h].data : Part(h, Echo(n))
    <2>1. /\ <<Write("url"), Write("headers")>> # <<>> /\ <<End>> # <<>>
          /\ <<Write("headers")>> # <<>> /\ <<Write("testdata")>> # <<>>
      OBVIOUS
    <2> QED BY <1>4, <1>9, <2>1 DEF AnsweringServer
  <1>10. ASSUME Answered(h), todo' # <<>>, todo'[Len(todo')].do # "status"
         PROVE  Answered(h)'
    BY <1>4, <1>5, <1>10 DEF Answered
  <1>11. CASE OnRequest(h)
    <2>1. /\ todo' \in onRequest /\ ~app[h].reading
          /\ app'[h].requests = app[h].requests + 1 /\ app'[h].reading
      BY <1>3, <1>11 DEF OnRequest, HandlerInv, App
    <2>2. ASSUME Unasked(h) PROVE Asked(h)'
      <3>1. app'[h].requests = 1
        BY <2>1, <2>2 DEF Unasked
      <3>2. onRequest' = onRequest
        BY DEF onRequest, static, server, Write, End, Status, Raise, Op,
               R!Empty
      <3> QED BY <1>1, <1>4, <2>1, <2>2, <3>1, <3>2 DEF Unasked, Asked
    <2>3. ASSUME Answered(h) PROVE Answered(h)'
      BY <1>10, <2>1, <2>3, RequestHandlers
    <2>4. ~AnsweringServer(h)
      BY <1>9, <2>1
    <2> QED BY <1>1, <1>6, <1>7, <1>8, <2>2, <2>3, <2>4
  <1>12. ASSUME Answered(h), todo' \in {onData, onEnd},
                app'[h].requests = app[h].requests
         PROVE  Answered(h)'
    <2>1. CASE todo' = <<>>
      BY <1>4, <1>5, <1>12, <2>1 DEF Answered
    <2>2. CASE todo' # <<>>
      BY <1>10, <1>12, <2>2, BodyHandlers
    <2> QED BY <2>1, <2>2
  <1>13. CASE OnData(h)
    <2>1. /\ todo' = onData /\ app[h].reading /\ app'[h].reading
          /\ app'[h].requests = app[h].requests
          /\ app'[h].data = app[h].data + 1
      BY <1>3, <1>13 DEF OnData, HandlerInv, App
    <2>2. ~Unasked(h)
      BY <2>1 DEF Unasked
    <2>3. ASSUME AnsweringServer(h) PROVE AnsweringServer(h)'
      <3>1. PICK n \in 0 .. app[h].data : Part(h, Echo(n))
        BY <1>9, <2>3
      <3>2. n \in 0 .. app'[h].data /\ n < app'[h].data
        BY <1>3, <2>1
      <3>3. todo' = <<Write("testdata")>> /\ Program = "server"
        BY <1>9, <2>1, <2>3, BodyHandlers
      <3>4. Part(h, Echo(n))'
        BY <1>5, <3>1, Zenon DEF Part
      <3> QED BY <1>4, <1>9, <2>1, <2>3, <3>2, <3>3, <3>4 DEF AnsweringServer
    <2> QED BY <1>1, <1>6, <1>7, <1>8, <1>12, <2>1, <2>2, <2>3
  <1>14. CASE OnEnd(h)
    <2>1. /\ todo' = onEnd /\ app[h].reading /\ ~app'[h].reading
          /\ app'[h].requests = app[h].requests
          /\ app'[h].data = app[h].data
      BY <1>3, <1>14 DEF OnEnd, HandlerInv, App
    <2>2. ~Unasked(h)
      BY <2>1 DEF Unasked
    <2>3. ASSUME AnsweringServer(h) PROVE AnsweringServer(h)'
      <3>1. PICK n \in 0 .. app[h].data : Part(h, Echo(n))
        BY <1>9, <2>3
      <3>3. todo' = <<End>> /\ Program = "server"
        BY <1>9, <2>1, <2>3, BodyHandlers
      <3>4. Part(h, Echo(n))'
        BY <1>5, <3>1, Zenon DEF Part
      <3> QED BY <1>4, <1>9, <2>1, <2>3, <3>1, <3>3, <3>4 DEF AnsweringServer
    <2> QED BY <1>1, <1>6, <1>7, <1>8, <1>12, <2>1, <2>2, <2>3
  <1> QED BY <1>11, <1>13, <1>14

LEMMA EventOutput ==
  ASSUME OutputInv, HandlerInv, U!IInv, NEW h \in Handles,
         OnRequest(h) \/ OnData(h) \/ OnEnd(h)
  PROVE  OutputInv'
  <1>1. UNCHANGED <<proc, cur, tcp>> /\ U!Running(h)
    BY DEF OnRequest, OnData, OnEnd, Parsing
  <1>2. tcp[h].stage = "open" /\ proc = "up" /\ cur = h
    BY <1>1, OpenWhileRunning
  <1>3. /\ \A k \in Handles \ {h} : app'[k] = app[k]
        /\ app'[h].res = app[h].res
    <2>1. app[h] \in App
      BY At
    <2> QED BY <2>1 DEF HandlerInv, App, OnRequest, OnData, OnEnd
  <1>4. PieceInv(h)'
    BY <1>1, <1>3 DEF OutputInv, PieceInv
  <1>5. tcp'[h].stage # "closing"
    BY <1>1, <1>2
  <1>6. AnswerInv(h)'
    BY <1>5, EventAnswer, Zenon DEF AnswerInv
  <1> QED BY <1>1, <1>2, <1>3, <1>4, <1>6, Others

----------------------------------------------------------------------------
(* A handle that UvTcp allows has the fields of one.                       *)
LEMMA HandleAt ==
  ASSUME U!IInv, NEW h \in Handles
  PROVE  tcp[h] \in U!Handle /\ Fields(tcp[h]) /\ U!HandleInv(tcp[h])
  <1>1. tcp[h] \in U!Handle
    BY DEF U!IInv, U!TypeOK
  <1>2. U!HandleInv(tcp[h])
    BY Zenon DEF U!IInv
  <1> QED BY <1>1, <1>2, HandleFields

(* A step that changes nothing that matters here, of any connection.       *)
LEMMA AllUntouched ==
  ASSUME OutputInv,
         \A h \in Handles :
           /\ tcp'[h].given = tcp[h].given /\ tcp'[h].stage = tcp[h].stage
           /\ tcp'[h].shut = tcp[h].shut /\ app'[h] = app[h],
         proc' # "dead" => proc # "dead"
         /\ \A h \in Handles : Rest(h)' = Rest(h)
  PROVE  OutputInv'
  <1>1. ASSUME NEW h \in Handles PROVE PieceInv(h)' /\ AnswerInv(h)'
    <2>1. PieceInv(h) /\ AnswerInv(h)
      BY DEF OutputInv
    <2> QED BY <2>1, Untouched
  <1> QED BY <1>1 DEF OutputInv

(* The loop enters a handler, a handler returns, the server starts.        *)
LEMMA QuietOutput ==
  ASSUME OutputInv, HandlerInv, U!IInv,
         \/ Listen \/ UNCHANGED vars
         \/ \E h \in Handles : ReadData(h) \/ ReadReturns(h)
  PROVE  OutputInv'
  <1>1. tcp' = tcp /\ app' = app /\ todo' = todo
    BY DEF Listen, vars, ReadData, ReadReturns, U!Listen, U!ReadData,
           U!ReadReturns
  <1>2. proc' # "dead" => proc # "dead"
    BY DEF Listen, vars, ReadData, ReadReturns, U!Listen, U!ReadData,
           U!ReadReturns
  <1>3. cur' = cur \/ todo = <<>>
    <2>1. ASSUME NEW h \in Handles, ReadData(h) PROVE todo = <<>>
      BY <2>1 DEF ReadData, U!ReadData, U!CanRead, U!Idle, HandlerInv
    <2> QED BY <2>1 DEF Listen, vars, ReadReturns, U!Listen
  <1>4. \A h \in Handles : Rest(h)' = Rest(h)
    BY <1>1, <1>3 DEF Rest
  <1> QED BY <1>1, <1>2, <1>4, AllUntouched

(* The peer ends or resets the connection.                                 *)
LEMMA PeerOutput ==
  ASSUME OutputInv, HandlerInv, U!IInv, NEW h \in Handles,
         ReadFails(h) \/ PeerReset(h)
  PROVE  OutputInv'
  <1>1. /\ \/ \E eof \in BOOLEAN : tcp' = [tcp EXCEPT ![h].eof = eof]
           \/ tcp' = [tcp EXCEPT ![h].broken = TRUE]
        /\ app' = app /\ todo' = todo /\ cur' = cur
    BY DEF ReadFails, PeerReset, U!ReadFails, U!PeerReset
  <1>2. proc' # "dead" => proc # "dead"
    BY DEF ReadFails, PeerReset, U!ReadFails, U!PeerReset
  <1>3. \A k \in Handles :
          /\ tcp'[k].given = tcp[k].given /\ tcp'[k].stage = tcp[k].stage
          /\ tcp'[k].shut = tcp[k].shut
    <2> TAKE k \in Handles
    <2>1. Fields(tcp[k]) /\ DOMAIN tcp = Handles
      BY HandleAt DEF HandlerInv
    <2> QED BY <1>1, <2>1 DEF Fields
  <1>4. \A k \in Handles : Rest(k)' = Rest(k)
    BY <1>1 DEF Rest
  <1> QED BY <1>1, <1>2, <1>3, <1>4, AllUntouched

(* A connection is accepted, with a new res record.                        *)
LEMMA AcceptedOutput ==
  ASSUME OutputInv, HandlerInv, U!IInv, NEW h \in Handles,
         ConnectionAccepted(h)
  PROVE  OutputInv'
  <1>1. /\ proc = "up" /\ cur = NoHandle /\ proc' = proc /\ todo' = todo
        /\ app' = [app EXCEPT ![h] = NewApp]
        /\ \E data \in {"nil", "junk"} :
             tcp' = [tcp EXCEPT ![h] =
                       U!uv_read_start_ocaml(U!request_on(U!uv_accept_ocaml(
                         U!uv_tcp_init_ocaml(@, data))))]
    BY DEF ConnectionAccepted, U!ConnectionAccepted, U!Idle, new_app
  <1>2. todo = <<>> /\ DOMAIN tcp = Handles /\ DOMAIN app = Handles
    BY <1>1 DEF HandlerInv
  <1>3. /\ tcp'[h].given = <<>> /\ tcp'[h].stage = "open"
        /\ tcp'[h].shut = "no"
    BY <1>1, <1>2, AcceptEffect
  <1>4. /\ \A k \in Handles \ {h} : tcp'[k] = tcp[k] /\ app'[k] = app[k]
        /\ app'[h] = NewApp
    BY <1>1, <1>2
  <1>5. /\ app'[h].res.encoding = "chunked" /\ ~app'[h].res.wroteHeaders
        /\ app'[h].requests = 0 /\ ~app'[h].reading
    BY <1>4 DEF NewApp, R!NewRes
  <1>6. DOMAIN tcp'[h].given = {}
    BY <1>3
  <1>7. PieceInv(h)'
    BY <1>3, <1>5, <1>6 DEF PieceInv, InChunks
  <1>8. Rest(h)' = <<>>
    BY <1>1, <1>2 DEF Rest
  <1>9. Unasked(h)'
    BY <1>3, <1>5, <1>8 DEF Unasked
  <1>10. tcp'[h].stage # "closing"
    BY <1>3
  <1>11. AnswerInv(h)'
    BY <1>3, <1>9, <1>10, Zenon DEF AnswerInv
  <1>12. proc' # "dead" => proc # "dead"
    BY <1>1
  <1> QED BY <1>1, <1>2, <1>4, <1>7, <1>11, <1>12, Others

(* A handle that never had a connection, or is freed.                      *)
LEMMA HandleOutput ==
  ASSUME OutputInv, HandlerInv, U!IInv, NEW h \in Handles,
         ConnectionRefused(h) \/ Closing(h)
  PROVE  OutputInv'
  <1>1. /\ proc = "up" /\ cur = NoHandle /\ proc' = proc /\ todo' = todo
        /\ app' = app
        /\ \/ \E data \in {"nil", "junk"} :
                tcp' = [tcp EXCEPT ![h] =
                          U!uv_shutdown_ocaml(U!uv_tcp_init_ocaml(@, data))]
           \/ tcp' = [tcp EXCEPT ![h] = U!uv__finish_close(@)]
    BY DEF ConnectionRefused, U!ConnectionRefused, Closing, U!Closing, U!Idle
  <1>2. todo = <<>> /\ DOMAIN tcp = Handles
    BY <1>1 DEF HandlerInv
  <1>3. tcp'[h].given = <<>> /\ tcp'[h].stage \in {"free", "inited"}
    BY <1>1, <1>2, RefuseEffect, FinishEffect
  <1>4. \A k \in Handles \ {h} : tcp'[k] = tcp[k] /\ app'[k] = app[k]
    BY <1>1, <1>2
  <1>5. PieceInv(h)' /\ AnswerInv(h)'
    <2>1. PieceInv(h) /\ app'[h] = app[h]
      BY <1>1 DEF OutputInv
    <2> QED BY <1>3, <2>1, NoConnection
  <1>6. proc' # "dead" => proc # "dead"
    BY <1>1
  <1> QED BY <1>1, <1>2, <1>4, <1>5, <1>6, Others

(* The loop writes, and closes the connection once nothing is queued and   *)
(* the handler has ended it: only after a whole answer, as nothing else    *)
(* ends it.                                                                *)
LEMMA WritableOutput ==
  ASSUME OutputInv, HandlerInv, U!IInv, NEW h \in Handles, Writable(h)
  PROVE  OutputInv'
  <1>1. /\ proc = "up" /\ cur = NoHandle /\ proc' = proc /\ todo' = todo
        /\ app' = app /\ cur' = cur /\ tcp[h].stage = "open"
        /\ \E r \in U!Results(tcp[h]) :
             tcp' = [tcp EXCEPT ![h] = U!uv__stream_io(@, r)]
    BY DEF Writable, U!Writable, U!Idle
  <1>2. todo = <<>> /\ DOMAIN tcp = Handles
    BY <1>1 DEF HandlerInv
  <1>3. /\ tcp'[h].given = tcp[h].given
        /\ \/ tcp'[h].stage = "open" /\ tcp'[h].shut = tcp[h].shut
           \/ tcp'[h].stage = "closing" /\ tcp[h].shut = "pending"
    BY <1>1, <1>2, HandleAt, StreamIoEffect
  <1>4. \A k \in Handles \ {h} : tcp'[k] = tcp[k] /\ app'[k] = app[k]
    BY <1>1, <1>2
  <1>5. PieceInv(h) /\ AnswerInv(h)
    BY DEF OutputInv
  <1>6. Rest(h) = <<>> /\ Rest(h)' = <<>>
    BY <1>1, <1>2 DEF Rest
  <1>7. CASE tcp'[h].stage = "open" /\ tcp'[h].shut = tcp[h].shut
    <2>1. PieceInv(h)' /\ AnswerInv(h)'
      BY <1>1, <1>3, <1>5, <1>6, <1>7, Untouched
    <2> QED BY <1>1, <1>2, <1>4, <2>1, Others
  <1>8. CASE tcp'[h].stage = "closing" /\ tcp[h].shut = "pending"
    <2>1. PieceInv(h)'
      BY <1>1, <1>3, <1>5, <1>8 DEF PieceInv
    <2>2. Answered(h)
      <3>1. tcp[h].stage = "open" /\ proc # "dead" /\ tcp[h].shut # "no"
        BY <1>1, <1>8
      <3> QED BY <1>5, <3>1, Zenon DEF AnswerInv
    <2>3. Whole(h) /\ (app[h].requests > 1 => Given(h).extra)
      BY <1>6, <2>2 DEF Answered
    <2>4. Whole(h)' /\ (app'[h].requests > 1 => Given(h)'.extra)
      BY <1>1, <1>3, <2>3, GivenSame
    <2>5. tcp'[h].stage # "open"
      BY <1>8
    <2>6. AnswerInv(h)'
      BY <2>4, <2>5, Zenon DEF AnswerInv
    <2> QED BY <1>1, <1>2, <1>4, <2>1, <2>6, Others
  <1> QED BY <1>3, <1>7, <1>8

(* The invariant holds at the start, after every step, and so always.      *)
LEMMA InitOutput == Init => OutputInv
  <1> SUFFICES ASSUME Init, NEW h \in Handles PROVE PieceInv(h) /\ AnswerInv(h)
    BY DEF OutputInv
  <1>1. tcp[h] = U!NewHandle("free", "junk", FALSE) /\ app[h] = NewApp
    BY DEF Init, U!Init
  <1>2. tcp[h].stage = "free" /\ tcp[h].given = <<>>
    BY <1>1 DEF U!NewHandle
  <1>3. DOMAIN tcp[h].given = {}
    BY <1>2
  <1>4. app[h].res.encoding = "chunked"
    BY <1>1 DEF NewApp, R!NewRes
  <1>5. PieceInv(h)
    BY <1>2, <1>3, <1>4 DEF PieceInv, InChunks
  <1>6. tcp[h].stage # "open" /\ tcp[h].stage # "closing"
    BY <1>2
  <1>7. AnswerInv(h)
    BY <1>6, Zenon DEF AnswerInv
  <1> QED BY <1>5, <1>7

LEMMA StepOutput ==
  ASSUME OutputInv, HandlerInv, U!IInv, [Next]_vars
  PROVE  OutputInv'
  <1>1. CASE UNCHANGED vars
    BY <1>1, QuietOutput
  <1>2. CASE Next
    BY <1>2, QuietOutput, PeerOutput, AcceptedOutput, HandleOutput,
       WritableOutput, EventOutput, WritesOutput, StatusOutput, RaiseOutput
       DEF Next
  <1> QED BY <1>1, <1>2

LEMMA HandlerInvAlways == Spec => []HandlerInv
  BY InitInv, StepInv, PTL DEF Spec

LEMMA OutputAlways == Spec => []OutputInv
  <1>1. OutputInv /\ HandlerInv /\ U!IInv /\ [Next]_vars => OutputInv'
    BY StepOutput
  <1> QED BY <1>1, InitOutput, HandlerInvAlways, TcpInvAlways, PTL DEF Spec

----------------------------------------------------------------------------
(* Both sides of every connection are well formed.                         *)
THEOREM TypeCorrect == Spec => []TypeOK
  <1>1. ASSUME HandlerInv, U!IInv PROVE TypeOK
    <2>1. U!TypeOK
      BY <1>1 DEF U!IInv
    <2>2. app \in [Handles -> App]
      BY <1>1 DEF HandlerInv
    <2>3. \A o \in Operation : o.do \in {"write", "status", "end", "raise"}
      BY DEF Operation, Write, Status, End, Raise, Op
    <2>4. \A i \in DOMAIN todo : todo[i] \in Operation
      BY <1>1 DEF HandlerInv
    <2>5. \A i \in DOMAIN todo :
            todo[i].do \in {"write", "status", "end", "raise"}
      BY <2>3, <2>4
    <2> QED BY <2>1, <2>2, <2>5 DEF TypeOK
  <1>2. HandlerInv /\ U!IInv => TypeOK
    BY <1>1
  <1> QED BY <1>2, HandlerInvAlways, TcpInvAlways, PTL

(* No client of either example program ever reads a malformed response:    *)
(* one status line, then chunks, whatever requests, writes                 *)
(* (Http.re:97-126), completions and resets interleave on any number of    *)
(* connections.                                                            *)
THEOREM WellFormed == Spec => []ResponseWellFormed
  <1>1. ASSUME OutputInv, U!IInv, NEW h \in Handles
        PROVE  Reading(h).state # "bad"
    <2> DEFINE w == tcp[h].wire
               g == tcp[h].given
    <2>1. w \in Seq(R!Piece) /\ g \in Seq(R!Piece)
      BY <1>1, HandleAt DEF U!Handle
    <2>2. Len(w) <= Len(g) /\ \A i \in 1 .. Len(w) : w[i] = g[i]
      BY <1>1, HandleAt DEF U!HandleInv
    <2>3. InChunks(g)
      BY <1>1 DEF OutputInv, PieceInv
    <2> HIDE DEF w, g
    <2>4. \A i \in DOMAIN w : i \in DOMAIN g /\ w[i] = g[i]
      BY <2>1, <2>2
    <2>5. InChunks(w)
      BY <2>3, <2>4 DEF InChunks
    <2>6. R!Client(w).state # "bad"
      BY <2>1, <2>5, ChunksAreRead
    <2> QED BY <2>6 DEF Reading, w
  <1>2. OutputInv /\ U!IInv => ResponseWellFormed
    BY <1>1 DEF ResponseWellFormed
  <1> QED BY <1>2, OutputAlways, TcpInvAlways, PTL

(* A connection that is closed (libuv_c.c:58, shutdown_cb) while its peer  *)
(* is there has sent it the whole answer to the first request, 404 with    *)
(* the page that says so, and later requests got nothing but bytes after   *)
(* that response.                                                          *)
THEOREM WholeAnswers == Spec => []ClosedAfterWholeAnswer
  <1>1. ASSUME OutputInv, U!IInv, NEW h \in Handles,
               tcp[h].stage = "closing", ~tcp[h].broken
        PROVE  /\ Reading(h).state = "done"
               /\ Reading(h).body \in Answers
               /\ Reading(h).body = <<"notfound">> =>
                    tcp[h].wire[1].head.statusCode = 404
               /\ app[h].requests > 1 => Reading(h).extra
    <2>1. tcp[h].wire \in Seq(R!Piece) /\ tcp[h].wq = <<>>
          /\ tcp[h].given = tcp[h].wire \o tcp[h].wq
      BY <1>1, HandleAt DEF U!HandleInv, U!Handle
    <2>2. tcp[h].given = tcp[h].wire
      BY <2>1
    <2>3. Reading(h) = Given(h)
      BY <2>2 DEF Reading, Given
    <2>4. Whole(h) /\ (app[h].requests > 1 => Given(h).extra)
      BY <1>1, Zenon DEF OutputInv, AnswerInv
    <2>5. Given(h).state = "done"
      BY <2>4 DEF Whole, R!Reader
    <2> QED BY <2>2, <2>3, <2>4, <2>5 DEF Whole, NotFoundSaid
  <1>2. OutputInv /\ U!IInv => ClosedAfterWholeAnswer
    BY <1>1, Zenon DEF ClosedAfterWholeAnswer
  <1> QED BY <1>2, OutputAlways, TcpInvAlways, PTL

(* The handles of both example programs are as safe as UvTcp makes them    *)
(* for any program: a closure is a root exactly while libuv can call it    *)
(* (libuv_c.c:99, 50), a handle is closed when nothing refers to it and    *)
(* never under its handler, every write request is accounted for, and the  *)
(* kernel gets what was written, in order.                                 *)
THEOREM HandlesSafe ==
  Spec => [](/\ U!RootsMatchConnections /\ U!ClosingIsQuiet
             /\ U!HandlerOnOpenHandle /\ U!WriteReqsAccounted
             /\ U!OutputInOrder)
  <1>1. ASSUME U!IInv
        PROVE  /\ U!RootsMatchConnections /\ U!ClosingIsQuiet
               /\ U!HandlerOnOpenHandle /\ U!WriteReqsAccounted
               /\ U!OutputInOrder
    <2>1. \A h \in Handles : U!HandleInv(tcp[h])
      BY <1>1 DEF U!IInv
    <2>2. U!HandlerOnOpenHandle
      BY <1>1 DEF U!IInv
    <2>3. U!RootsMatchConnections
      BY <2>1 DEF U!HandleInv, U!RootsMatchConnections
    <2>4. U!ClosingIsQuiet
      <3> SUFFICES ASSUME NEW h \in Handles, tcp[h].stage = "closing"
                   PROVE  /\ tcp[h].wq = <<>> /\ tcp[h].done = 0
                          /\ tcp[h].failed = 0 /\ tcp[h].wreqs = 0
                          /\ tcp[h].shut = "done"
        BY DEF U!ClosingIsQuiet
      <3>1. U!HandleInv(tcp[h])
        BY <2>1
      <3>2. /\ tcp[h].wq = <<>> /\ tcp[h].done = 0 /\ tcp[h].failed = 0
            /\ tcp[h].shut = "done"
        BY <3>1 DEF U!HandleInv
      <3>3. Len(tcp[h].wq) = 0 /\ tcp[h].wreqs = 0 + 0 + 0
        BY <3>1, <3>2 DEF U!HandleInv
      <3> QED BY <3>2, <3>3
    <2>5. U!WriteReqsAccounted
      BY <2>1 DEF U!HandleInv, U!WriteReqsAccounted
    <2>6. U!OutputInOrder
      BY <2>1 DEF U!HandleInv, U!OutputInOrder
    <2> QED BY <2>2, <2>3, <2>4, <2>5, <2>6
  <1>2. U!IInv => /\ U!RootsMatchConnections /\ U!ClosingIsQuiet
                  /\ U!HandlerOnOpenHandle /\ U!WriteReqsAccounted
                  /\ U!OutputInOrder
    BY <1>1
  <1> QED BY <1>2, TcpInvAlways, PTL

(* Both programs keep the promise of GracefulConn on every connection:     *)
(* output in order, and a close only after they ended it and, if the peer  *)
(* stayed, after all of it was sent.                                       *)
THEOREM GracefulServers == Spec => U!ImplementsGracefulConn
  <1>1. P!Spec => P!ImplementsGracefulConn
    <2>1. MaxWrites \in Nat /\ NoHandle \notin Handles
      BY WritesBound, HandlesAssumption
    <2> QED BY <2>1, P!Refines
  <1>2. U!Spec => P!Spec
    BY SameTcp, PTL DEF U!Spec, P!Spec
  <1> DEFINE pm == [h \in Handles |-> P!Abstract(tcp[h])]
             um == [h \in Handles |-> U!Abstract(tcp[h])]
  <1>3. pm = um
    BY DEF P!Abstract, U!Abstract, P!Phase, U!Phase
  <1>4. \A t : P!Abstract(t) = U!Abstract(t)
    BY DEF P!Abstract, U!Abstract, P!Phase, U!Phase
  <1>5. P!Graceful!Init => U!Graceful!Init
    BY <1>4 DEF P!Graceful!Init, U!Graceful!Init, P!Graceful!Idle,
       U!Graceful!Idle, P!Graceful!Fresh, U!Graceful!Fresh
  <1>6. \A s, n : P!Graceful!Step(s, n) => U!Graceful!Step(s, n)
    BY DEF P!Graceful!Step, U!Graceful!Step, P!Graceful!Open, U!Graceful!Open,
       P!Graceful!Serve, U!Graceful!Serve, P!Graceful!Close, U!Graceful!Close,
       P!Graceful!Recycle, U!Graceful!Recycle, P!Graceful!Output,
       U!Graceful!Output, P!Graceful!Prefix, U!Graceful!Prefix,
       P!Graceful!Idle, U!Graceful!Idle, P!Graceful!Fresh, U!Graceful!Fresh
  <1>7. [P!Graceful!Next]_pm => [U!Graceful!Next]_um
    <2>1. pm' = um'
      BY <1>4
    <2> QED BY <1>3, <1>4, <1>6, <2>1 DEF P!Graceful!Next, U!Graceful!Next
  <1> QED BY <1>1, <1>2, <1>5, <1>7, Refines, PTL
          DEF ImplementsUvTcp, P!ImplementsGracefulConn, P!Graceful!Spec,
              U!ImplementsGracefulConn, U!Graceful!Spec
=============================================================================
