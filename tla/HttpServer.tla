----------------------------- MODULE HttpServer -----------------------------
(***************************************************************************)
(* The server as a whole: the handles of UvTcp, each with the res record   *)
(* of HttpFraming and a parser, and the handler of one of the two example *)
(* programs, ExampleServer.re or ExampleStatic.re.  The parser is reduced  *)
(* to the events HttpRequest reports to the handlers of the program: the   *)
(* request, parts of its body, its end.  A packet holds any number of them.*)
(***************************************************************************)
EXTENDS Integers, Sequences, SequencesExt

CONSTANTS
  Handles, NoHandle,   \* as in UvTcp
  Program,             \* "server" or "static"
  MaxRequests,         \* bound: requests on a connection
  MaxData              \* bound: body parts of a connection

ASSUME HandlesAssumption == NoHandle \notin Handles
ASSUME ProgramAssumption == Program \in {"server", "static"}
ASSUME BoundsAssumption == MaxRequests \in Nat /\ MaxData \in Nat

VARIABLES
  proc, cur, tcp,   \* as in UvTcp
  app,              \* the application's side of each connection
  todo              \* what the handler running in cur has yet to do

vars == <<proc, cur, tcp, app, todo>>

Texts ==
  {"hello", "url", "headers", "testdata", "content", "notfound"}

R == INSTANCE HttpFraming

(* No connection writes more often than this. *)
MaxWrites == 4 * MaxRequests + MaxData

U == INSTANCE UvTcp WITH Chunks <- R!Piece

(***************************************************************************)
(* res       the resT record of the connection                             *)
(* reading   is the parser inside a message, after its headers?            *)
(* requests, data    requests and body parts so far                        *)
(* complete  did the peer send the end of the first request?               *)
(***************************************************************************)
App ==
  [res : R!Res, reading : BOOLEAN, requests : 0 .. MaxRequests,
   data : 0 .. MaxData, complete : BOOLEAN]

NewApp ==
  [res |-> R!NewRes, reading |-> FALSE, requests |-> 0, data |-> 0,
   complete |-> FALSE]

----------------------------------------------------------------------------
(* The operations a handler consists of: to write a text, to set the       *)
(* status, to end the connection, to raise.                                *)
Op(do, arg) == [do |-> do, arg |-> arg]
Write(m) == Op("write", m)
Status(s) == Op("status", s)
End == Op("end", R!Empty)
Raise == Op("raise", R!Empty)

(* ExampleStatic: the content of a file, which may be empty, or 404.  An   *)
(* empty URL, which a packet boundary can make, raises Invalid_argument.   *)
static ==
  {<<Write("content"), End>>, <<Write(R!Empty), End>>,
   <<Status(404), Write("notfound"), End>>, <<Raise>>}

(* ExampleServer: three writes, then On Data and On End.  In either        *)
(* program a handler is reached only if there is a value for each header   *)
(* name: otherwise List.fold_left2 raises Invalid_argument.                *)
server ==
  {<<Write("hello"), Write("url"), Write("headers")>>, <<Raise>>}

onRequest == IF Program = "static" THEN static ELSE server
onData == IF Program = "static" THEN <<>> ELSE <<Write("testdata")>>

(* Mutant: Http.on stores the callback for End nowhere. *)
onEnd_not_set == <<>>

onEnd == IF Program = "static" THEN <<>> ELSE <<End>>

Init == U!Init /\ app = [h \in Handles |-> NewApp] /\ todo = <<>>

(* What the application has no part in. *)
Listen == U!Listen /\ UNCHANGED <<app, todo>>
ReadData(h) == U!ReadData(h) /\ UNCHANGED <<app, todo>>
ReadFails(h) == U!ReadFails(h) /\ UNCHANGED <<app, todo>>
Writable(h) == U!Writable(h) /\ UNCHANGED <<app, todo>>
Closing(h) == U!Closing(h) /\ UNCHANGED <<app, todo>>
PeerReset(h) == U!PeerReset(h) /\ UNCHANGED <<app, todo>>
ConnectionRefused(h) == U!ConnectionRefused(h) /\ UNCHANGED <<app, todo>>

(* Mutant: the res of the last connection at this address is used. *)
new_app_keeps_res(a) == [NewApp EXCEPT !.res = a.res]

new_app(a) == NewApp

(* createServer: a res record and a parser for the accepted connection. *)
ConnectionAccepted(h) ==
  /\ U!ConnectionAccepted(h)
  /\ app' = [app EXCEPT ![h] = new_app(@)]
  /\ UNCHANGED todo

(* The parser goes on in the packet, when no handler is running. *)
Parsing(h) == U!Running(h) /\ todo = <<>>

OnRequest(h) ==
  /\ Parsing(h)
  /\ ~app[h].reading /\ app[h].requests < MaxRequests
  /\ app' = [app EXCEPT ![h].reading = TRUE, ![h].requests = @ + 1]
  /\ todo' \in onRequest
  /\ UNCHANGED <<proc, cur, tcp>>

OnData(h) ==
  /\ Parsing(h)
  /\ app[h].reading /\ app[h].data < MaxData
  /\ app' = [app EXCEPT ![h].data = @ + 1]
  /\ todo' = onData
  /\ UNCHANGED <<proc, cur, tcp>>

OnEnd(h) ==
  /\ Parsing(h)
  /\ app[h].reading
  /\ app' = [app EXCEPT ![h].reading = FALSE, ![h].complete = TRUE]
  /\ todo' = onEnd
  /\ UNCHANGED <<proc, cur, tcp>>

ReadReturns(h) ==
  /\ todo = <<>>
  /\ U!ReadReturns(h)
  /\ UNCHANGED <<app, todo>>

(* The next operation of the running handler. *)
Doing(h, do) ==
  /\ U!Running(h)
  /\ todo # <<>> /\ Head(todo).do = do
  /\ todo' = Tail(todo)

(* Mutant: the write is tried before the ones that are queued. *)
uv_write_now(t, c, r) == U!uv__write(U!write_at_head(t, c, "again"), r)

uv_write(t, c, r) == U!uv_write_ocaml(t, c, r)

DoWrite(h) ==
  /\ Doing(h, "write")
  /\ \E r \in U!Results(tcp[h]) :
       tcp' = [tcp EXCEPT ![h] =
                 uv_write(@, R!piece(app[h].res, Head(todo).arg), r)]
  /\ app' = [app EXCEPT ![h].res = R!wrote(@)]
  /\ UNCHANGED <<proc, cur>>

DoStatus(h) ==
  /\ Doing(h, "status")
  /\ app' = [app EXCEPT ![h].res.statusCode = Head(todo).arg]
  /\ UNCHANGED <<proc, cur, tcp>>

(* Mutant: the empty chunk that ends the response is not written. *)
shutdown_only(t, c, r) == U!uv_shutdown_ocaml(t)

end_connection(t, c, r) == U!uv_shutdown_ocaml(uv_write(t, c, r))

DoEnd(h) ==
  /\ Doing(h, "end")
  /\ \E r \in U!Results(tcp[h]) :
       tcp' = [tcp EXCEPT ![h] =
                 end_connection(@, R!piece(app[h].res, R!Empty), r)]
  /\ app' = [app EXCEPT ![h].res = R!wrote(@)]
  /\ UNCHANGED <<proc, cur>>

DoRaise(h) == Doing(h, "raise") /\ U!HandlerRaises(h) /\ UNCHANGED app

(* SIGPIPE: the handler's next operation writes, or the loop does. *)
SigPipe(h) ==
  /\ cur = h => todo # <<>> /\ Head(todo).do \in {"write", "end"}
  /\ U!SigPipe(h)
  /\ UNCHANGED <<app, todo>>

Step(h) == DoWrite(h) \/ DoStatus(h) \/ DoEnd(h) \/ DoRaise(h)

Next ==
  \/ Listen
  \/ \E h \in Handles :
       \/ ConnectionAccepted(h) \/ ConnectionRefused(h)
       \/ ReadData(h) \/ ReadFails(h)
       \/ OnRequest(h) \/ OnData(h) \/ OnEnd(h) \/ ReadReturns(h)
       \/ DoWrite(h) \/ DoStatus(h) \/ DoEnd(h) \/ DoRaise(h)
       \/ Writable(h) \/ Closing(h) \/ PeerReset(h) \/ SigPipe(h)

Spec == Init /\ [][Next]_vars

(* As for UvTcp; in addition a handler that started runs to its end.       *)
Fairness ==
  \A h \in Handles :
    /\ WF_vars(Step(h)) /\ WF_vars(ReadReturns(h))
    /\ SF_vars(Writable(h)) /\ SF_vars(Closing(h))

FairSpec == Spec /\ Fairness

----------------------------------------------------------------------------
(* Properties. *)

(* Both sides of every connection are well formed. *)
TypeOK ==
  /\ U!TypeOK
  /\ app \in [Handles -> App]
  /\ \A i \in DOMAIN todo : todo[i].do \in {"write", "status", "end", "raise"}

(* The calls the programs make are calls UvTcp allows, in the callbacks it *)
(* allows them in: what is checked and proved of UvTcp holds for them.     *)
ImplementsUvTcp == U!Spec

(* What the client reads of a connection. *)
Reading(h) == R!Client(tcp[h].wire)

(* The client reads no malformed response, at any time: one status line,   *)
(* then chunks, whatever writes, completions and requests interleave.      *)
ResponseWellFormed == \A h \in Handles : Reading(h).state # "bad"

(* A connection that is closed while the client is there sent it a whole   *)
(* response: the answer to the first request, all of it.  Later requests   *)
(* of the connection get nothing but bytes after that response.            *)
Echo(n) == <<"hello", "url", "headers">> \o [i \in 1 .. n |-> "testdata"]

Answers ==
  IF Program = "static" THEN {<<"content">>, <<>>, <<"notfound">>}
  ELSE {Echo(n) : n \in 0 .. MaxData}

ClosedAfterWholeAnswer ==
  \A h \in Handles :
    (tcp[h].stage = "closing" /\ ~tcp[h].broken) =>
      /\ Reading(h).state = "done"
      /\ Reading(h).body \in Answers
      /\ Reading(h).body = <<"notfound">> =>
           tcp[h].wire[1].head.statusCode = 404
      /\ app[h].requests > 1 =>
           Reading(h).extra

(* A request that arrived whole is answered, and its connection closed and *)
(* freed, unless the process dies.                                         *)
CompleteIsServed ==
  \A h \in Handles :
    (app[h].complete /\ tcp[h].stage = "open") ~>
      (tcp[h].stage = "free" \/ proc = "dead")

(***************************************************************************)
(* What the refinement of UvTcp rests on: a handler passes pieces to       *)
(* uv_write, runs in cur only, and writes no more than its requests allow: *)
(* four operations for each, the one at its end included.                  *)
(***************************************************************************)
Operation ==
  {Write(m) : m \in R!Messages} \cup {Status(s) : s \in R!Statuses}
    \cup {End, Raise}

ToWrite(h) == IF cur = h THEN Len(todo) ELSE 0

AtEnd(h) == IF app[h].reading THEN 1 ELSE 0

Budget(h) ==
  Len(tcp[h].given) + ToWrite(h) + AtEnd(h)
    <= 4 * app[h].requests + app[h].data

HandlerInv ==
  /\ todo \in Seq(Operation)
  /\ cur = NoHandle => todo = <<>>
  /\ app \in [Handles -> App]
  /\ DOMAIN tcp = Handles
  /\ \A h \in Handles :
       /\ "given" \in DOMAIN tcp[h] /\ tcp[h].given \in Seq(R!Piece)
       /\ Budget(h)

(***************************************************************************)
(* What the answers rest on.  Of all that was given to uv_write, the first *)
(* piece carries the header block and every piece is a chunk.              *)
(***************************************************************************)
InChunks(s) ==
  \A i \in DOMAIN s :
    /\ s[i].framed
    /\ IF i = 1
       THEN s[i].head # R!NoHead /\ s[i].head.encoding = "chunked"
       ELSE s[i].head = R!NoHead

PieceInv(h) ==
  /\ app[h].res.encoding = "chunked"
  /\ tcp[h].stage = "open" => (app[h].res.wroteHeaders <=> tcp[h].given # <<>>)
  /\ InChunks(tcp[h].given)

(* What the client has read when all of that has reached it. *)
Given(h) == R!Client(tcp[h].given)

Part(h, body) == Given(h) = R!Reader("chunks", body, FALSE)

NotFoundSaid(h) == tcp[h].given[1].head.statusCode = 404

Whole(h) ==
  /\ Given(h) = R!Reader("done", Given(h).body, Given(h).extra)
  /\ Given(h).body \in Answers
  /\ Given(h).body = <<"notfound">> => NotFoundSaid(h)

(* What the handler of h has yet to do, if one is running. *)
Rest(h) == IF cur = h THEN todo ELSE <<>>

(* Before the first answer, and in it: what was said and what is left make *)
(* an answer, and nothing ends the connection before that.                 *)
Unasked(h) ==
  app[h].requests = 0 /\ ~app[h].reading /\ Rest(h) = <<>>
    /\ tcp[h].given = <<>>

Asked(h) ==
  app[h].requests = 1 /\ app[h].reading /\ Rest(h) \in onRequest
    /\ tcp[h].given = <<>>

AnsweringStatic(h) ==
  /\ Program = "static" /\ app[h].requests = 1
  /\ \/ /\ Rest(h) = <<Write("notfound"), End>> /\ tcp[h].given = <<>>
        /\ app[h].res.statusCode = 404
     \/ Rest(h) = <<End>> /\ Part(h, <<"content">>)
     \/ Rest(h) = <<End>> /\ Part(h, <<"notfound">>) /\ NotFoundSaid(h)

AnsweringServer(h) ==
  /\ Program = "server" /\ app[h].requests = 1
  /\ \/ /\ app[h].reading
        /\ \/ /\ Rest(h) = <<Write("url"), Write("headers")>>
              /\ Part(h, <<"hello">>)
           \/ Rest(h) = <<Write("headers")>> /\ Part(h, <<"hello", "url">>)
     \/ \E n \in 0 .. app[h].data :
          /\ Part(h, Echo(n))
          /\ \/ app[h].reading /\ Rest(h) = <<>>
             \/ /\ app[h].reading /\ n < app[h].data
                /\ Rest(h) = <<Write("testdata")>>
             \/ ~app[h].reading /\ Rest(h) = <<End>>

(* After it, whatever else is written is extra; and every handler of a     *)
(* later request does write, at its end if not before, or raises.          *)
Answered(h) ==
  /\ Whole(h)
  /\ IF Rest(h) = <<>> THEN app[h].requests > 1 => Given(h).extra
     ELSE Rest(h)[Len(Rest(h))].do # "status"

AnswerInv(h) ==
  /\ (tcp[h].stage = "open" /\ proc # "dead") =>
       \/ Answered(h)
       \/ /\ tcp[h].shut = "no"
          /\ \/ Unasked(h) \/ Asked(h)
             \/ AnsweringStatic(h) \/ AnsweringServer(h)
  /\ tcp[h].stage = "closing" =>
       Whole(h) /\ (app[h].requests > 1 => Given(h).extra)

OutputInv == \A h \in Handles : PieceInv(h) /\ AnswerInv(h)
=============================================================================
