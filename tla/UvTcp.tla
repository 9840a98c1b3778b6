------------------------------- MODULE UvTcp -------------------------------
(***************************************************************************)
(* The server side of src/src/libuv_c.c: the life of the uv_tcp_t handles  *)
(* that Http.createServer allocates, one per connection, on the single     *)
(* thread of the libuv loop.                                               *)
(*                                                                         *)
(* A handle is one record of the function tcp.  The stubs and callbacks of *)
(* libuv_c.c, and the libuv calls they make, are operators from a handle   *)
(* to a handle, so that a handler which makes several calls is their       *)
(* composition and one action.  The names are those of the source.         *)
(*                                                                         *)
(* libuv itself (1.7.5) is not in the repository as source; what is        *)
(* modelled of it is what libuv_c.c relies on: the three conditions under  *)
(* which uv_shutdown refuses, the write queue, the POLLOUT half of a       *)
(* stream's I/O event, uv_close and the deferred close callback.           *)
(***************************************************************************)
EXTENDS Integers, Sequences

CONSTANTS
  Handles,    \* addresses malloc can return for a uv_tcp_t
  NoHandle,   \* no read_cb is on the stack
  Chunks,     \* what the program passes to uv_write
  MaxWrites   \* bound: writes per connection

ASSUME HandlesAssumption == NoHandle \notin Handles
ASSUME WritesAssumption == MaxWrites \in Nat

VARIABLES
  proc,   \* "setup"; "up" inside uv_run; "exit" or "dead" when it is over
  cur,    \* the handle whose read_cb is running OCaml code, or NoHandle
  tcp     \* the uv_tcp_t at each address

vars == <<proc, cur, tcp>>

----------------------------------------------------------------------------
(***************************************************************************)
(* Handles.                                                                *)
(*   stage   "free": not allocated;  "inited": uv_tcp_init'ed, fd = -1;    *)
(*           "open": connected;  "closing": uv_close called, fd = -1       *)
(*   reading UV_STREAM_READING                                             *)
(*   shut    "pending": a shutdown request waits;  "done": it was called   *)
(*           back                                                          *)
(*   data    the public field: the OCaml closure ("cb"), NULL ("nil"), or  *)
(*           what malloc left there ("junk")                               *)
(*   root    is &handle->data in the OCaml global root table?  A property  *)
(*           of the address: it outlives the handle                        *)
(*   wq      write_queue: the chunks not yet handed to the kernel          *)
(*   done, failed   the requests in write_completed_queue, by status       *)
(*   wreqs   write_req_t allocated for this handle and not freed           *)
(*   broken  the peer is gone, so a write(2) fails or raises SIGPIPE       *)
(*   eof     read_cb was called with UV_EOF                                *)
(* and two history fields:                                                 *)
(*   given   the chunks uv_write accepted                                  *)
(*   wire    the chunks the kernel accepted                                *)
(***************************************************************************)
Stages == {"free", "inited", "open", "closing"}
uv_shutdown_t == {"no", "pending", "done"}
write_queue == Seq(Chunks)

Handle ==
  [stage   : Stages,
   reading : BOOLEAN,
   shut    : uv_shutdown_t,
   data    : {"cb", "nil", "junk"},
   root    : BOOLEAN,
   wq      : write_queue,
   done    : Nat,
   failed  : Nat,
   wreqs   : Nat,
   broken  : BOOLEAN,
   eof     : BOOLEAN,
   given   : Seq(Chunks),
   wire    : Seq(Chunks)]

NewHandle(stage, data, root) ==
  [stage |-> stage, reading |-> FALSE, shut |-> "no", data |-> data,
   root |-> root, wq |-> <<>>, done |-> 0, failed |-> 0, wreqs |-> 0,
   broken |-> FALSE, eof |-> FALSE, given |-> <<>>, wire |-> <<>>]

(* malloc and uv_tcp_init: every field but the public data is initialised. *)
uv_tcp_init_ocaml(t, data) == NewHandle("inited", data, t.root)

(* uv_accept: the descriptor of the incoming connection moves to t. *)
uv_accept_ocaml(t) == [t EXCEPT !.stage = "open"]

request_on(t) == [t EXCEPT !.data = "cb", !.root = TRUE]

uv_read_start_ocaml(t) == [t EXCEPT !.reading = TRUE]

(* Mutant: close at once instead of shutting down. *)
shutdown_closes(t) ==
  IF t.stage = "open"
  THEN [t EXCEPT !.stage = "closing", !.reading = FALSE, !.shut = "done"]
  ELSE t

(* uv_shutdown refuses with ENOTCONN unless the stream is connected and    *)
(* this is the first shutdown; the stub logs the refusal and carries on.   *)
uv_shutdown_ocaml(t) ==
  IF t.stage = "open" /\ t.shut = "no"
  THEN [t EXCEPT !.shut = "pending"]
  ELSE t

----------------------------------------------------------------------------
(* Writing. *)

(* One write(2), of the oldest queued request, and its result r, when      *)
(* there is one (see SigPipe).                                             *)
Results(t) == IF t.broken THEN {"err"} ELSE {"ok", "again"}

uv__write(t, r) ==
  CASE r = "ok"    -> [t EXCEPT !.wq = Tail(@), !.done = @ + 1,
                                !.wire = Append(@, Head(t.wq))]
    [] r = "err"   -> [t EXCEPT !.wq = Tail(@), !.failed = @ + 1]
    [] r = "again" -> t

(* write_queue_size is 0: nothing is queued, and no failed request awaits  *)
(* its callback.                                                           *)
AtOnce(t) == t.wq = <<>> /\ t.failed = 0

(* Mutant: the new request goes to the head of the queue. *)
write_at_head(t, c, r) ==
  LET q == [t EXCEPT !.wq = <<c>> \o @, !.given = Append(@, c),
                     !.wreqs = @ + 1]
  IN  IF AtOnce(t) THEN uv__write(q, r) ELSE q

(* uv_write queues the request and, when write_queue_size was 0, tries it  *)
(* at once.  On a handle with no descriptor it returns EBADF, and the      *)
(* stub, which only logs, leaves the write_req_t allocated.                *)
uv_write_ocaml(t, c, r) ==
  LET q == [t EXCEPT !.wq = Append(@, c), !.given = Append(@, c),
                     !.wreqs = @ + 1]
  IN  IF t.stage # "open" THEN [t EXCEPT !.wreqs = @ + 1]
      ELSE IF AtOnce(t) THEN uv__write(q, r)
      ELSE q

(* Mutants: the request is freed twice; it is kept after an error. *)
write_cb_frees_twice(t, n) == [t EXCEPT !.wreqs = @ - 2 * n]
write_cb_keeps_failed(t, n) ==
  IF t.broken THEN t ELSE [t EXCEPT !.wreqs = @ - n]

(* write_cb, for each of n completed requests: free the request. *)
write_cb(t, n) == [t EXCEPT !.wreqs = @ - n]

uv__write_callbacks(t) ==
  write_cb([t EXCEPT !.done = 0, !.failed = 0], t.done + t.failed)

(* Mutant: the shutdown request is freed, the handle is not closed. *)
shutdown_cb_only_frees(t) == t

(* shutdown_cb calls uv_close, which closes the descriptor and stops reads *)
shutdown_cb(t) == [t EXCEPT !.stage = "closing", !.reading = FALSE]

(* Once the write queue is empty, the pending shutdown is carried out. *)
uv__drain(t) ==
  IF t.wq = <<>> /\ t.shut = "pending"
  THEN shutdown_cb([t EXCEPT !.shut = "done"])
  ELSE t

(* The POLLOUT half of a stream's I/O event. *)
uv__stream_io(t, r) ==
  uv__drain(uv__write_callbacks(IF t.wq = <<>> THEN t ELSE uv__write(t, r)))

(* Mutant: the root is not removed. *)
close_cb_keeps_root(t) == NewHandle("free", "junk", t.root)

(* close_cb: unregister the root if there is a closure, free the handle. *)
close_cb(t) ==
  NewHandle("free", "junk", IF t.data = "nil" THEN t.root ELSE FALSE)

(* uv__finish_close: what is still queued is cancelled, then close_cb. *)
uv__finish_close(t) ==
  close_cb(uv__write_callbacks([t EXCEPT !.wq = <<>>,
                                         !.failed = @ + Len(t.wq)]))

----------------------------------------------------------------------------
Init ==
  /\ proc = "setup"
  /\ cur = NoHandle
  /\ tcp = [h \in Handles |-> NewHandle("free", "junk", FALSE)]

(* Http.listen binds, listens and runs the loop.  An error of bind or      *)
(* listen is only logged: a server that is not bound may still listen, on  *)
(* any port; for one that does not, uv_run finds no active handle and      *)
(* returns, and the program ends.                                          *)
Listen ==
  /\ proc = "setup"
  /\ proc' \in {"up", "exit"}
  /\ UNCHANGED <<cur, tcp>>

(* The loop runs one callback at a time. *)
Idle == proc = "up" /\ cur = NoHandle

(* connection_cb runs the callback of Http.createServer: allocate a handle *)
(* and accept the connection.                                              *)
ConnectionAccepted(h) ==
  /\ Idle
  /\ tcp[h].stage = "free"
  /\ \E data \in {"nil", "junk"} :
       tcp' = [tcp EXCEPT ![h] =
                 uv_read_start_ocaml(request_on(uv_accept_ocaml(
                   uv_tcp_init_ocaml(@, data))))]
  /\ UNCHANGED <<proc, cur>>

(* The same when uv_accept fails: connection_cb only logs an error status  *)
(* and calls back all the same, with no descriptor to take.  uv_shutdown   *)
(* refuses the unconnected handle.                                         *)
ConnectionRefused(h) ==
  /\ Idle
  /\ tcp[h].stage = "free"
  /\ \E data \in {"nil", "junk"} :
       tcp' = [tcp EXCEPT ![h] =
                 uv_shutdown_ocaml(uv_tcp_init_ocaml(@, data))]
  /\ UNCHANGED <<proc, cur>>

CanRead(h) == Idle /\ tcp[h].stage = "open" /\ tcp[h].reading

(* read_cb with nread > 0 enters the OCaml closure. *)
ReadData(h) ==
  /\ CanRead(h)
  /\ cur' = h
  /\ UNCHANGED <<proc, tcp>>

(* read_cb with nread < 0, UV_EOF or an error: the stub asks for an OCaml  *)
(* string of nread bytes.  As an unsigned length that is beyond the        *)
(* largest block, so the allocation raises Out_of_memory, which nothing    *)
(* between uv_run and the main program catches.                            *)
ReadFails(h) ==
  /\ CanRead(h)
  /\ \E eof \in BOOLEAN : tcp' = [tcp EXCEPT ![h].eof = eof]
  /\ proc' = "dead"
  /\ UNCHANGED cur

(***************************************************************************)
(* What the OCaml closure of cur may do.  As in both example servers, the  *)
(* program uses a connection only in the callbacks of that connection.     *)
(***************************************************************************)
Running(h) == proc = "up" /\ cur = h

Write(h) ==
  /\ Running(h)
  /\ Len(tcp[h].given) < MaxWrites
  /\ \E c \in Chunks, r \in Results(tcp[h]) :
       tcp' = [tcp EXCEPT ![h] = uv_write_ocaml(@, c, r)]
  /\ UNCHANGED <<proc, cur>>

(* Http.endConnection: a last write, then uv_shutdown. *)
endConnection(h) ==
  /\ Running(h)
  /\ Len(tcp[h].given) < MaxWrites
  /\ \E c \in Chunks, r \in Results(tcp[h]) :
       tcp' = [tcp EXCEPT ![h] = uv_shutdown_ocaml(uv_write_ocaml(@, c, r))]
  /\ UNCHANGED <<proc, cur>>

(* The closure returns, read_cb frees its buffer and returns to the loop. *)
ReadReturns(h) ==
  /\ Running(h)
  /\ cur' = NoHandle
  /\ UNCHANGED <<proc, tcp>>

(* An exception raised in the closure unwinds through read_cb and uv_run. *)
HandlerRaises(h) ==
  /\ Running(h)
  /\ proc' = "dead"
  /\ UNCHANGED <<cur, tcp>>

----------------------------------------------------------------------------
(* The loop. *)

(* POLLOUT is armed while a request is queued or a shutdown is pending,    *)
(* and a completed request feeds the event to the next iteration.          *)
Writable(h) ==
  /\ Idle
  /\ tcp[h].stage = "open"
  /\ \/ tcp[h].wq # <<>>
     \/ tcp[h].done + tcp[h].failed > 0
     \/ tcp[h].shut = "pending"
  /\ \E r \in Results(tcp[h]) :
       tcp' = [tcp EXCEPT ![h] = uv__stream_io(@, r)]
  /\ UNCHANGED <<proc, cur>>

Closing(h) ==
  /\ Idle
  /\ tcp[h].stage = "closing"
  /\ tcp' = [tcp EXCEPT ![h] = uv__finish_close(@)]
  /\ UNCHANGED <<proc, cur>>

(* The peer resets the connection, at any time. *)
PeerReset(h) ==
  /\ proc = "up"
  /\ tcp[h].stage = "open" /\ ~tcp[h].broken
  /\ tcp' = [tcp EXCEPT ![h].broken = TRUE]
  /\ UNCHANGED <<proc, cur>>

(* A write(2) to a peer that is gone: once the kernel has reported the     *)
(* reset, and sometimes before, it raises SIGPIPE, which neither libuv     *)
(* 1.7.5 nor the stubs ignore.  The write is one that uv_write tries at    *)
(* once, from the handler, or one of the loop.                             *)
SigPipe(h) ==
  /\ proc = "up"
  /\ tcp[h].stage = "open" /\ tcp[h].broken
  /\ \/ Running(h) /\ AtOnce(tcp[h]) /\ Len(tcp[h].given) < MaxWrites
     \/ Idle /\ tcp[h].wq # <<>>
  /\ proc' = "dead"
  /\ UNCHANGED <<cur, tcp>>

Next ==
  \/ Listen
  \/ \E h \in Handles :
       \/ ConnectionAccepted(h) \/ ConnectionRefused(h)
       \/ ReadData(h) \/ ReadFails(h)
       \/ Write(h) \/ endConnection(h) \/ ReadReturns(h) \/ HandlerRaises(h)
       \/ Writable(h) \/ Closing(h) \/ PeerReset(h) \/ SigPipe(h)

Spec == Init /\ [][Next]_vars

(* A handler returns.  Every iteration of the loop visits every ready      *)
(* handle once, reading a bounded number of times before writing, so that  *)
(* a busy connection does not starve another: strong fairness.  That a     *)
(* pending write makes progress assumes that the peer takes the data or    *)
(* resets: the program sets no timeout.                                    *)
Fairness ==
  \A h \in Handles :
    WF_vars(ReadReturns(h)) /\ SF_vars(Writable(h)) /\ SF_vars(Closing(h))

FairSpec == Spec /\ Fairness

----------------------------------------------------------------------------
(* Properties. *)

(* The process is in one of its phases and every handle is well formed. *)
TypeOK ==
  /\ proc \in {"setup", "up", "exit", "dead"}
  /\ cur \in Handles \cup {NoHandle}
  /\ tcp \in [Handles -> Handle]

(* The closure of a connection is a root of the collector for exactly as   *)
(* long as libuv can call it: request_on registers it and close_cb removes *)
(* it before the memory the root points into is freed.                     *)
RootsMatchConnections ==
  \A h \in Handles :
    /\ tcp[h].root <=> tcp[h].stage \in {"open", "closing"}
    /\ tcp[h].root => tcp[h].data = "cb"

(* When a handle is closed, and so before close_cb frees it, no write or   *)
(* shutdown request refers to it any more and all of them are freed.       *)
ClosingIsQuiet ==
  \A h \in Handles : tcp[h].stage = "closing" =>
    /\ tcp[h].wq = <<>> /\ tcp[h].done = 0 /\ tcp[h].failed = 0
    /\ tcp[h].wreqs = 0
    /\ tcp[h].shut = "done"

(* A handle is never closed under the handler that is using it, although   *)
(* that handler may end the connection as often as it likes.               *)
HandlerOnOpenHandle == cur # NoHandle => tcp[cur].stage = "open"

(* Every write_req_t is either queued or awaits the write_cb that frees    *)
(* it: uv_write_ocaml is never refused, so none is leaked or lost.         *)
WriteReqsAccounted ==
  \A h \in Handles :
    tcp[h].wreqs = Len(tcp[h].wq) + tcp[h].done + tcp[h].failed

(* What reached the kernel is a prefix of what was written and, as long as *)
(* the peer is there, the rest of it is the write queue.                   *)
OutputInOrder ==
  \A h \in Handles :
    LET t == tcp[h] IN
      /\ Len(t.wire) <= Len(t.given)
      /\ \A i \in 1 .. Len(t.wire) : t.wire[i] = t.given[i]
      /\ ~t.broken => t.given = t.wire \o t.wq

(* The inductive strengthening of the invariants above, handle by handle:  *)
(* a handle without a descriptor has no output, an open one has not been   *)
(* shut down yet, and only a write to a peer that is gone fails.           *)
HandleInv(t) ==
  /\ t \in Handle
  /\ t.root <=> t.stage \in {"open", "closing"}
  /\ t.root => t.data = "cb"
  /\ t.wreqs = Len(t.wq) + t.done + t.failed
  /\ t.stage # "open" => t.wq = <<>> /\ t.done = 0 /\ t.failed = 0
  /\ t.stage \in {"free", "inited"} =>
       t.shut = "no" /\ t.given = <<>> /\ t.wire = <<>> /\ ~t.broken
  /\ t.stage = "open" => t.shut # "done"
  /\ t.stage = "closing" => t.shut = "done"
  /\ t.failed > 0 => t.broken
  /\ Len(t.wire) <= Len(t.given)
  /\ \A i \in 1 .. Len(t.wire) : t.wire[i] = t.given[i]
  /\ ~t.broken => t.given = t.wire \o t.wq

IInv ==
  /\ TypeOK
  /\ \A h \in Handles : HandleInv(tcp[h])
  /\ HandlerOnOpenHandle

(* Every connection keeps the promise of GracefulConn to its peer. *)
Phase(t) ==
  CASE t.stage \in {"free", "inited"} -> "idle"
    [] t.stage = "open" /\ t.shut = "no" -> "open"
    [] t.stage = "open" /\ t.shut # "no" -> "ended"
    [] t.stage = "closing" -> "closed"

Abstract(t) ==
  [phase |-> Phase(t), given |-> t.given, wire |-> t.wire,
   broken |-> t.broken]

Graceful ==
  INSTANCE GracefulConn
    WITH Conns <- Handles, conn <- [h \in Handles |-> Abstract(tcp[h])]

ImplementsGracefulConn == Graceful!Spec

(* A connection the program ended is closed and its memory freed, unless   *)
(* the process dies first.                                                 *)
EndedIsFreed ==
  \A h \in Handles :
    tcp[h].shut = "pending" ~> (tcp[h].stage = "free" \/ proc = "dead")

(* "Client signaled that all data has been sent, so we send an empty       *)
(* string to ocaml to tell it to close the connection" (libuv_c.c:84-85):  *)
(* a connection whose peer sent EOF is closed.                             *)
EofClosesConnection ==
  \A h \in Handles :
    tcp[h].eof ~> tcp[h].stage \in {"closing", "free"}
=============================================================================
