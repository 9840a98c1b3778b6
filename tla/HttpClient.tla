----------------------------- MODULE HttpClient -----------------------------
(***************************************************************************)
(* The client side of libuv_c.c: the requests a program makes with         *)
(* Http.request inside Http.run, or from the callback of another request.  *)
(*                                                                         *)
(* request leaves three things behind: a connection on its way, the buffer *)
(* with the text to send, and a timer in its own stack frame, which libuv  *)
(* keeps using after the frame is gone, perhaps for the next request.      *)
(***************************************************************************)
EXTENDS UvErrno

CONSTANTS
  Requests,       \* the calls of Http.request the program can make
  None,           \* no callback of the program is running
  ConnectErrors   \* the system errors a connection attempt can end with

ASSUME RequestsAssumption == None \notin Requests
ASSUME ConnectErrorsAssumption ==
  /\ ConnectErrors \subseteq Systems
  /\ \A e \in ConnectErrors : errno[e] # 0 \/ (BSD /\ e = EHOSTDOWN)

VARIABLES
  proc,   \* "setup": in the argument of Http.run; "up": inside uv_run;
          \* "exit" or "dead" when it is over
  cur,    \* the request whose callback is running, or None
  req     \* the state of each request

vars == <<proc, cur, req>>

----------------------------------------------------------------------------
(***************************************************************************)
(*   stage   "none": not made;  "connecting";  "unsent": uv_tcp_connect    *)
(*           returned an error;  "failed": client_connect_cb got an error; *)
(*           "open": being read;  "over": after EOF or an error, the       *)
(*           handle is left as it is                                       *)
(*   tcp     the uv_tcp_t: "kept", "shutting", "closing" or "freed"        *)
(*   creq    the client_connect_req_t is allocated                         *)
(*   wreq    the write_req_t: "none", "queued", "freed"                    *)
(*   freed   how often the buffer was freed                                *)
(*   timer   "off", "armed", "fired", or "lost": libuv counts it, but it   *)
(*           is not among the timers any more                              *)
(*   ran     how often the body of the callback of the program was run     *)
(*   got     did data of the server arrive?                                *)
(*   told    the error the callback of the program was called with, or 0   *)
(*   error   history: the error of the system, or 0                        *)
(***************************************************************************)
Stages == {"none", "connecting", "unsent", "failed", "open", "over"}
uv_tcp_t == {"kept", "shutting", "closing", "freed"}
uv_write_t == {"none", "queued", "freed"}
uv_timer_t == {"off", "armed", "lost", "fired"}

Request ==
  [stage : Stages, tcp : uv_tcp_t, creq : BOOLEAN, wreq : uv_write_t,
   freed : {0, 1}, timer : uv_timer_t, ran : {0, 1}, got : BOOLEAN,
   told : Int, error : Systems \cup {0}]

NoRequest ==
  [stage |-> "none", tcp |-> "kept", creq |-> FALSE, wreq |-> "none",
   freed |-> 0, timer |-> "off", ran |-> 0, got |-> FALSE,
   told |-> 0, error |-> 0]

(* The callback is a function of two arguments, error and data, as in      *)
(* ExampleClient.re: applied to one, as client_read_cb does, it yields a   *)
(* closure and its body does not run.                                      *)
Arity == 2

caml_callback(q, args) ==
  IF args = Arity THEN [q EXCEPT !.ran = @ + 1] ELSE q

(* The body of the callback starts to run. *)
Entered(q, args) == IF args = Arity THEN cur' = q ELSE UNCHANGED cur

write_cb(q) == [q EXCEPT !.wreq = "freed", !.freed = @ + 1]

(* Complete or not, the callback of the write comes from the loop. *)
uv_write(q) == [q EXCEPT !.wreq = "queued"]

(* Mutant: the timer of the request is not started. *)
uv_timer_not_started(q) == q

uv_timer_start(q) == [q EXCEPT !.timer = "armed"]

timer_lost(q) == [q EXCEPT !.timer = "lost"]

(* Mutant: the request is freed, but the handle is not closed. *)
shutdown_cb_frees_only(q) == [q EXCEPT !.tcp = "kept"]

(* The handle is closed, whatever the status. *)
shutdown_cb(q) == [q EXCEPT !.tcp = "closing"]

close_cb(q) == [q EXCEPT !.tcp = "freed"]

----------------------------------------------------------------------------
Init ==
  /\ proc = "setup" /\ cur = None
  /\ req = [q \in Requests |-> NoRequest]

(* OCaml code of the program runs. *)
InProgram == proc = "setup" \/ (proc = "up" /\ cur # None)

(* The loop runs one callback at a time. *)
Idle == proc = "up" /\ cur = None

(* The connection is started, or uv_tcp_connect returns an error, which is *)
(* only logged: no callback will ever tell the program.  The timer may lie *)
(* where an earlier call had its own, which is then started a second time: *)
(* libuv counts both, but loses armed timers.                              *)
Armed == {q \in Requests : req[q].timer = "armed"}

request(q) ==
  /\ InProgram
  /\ req[q].stage = "none"
  /\ \E stage \in {"connecting", "unsent"}, Lost \in SUBSET Armed :
       req' = [p \in Requests |->
                 IF p = q
                 THEN uv_timer_start([req[q] EXCEPT !.stage = stage,
                                                    !.creq = TRUE])
                 ELSE IF p \in Lost THEN timer_lost(req[p])
                 ELSE req[p]]
  /\ UNCHANGED <<proc, cur>>

(* The host is not an address and cannot be resolved: the error is only    *)
(* logged, and the list of addresses that is then read is NULL.            *)
request_unresolved(q) ==
  /\ InProgram
  /\ req[q].stage = "none"
  /\ proc' = "dead"
  /\ UNCHANGED <<cur, req>>

(* Http.run enters the loop. *)
run ==
  /\ proc = "setup"
  /\ proc' = "up"
  /\ UNCHANGED <<cur, req>>

(* Mutant: the buffer is freed with the connect request. *)
connected_frees_buffer(q) ==
  uv_write([q EXCEPT !.stage = "open", !.creq = FALSE, !.freed = @ + 1])

(* client_connect_cb without an error: start to read, write the request.   *)
connected(q) == uv_write([q EXCEPT !.stage = "open", !.creq = FALSE])

client_connect_cb(q) ==
  /\ Idle
  /\ req[q].stage = "connecting"
  /\ req' = [req EXCEPT ![q] = connected(@)]
  /\ UNCHANGED <<proc, cur>>

(* Mutant: the callback is not called. *)
not_connected_silent(q, e) ==
  [q EXCEPT !.stage = "failed", !.creq = FALSE, !.error = e]

(* The same with an error: the handle, which is writable for libuv from    *)
(* the start, is shut down, and the callback gets the status.              *)
not_connected(q, e) ==
  caml_callback([q EXCEPT !.stage = "failed", !.tcp = "shutting",
                          !.creq = FALSE,
                          !.error = e, !.told = -SystemNumber(e)], 2)

client_connect_cb_error(q) ==
  /\ Idle
  /\ req[q].stage = "connecting"
  /\ \E e \in ConnectErrors : req' = [req EXCEPT ![q] = not_connected(@, e)]
  /\ Entered(q, 2)
  /\ UNCHANGED proc

(* The connect request is read after it was freed. *)
client_connect_cb_crash(q) ==
  /\ Idle
  /\ req[q].stage = "connecting"
  /\ proc' = "dead"
  /\ UNCHANGED <<cur, req>>

client_read_cb(q) ==
  /\ Idle
  /\ req[q].stage = "open"
  /\ req' = [req EXCEPT ![q] = caml_callback([@ EXCEPT !.got = TRUE], 1)]
  /\ Entered(q, 1)
  /\ UNCHANGED proc

(* EOF or an error: the callback is applied to "", and the handle is left  *)
(* open.                                                                   *)
client_read_cb_end(q) ==
  /\ Idle
  /\ req[q].stage = "open"
  /\ req' = [req EXCEPT ![q] = caml_callback([@ EXCEPT !.stage = "over"], 1)]
  /\ Entered(q, 1)
  /\ UNCHANGED proc

Written(q) ==
  /\ Idle
  /\ req[q].wreq = "queued"
  /\ req' = [req EXCEPT ![q] = write_cb(@)]
  /\ UNCHANGED <<proc, cur>>

ShutDown(q) ==
  /\ Idle
  /\ req[q].tcp = "shutting"
  /\ req' = [req EXCEPT ![q] = shutdown_cb(@)]
  /\ UNCHANGED <<proc, cur>>

Closed(q) ==
  /\ Idle
  /\ req[q].tcp = "closing"
  /\ req' = [req EXCEPT ![q] = close_cb(@)]
  /\ UNCHANGED <<proc, cur>>

(* timeout_fired_cb only logs. *)
timeout_fired_cb(q) ==
  /\ Idle
  /\ req[q].timer = "armed"
  /\ req' = [req EXCEPT ![q].timer = "fired"]
  /\ UNCHANGED <<proc, cur>>

(* The stack frame of request is gone: libuv still uses its timer and the  *)
(* collector its slot for the closure, whatever is there by now.           *)
frame_overwritten(q) ==
  /\ proc = "up"
  /\ req[q].stage # "none"
  /\ proc' = "dead"
  /\ UNCHANGED <<cur, req>>

CallbackReturns ==
  /\ proc = "up" /\ cur # None
  /\ cur' = None
  /\ UNCHANGED <<proc, req>>

CallbackRaises ==
  /\ proc = "up" /\ cur # None
  /\ proc' = "dead"
  /\ UNCHANGED <<cur, req>>

(* uv_run returns when no handle and no request is active. *)
Active(q) ==
  \/ req[q].timer \in {"armed", "lost"}
  \/ req[q].stage \in {"connecting", "open"}
  \/ req[q].tcp \in {"shutting", "closing"}
  \/ req[q].wreq = "queued"

(* The modes of libuv in their order; OCaml passes a mode as the number of *)
(* its constructor, and Http.run the first one.                            *)
uv_run_mode == <<"UV_RUN_DEFAULT", "UV_RUN_ONCE", "UV_RUN_NOWAIT">>
UV_RUN_DEFAULT == 0

(* In any other mode one iteration would be enough. *)
LoopEnds ==
  /\ Idle
  /\ uv_run_mode[UV_RUN_DEFAULT + 1] = "UV_RUN_DEFAULT" =>
       \A q \in Requests : ~Active(q)
  /\ proc' = "exit"
  /\ UNCHANGED <<cur, req>>

Next ==
  \/ run \/ CallbackReturns \/ CallbackRaises \/ LoopEnds
  \/ \E q \in Requests :
       \/ request(q) \/ request_unresolved(q)
       \/ client_connect_cb(q) \/ client_connect_cb_error(q)
       \/ client_connect_cb_crash(q)
       \/ client_read_cb(q) \/ client_read_cb_end(q) \/ Written(q)
       \/ ShutDown(q) \/ Closed(q)
       \/ timeout_fired_cb(q) \/ frame_overwritten(q)

Spec == Init /\ [][Next]_vars

(* The kernel decides every connection attempt, a callback returns, and    *)
(* the loop is entered.                                                    *)
Fairness ==
  /\ WF_vars(run) /\ WF_vars(CallbackReturns)
  /\ \A q \in Requests :
       SF_vars(client_connect_cb(q) \/ client_connect_cb_error(q)
               \/ client_connect_cb_crash(q))

FairSpec == Spec /\ Fairness

----------------------------------------------------------------------------
(* Properties. *)

(* Every request is in one of its stages; no buffer is freed twice and no  *)
(* callback runs twice.                                                    *)
TypeOK ==
  /\ proc \in {"setup", "up", "exit", "dead"}
  /\ cur \in Requests \cup {None}
  /\ req \in [Requests -> Request]

(* The body of a callback runs at most once, and exactly for a request     *)
(* whose connection failed later than the call of uv_tcp_connect.          *)
OnlyFailureCallsBack ==
  \A q \in Requests : req[q].ran = IF req[q].stage = "failed" THEN 1 ELSE 0

(* The buffer goes from the connect request to the write request and is    *)
(* freed once, when libuv has called back the write, or never.             *)
BufferFreedOnce ==
  \A q \in Requests :
    /\ req[q].freed = IF req[q].wreq = "freed" THEN 1 ELSE 0
    /\ req[q].creq => req[q].wreq = "none"
    /\ req[q].wreq = "none" <=> req[q].stage \notin {"open", "over"}

(* The number a callback is called with tells the program which error it   *)
(* was: exactly one name of UV_ERRNO_MAP has it (uv.h:172), that of the    *)
(* error the system reported, and it is neither UV_EOF nor positive.       *)
ErrorIdentified ==
  \A q \in Requests :
    req[q].ran > 0 =>
      /\ UV_ERRNO_MAX < req[q].told /\ req[q].told < 0
      /\ {UV_ERRNO_MAP[k] : k \in {k \in DOMAIN uv_errno_t :
                                     uv_errno_t[k] = req[q].told}}
           = {Errnos[req[q].error]}

(* The program ends only when the timer of every request it made has       *)
(* fired, two minutes after, even if all were answered.                    *)
ExitAfterTimers ==
  proc = "exit" =>
    \A q \in Requests : req[q].stage # "none" => req[q].timer = "fired"

(* When the loop has ended, the handles of the connections that failed     *)
(* were closed and freed, and no others: at the end of its stream a handle *)
(* is left to a TODO (libuv_c.c:226).                                      *)
OnlyFailedFreed ==
  proc = "exit" =>
    \A q \in Requests :
      req[q].tcp = IF req[q].stage = "failed" THEN "freed" ELSE "kept"

(* The inductive strengthening of the invariants above, but for the names  *)
(* of ErrorIdentified: who owns the buffer follows from the stage, every   *)
(* request made has its timer, and what a callback was told is the         *)
(* negative of the number of the system.                                   *)
RequestInv(r) ==
  /\ r \in Request
  /\ r.ran = IF r.stage = "failed" THEN 1 ELSE 0
  /\ r.tcp = "kept" <=> r.stage # "failed"
  /\ r.creq <=> r.stage \in {"connecting", "unsent"}
  /\ r.wreq = "none" <=> r.stage \notin {"open", "over"}
  /\ r.freed = IF r.wreq = "freed" THEN 1 ELSE 0
  /\ r.timer = "off" <=> r.stage = "none"
  /\ r.stage = "failed" =>
       r.error \in ConnectErrors /\ r.told = -SystemNumber(r.error)

IInv ==
  /\ TypeOK
  /\ \A q \in Requests : RequestInv(req[q])
  /\ ExitAfterTimers
  /\ OnlyFailedFreed

(* A request that was started connects or tells the program that it did    *)
(* not, unless the process dies.                                           *)
Settles ==
  \A q \in Requests :
    req[q].stage = "connecting" ~>
      (req[q].stage \in {"open", "over"} \/ req[q].ran = 1 \/ proc = "dead")

(* "external request : (string, int, string, (int, bytes) => unit) =>      *)
(* unit" (Http.re:149), with the bytes printed by ExampleClient.re:10 as   *)
(* "Success: " ++ data: the callback gets the data of the response.        *)
DataReachesCallback ==
  \A q \in Requests : req[q].got => req[q].ran > 0
=============================================================================
