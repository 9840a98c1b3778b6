# testuv: models, checks and proofs

testuv is a small HTTP server and client library for native Reason: `Http.re` on
top of two sets of C stubs, `libuv_c.c` (libuv) and `http_parser_stubs.c`
(http_parser), with three example programs. This directory holds TLA+ models of
it, the TLC configurations that check them, and TLAPS proofs about them. All line
numbers are those of `src/src/`.

To run it: `tlc -config X.cfg M` for each run of `PROJECT.json`, `tlapm M.tla`
for each module of proofs (`UvTcpProofs`, `HttpFramingProofs`, `HttpResponseProofs`,
`HttpRequestProofs`, `HttpServerProofs`, `HttpClientProofs`, `CamlHeapProofs`,
`HttpParserProofs`).

## 1. The system

### Components

| component | files | state it keeps | operations |
|---|---|---|---|
| libuv bindings, server side | `libuv_c.c` 1-205, `UvBind.re` | one `uv_tcp_t` per connection with its `data` closure, registered as a root of the OCaml collector; `write_req_t` and `uv_shutdown_t` requests in flight | init, accept, bind, listen, read_start, write, shutdown, request_on; callbacks `connection_cb`, `read_cb`, `write_cb`, `shutdown_cb`, `close_cb` |
| parser bindings | `http_parser_stubs.c`, `HttpParser.ml` | a malloc'ed `http_parser` owned by an abstract block with a finaliser; during `execute`, a C copy of the settings record | `init`, `free`, `execute`, eight callbacks into OCaml, accessors |
| requests | `Http.re` 27-59 | `url`, `fields`, `values` of `createParser`; `onData`, `onEnd` of `res` | the eight closures of the settings record |
| responses | `Http.re` 61-141 | `res`: status, content type, headers, `wroteHeaders` | `write`, `setHeader`, `on`, `endConnection` |
| server | `Http.re` 155-204 | a handle, a parser and a `res` per connection | `createServer`, `listen` |
| libuv bindings, client side | `libuv_c.c` 207-347, `Http.re` 143-150 | a handle, a `request_t`, a timer | `request`, `run`, timeout |
| OCaml values in C frames | all stubs | global roots, the list of local roots, copies in C locals and structs | collections, wherever OCaml code runs or C code allocates |
| error numbers | `../include/uv-errno.h`, `uv.h` 65-177 | none | the macros `UV__<name>`, `enum uv_errno_t` |
| example programs | `Example*.re` | none of their own | a handler each |
| libuv, http_parser, OCaml runtime | not in the repository as source (`libuv.a` is a binary, `http-parser` a submodule) | | modelled from how the stubs use them |
| build script, `test.js` | `build_script.re` | | not modelled |

### How they interact

Everything runs on one thread, inside `uv_run`. libuv calls a C callback; the C
callback calls the OCaml closure in `handle->data`; for a server connection this
closure is `data => execute(parser, settings, data)`, which calls http_parser,
which calls the C callbacks of the parser stubs, which call the closures of
`createParser`, which call the program's handler, which calls `Http.write` and
`Http.endConnection`, which call libuv again. All of that happens on one stack
before libuv goes on. What is concurrent is the rest: the peer, the kernel's send
buffer, and the *requests* - writes, shutdown, close - that libuv completes in
later iterations of the loop, interleaved with the reads and writes of this and
of every other connection. An exception anywhere on that stack unwinds through
the C frames and ends the process.

### What is hard

* A handle's life: it is closed by `shutdown_cb` and freed by `close_cb`, both some
  iterations after `endConnection`, while reads, writes and more `endConnection`s
  still arrive; the root of its closure has to go exactly with it.
* Ownership of requests: each `write_req_t` is freed by its callback, whether it
  succeeded, failed or was cancelled.
* Order: writes may complete at once, partly queue, or fail after a reset; the
  shutdown must wait for the queue.
* Packets: the parser reports a URL or a header in as many pieces as packets it
  spans, and says nothing about it; `createParser` keeps no state for that.
* Keep-alive: one `res`, one parser and one set of refs serve all the requests of
  a connection, and nothing is reset in between.
* Framing: an empty chunk ends a chunked body, and `write(res, "")` is an empty chunk.
* End of stream, parse errors and upgrades: nobody handles them.
* The OCaml collector: values held in C locals, copies of closures, local roots
  without `CAMLparam`/`CAMLreturn`.

`PROJECT.json` lists each of these as a hazard at its line, with the properties
that cover it.

### What makes each component correct

* bindings: a closure is a root exactly while libuv can call it; a handle is freed
  after its last request; requests are freed once; output is in order; an ended
  connection is closed and freed, after all of its output.
* requests: the handler sees the URL and the headers of its own message, once,
  before its body and its end; the process does not die of a request.
* responses: what a client reads is what the program wrote.
* server: every connection gets a whole, well-formed answer to a complete request
  and is closed.
* client: a program is called back once for a request, with the data or with a
  number that says what went wrong, and what a request allocated is freed once.
* parser library: an OCaml constructor means the same constant of the library in
  both directions; the parser is freed once, after its last use.
* OCaml values: no C code uses the address of a value that is no longer there, and
  no collection walks through frames that are gone.

## 2. Modules

| module | models |
|---|---|
| `UvTcp` | the server side of `libuv_c.c`: every handle and everything that happens to it |
| `GracefulConn` | abstract: what a connection promises its peer |
| `HttpRequest` | `http_parser_execute` on packets, and the closures of `createParser` |
| `HttpFraming` | operators: what `Http.write` makes of a message, what a client makes of it |
| `HttpResponse` | any program's use of `Http.write`, `setHeader`, `endConnection` |
| `HttpServer` | composition of `UvTcp`, `HttpFraming` and the handlers of `ExampleServer.re` or `ExampleStatic.re` |
| `HttpClient` | the client side of `libuv_c.c`: every request of a program |
| `UvErrno` | operators: the numbers of libuv's errors, for any `errno.h` |
| `CamlHeap` | the OCaml values the stubs hold, under collections |
| `HttpParser` | every function of `HttpParser.ml`, as a program other than `Http.re` may call it |
| `MCHttpRequest`, `MCHttpServer` | symmetry sets for TLC |
| `MCHttpClient`, `MCHttpParser` | an `errno.h`, orders of the library's enumeration |
| `UvTcpProofs` | theorems: the invariants of `UvTcp`, and that it implements `GracefulConn` |
| `HttpFramingProofs` | lemmas: what the client reads, piece by piece |
| `HttpResponseProofs`, `HttpRequestProofs`, `HttpClientProofs`, `CamlHeapProofs`, `HttpParserProofs` | theorems: the invariants of each |
| `HttpServerProofs` | theorems: `HttpServer` implements `UvTcp` and so `GracefulConn`, and its own invariants |

Operators named `..._xxx` and commented "Mutant" are plausible bugs; the entries
"mutants" of `PROJECT.json` say which definition each replaces and which property
then fails. No specification uses them.

### UvTcp

`tcp[h]` is the `uv_tcp_t` at address `h`. Stubs and callbacks (`uv_write_ocaml`,
`shutdown_cb`, ...) are operators from a handle to a handle under their names in
the source, and so are the functions of libuv they depend on (`uv__write`,
`uv__drain`, ...); an action composes the ones its callback calls. So
`ConnectionAccepted` is `connection_cb` with the whole closure of
`Http.createServer` (`Http.re` 158-185), and `Writable` is one POLLOUT event: one
`write(2)`, the `write_cb`s of the completed requests, and then, if the queue is
empty, `shutdown_cb`.

The OCaml closure called by `read_cb` is *not* atomic: between `ReadData` and
`ReadReturns` it is any sequence of `Write` and `endConnection` on its own
connection, or an exception; the peer may reset the connection between any two of
these. The loop does nothing else in the meantime (`Idle`).

Of libuv 1.7.5 the model keeps: `uv_shutdown` refuses a stream that is not
connected or already shut down; `uv_write` refuses a handle without descriptor,
tries the write at once when nothing is queued, and otherwise queues it;
completed requests are called back in a later iteration; a request that fails is
called back with the error; the shutdown waits for an empty write queue and then
always calls back; `uv_close` stops reading at once and calls back later, after
cancelling what is queued. A chunk is written completely or not at all: a partial
write leaves the same request at the head of the queue. After a reset a `write(2)`
either fails, with an error that the request reports, or raises SIGPIPE, which neither
libuv 1.7.5 nor the stubs ignore, and ends the process (`SigPipe`).

`given` and `wire` are history variables: what `uv_write` accepted and what the
kernel accepted.

### GracefulConn

A connection is idle, open, ended or closed. Output is only appended to; it
reaches the wire in order; nothing reaches it once the peer is gone; the
connection closes only after the program ended it and, if the peer is still
there, after all output was sent; its address is then reused from scratch.
`UvTcp` implements it with the mapping `Abstract`: a handle that has been shut
down but not closed is "ended", and queues, callbacks and requests disappear.

### HttpRequest

One connection. The peer sends up to `MaxMessages` messages, chosen when they
begin; a packet may end anywhere in a text, right after its last character, or
between two texts. http_parser reports the characters of a text it has seen when
a packet ends, and reports the rest, which may be empty, when it sees the
delimiter (`Report`). A header line that starts with a space continues the value of the
line before (`Continues`): http_parser then reports that value a second time, with no
name in between, so the end of the first line cuts it as the end of a packet would
(`FoldCut`). Each action is one callback with all that the closure of
`createParser` does. A text is an interval of characters of what was sent, so
that pieces, empty pieces and equal names are told apart and nothing else is.

The parser of this model continues after `Connection: close`: the library is
built with `HTTP_PARSER_STRICT=0` (`build_script.re` 14). Chunked request bodies are
left out, see the hazards.

### HttpFraming and HttpResponse

A piece is one string given to `uv_write`: header block or not, framed as a
chunk or not, and its message. `Client` is what an HTTP client has made of a
sequence of pieces, read one after the other.
`HttpResponse` lets a program write texts and empty strings, change the
encoding and the status, and end the connection any number of times.

### HttpServer

Extends each handle of `UvTcp` with the `res` record and the position of the
parser. `todo` is what is left of the running handler; each operation of a
handler is a step of its own, so that resets and every result of `write(2)` come
in between. In place of a handler of either program `fold_left2` may raise (`Raise`),
when names and values were cut unevenly. `OnRequest`, `OnData` and `OnEnd` are what the parser reports to the
program; a packet is any number of them. It is shown to implement `UvTcp`
(`ImplementsUvTcp`, checked and proved), so what is proved of `UvTcp` for an arbitrary program holds
for the two examples.

### HttpClient

`req[q]` is what one call of `Http.request` leaves behind: a connection on its way
(`stage`, `creq`), the buffer with the text to send, which moves from the connect
request to the write request (`wreq`, `freed`), a timer (`timer`) and the handle (`tcp`). `ran` and `got`
are history: how often the body of the program's callback ran, and whether the
server sent data. A program makes requests in the argument of `Http.run`, before the
loop, or from the callback of another request (`cur`).

`caml_callback` applies the closure as the OCaml runtime does: a function of two
arguments given one yields a closure and its body does not run. What the C code
leaves undefined ends the process at any time it can matter: `request` lets libuv
keep a timer, and the collector a root, in its stack frame (`frame_overwritten`);
`client_connect_cb` reads the connect request after it freed it
(`client_connect_cb_crash`); a host that cannot be resolved is a NULL list of
addresses (`request_unresolved`). The other outcome of each is that nothing
happens, which is no step. `CHECK` only logs, so an error of `uv_tcp_connect` leaves
a request that nobody will call back (`unsent`).

libuv marks a stream writable before it connects it, so the `uv_shutdown` of a failed
connection is accepted: `shutdown_cb` (`ShutDown`) closes the handle and `close_cb`
(`Closed`) frees it. No other handle of a client is ever closed. Two calls of `request` at
the same depth of the stack put their timers at the same address. The second
`uv_timer_init` and `uv_timer_start` then make libuv forget armed timers that it still
counts as active (`timer_lost`, for any set of the armed ones): the loop does not
end any more.

`HttpClient` shares nothing with the server side but the loop, so it is not
composed with `UvTcp`.

The status of a failed connection is one of `ConnectErrors`, by its number in
`UvErrno`; the callback is told that number unchanged (`told`).

### UvErrno

`UV__errno(i)` is the macro of `uv-errno.h` for the i-th error: minus `errno.h`'s
number if the system has it, else a number of libuv's own. `errno.h` is a constant,
a function from errors to numbers with 0 for "not there", under the one assumption
that a system numbers its errors differently and not above 2999. `uv_errno_t` is
the enumeration of `uv.h` in its own order, which is where a name is looked up.

### CamlHeap

One connection of a server, from `connection_cb` to `close_cb`, and one request of a
client, as the collector sees them. `addr[v]` says where a value is, `slot[s]` which
address a C variable holds: the field of the handle, `read_cb`'s local copy, the
copies `execute` makes of the settings and of the string. `Collect` may happen at
every place where OCaml code runs or C code allocates; it moves what it keeps,
updates the slots that are registered and leaves the others stale. A stub that calls
a closure through a stale slot ends in `stale_server` or `stale_client`: the model
says no more about what the machine then does. `chain` counts what the callbacks of
the parser leave in the list of local roots when they return without `CAMLreturn`
(`text_returns`), up to `CAMLreturn` of `execute`, and what `client_read_cb` leaves there
for good when it returns early (`EarlyReturn`): at the end of a stream (230) and, the
stream staying open, when nothing was read (236). `lost` is the history of the
latter two. A collection that walks into such a
frame may end in `dead_frames`. Values and closures with the same fate are one
value (`on` stands for the closures of the settings). Blocks freed by the
collector are not reused in the model: an address that is stale stays recognisable.

### HttpParser

The bindings as a library. One parser with the calls of a program at its top
level or inside a callback of `execute`, which may itself call `execute`
(`depth`), `free`, `pause` and the accessors; after these, `finalise` runs when nothing
refers to the parser. The functions without a parser (`method_str`, `errno_name`,
`version`, `parse_url`) depend on nothing, so they are called in the initial state
only. Tables and enumerations are sequences of names in the order of the source;
the order of the library's own `enum http_errno`, which is not in the repository, is
the constant `Libraries`. `fields` is the loop of `parse_url` over the seven fields,
with the 16-bit width as a constant, and with `moved`: the allocation during which a
collection moves the URL. `pause` is the one function here with an assertion of the
library behind it.

## 3. Runs

| run | what it asks | instance |
|---|---|---|
| `uvtcp_connections` | all properties of `UvTcp`, that it implements `GracefulConn`, and that an ended connection is closed and freed | 2 addresses, 2 chunks, 2 writes a connection; no symmetry, because of the liveness property |
| `uvtcp_eof` | *violated*: a peer's EOF closes its connection | 1 address |
| `httprequest_packets` | when does a handler get the URL that was sent, when does the process die | 1 message, 2 header lines, texts of 2 characters |
| `httprequest_pipeline` | which headers does a request get, and what does a second request inherit | 2 messages of 1 header |
| `httprequest_upgrade` | *violated*: the parser is not run on what follows an upgrade | 2 messages |
| `httpresponse_client` | what does a client read | 5 writes, 2 texts |
| `httpserver_server` | use of the handle as `UvTcp` allows, well-formed output, closed after the whole answer, served when complete | 1 connection at a time to ExampleServer, 3 requests, 2 body parts |
| `httpserver_static` | closed after the whole answer, for files, empty files, missing files and a handler that raises | 2 connections to ExampleStatic, 1 request |
| `httpclient_callbacks` | who is called back and with which number, who frees the buffer and closes the handle, when the program ends, a request settles | 2 requests, 5 errors of connect, `errno.h` of Linux changed so that libuv's own numbers occur |
| `httpclient_data` | *violated*: the callback gets the data of the response | 1 request |
| `camlheap_values` | which values survive which collections, when is an address stale, when is the list of local roots wrong | 4 addresses a value, 2 dead frames counted |
| `httpparser_library` | do constants mean the same in OCaml and C, which part of a URL is a field, when is the parser freed twice or its data dead | 4 orders of the library, width 4, URLs of up to 5 characters, executions nested once |

Why the bounds are enough. Two addresses, each freed and reused without bound, are
enough for reuse and for one connection holding up another; connections do not share
anything else. Two writes make one that is sent or queued and one behind it, which
may fail after the first; two chunks tell orders apart (and the proofs are for any
number). Texts of two characters can be cut inside and at the end, and cut twice;
with two headers a cut name can be compensated by a cut value, which is the case
where the process survives with headers that are wrong; the second line may also
continue the first. That the first value also wins within one request needs two
headers in a message; it is the theorem `HeadersKept`. A second message is where
everything that is not reset shows; the third in `httpserver_server` comes after a
request that was itself after the end. Requests of a client share only the loop and
the place of a timer: with two, one is on its way or runs its callback while the
other is made. Four addresses let a value be promoted and then moved twice by
compactions, once before and once after it was copied; a second dead frame is as
harmful as the first. A URL of five characters wraps a width of four, and the four
orders of the library are the ones known of its releases: without callbacks for
chunks, with them, with `UNEXPECTED_CONTENT_LENGTH` in the middle (since 2016), and
with a later error at the end.

### What they show

* The life of a handle is sound. Roots and handles match, requests are freed once,
  a handle is closed only when nothing refers to it, and never under its handler,
  however often a program writes or ends; output is in order and complete before
  a graceful close.
* EOF kills the server. `read_cb` passes the negative `nread` of `UV_EOF` to
  `caml_alloc_initialized_string` as a length (86): `Out_of_memory` is raised through
  `uv_run`. The comment above it wants the connection closed. (Finding.)
* A handler gets its URL whole exactly if no packet ended in it, otherwise the last
  piece, which is empty if the packet ended right after the URL (`UrlWholeUnlessCut`):
  `ExampleStatic` then raises. Names and values are paired by position
  (`DiesOfUnevenCuts`): if packets cut the names and the values of a connection
  a different number of times, `fold_left2` raises and the process dies. A value that
is folded over two lines counts as cut once: it kills the process with no packet
boundary in it, unless a name was cut to match.
* Headers accumulate over the requests of a connection and the value sent *first*
  wins, within a request too (`HeadersAccumulate`). Body and end go to the
  closures of an earlier request when the handler sets none
  (`EventsReachLatestHandler`).
* Nobody checks for an upgrade or an error after `execute` (finding): after an error
  the connection stays open and is never answered.
* A client of the default chunked encoding reads exactly what was written before
  the first empty string, `endConnection` included (`ClientReadsChunks`); so
  `ExampleStatic` ends the response to an empty file twice.
* `ExampleServer` and `ExampleStatic` answer the first request of a connection
  completely; later requests of the connection, though the response said
  `keep-alive`, get only bytes after the end of that response
  (`ClosedAfterWholeAnswer`).
* The data of a response never reaches a client program: `client_read_cb` applies the
  callback to one argument (241), `Http.request` declares two. (Finding.) The body of a
  callback runs only for a connection that failed, and then once
  (`OnlyFailureCallsBack`); the buffer of a request is freed once or never
  (`BufferFreedOnce`); a client program does not end before the two minutes of its
  last timer, even if everything was answered at once (`ExitAfterTimers`). The handles of
  failed connections have been closed and freed by then, and no others
  (`OnlyFailedFreed`): the end of a stream is a TODO in `client_read_cb` (226).
* The values of a server survive the collections between packets and the handle
  keeps its closure and its parser alive (`ConnectionKeepsValues`), but not those
  *during* a packet: `read_cb` loads the closure before it allocates the string (78, 87),
  and `execute` copies closures and the address of the string and then calls OCaml
  code. `StaleOnlyIfMoved` says exactly which collections hurt: a compaction, one
  while the closure was still in the minor heap, or one in a callback while
  anything copied was.
* Between callbacks the list of local roots holds no dead frame of a packet, but one for
  every time `client_read_cb` returned early, because the stream ended or because nothing
  was read; nothing ever removes those (`ChainBalanced`). During a packet it points to
  dead frames as soon as one text has been reported.
* `errno_code` returns the library's number as if it were the number of a constructor.
  The two enumerations agree on `OK`, on `CB_message_begin` and, if the library has
  no callbacks for chunks, on the errors that are not of a callback; for all others,
  in every release, the answer is wrong (`ErrorMisread`). The tables used in the other direction
  are right (`Translated`).
* A field of `parse_url` never reaches beyond the URL, however long that is; it is the
  part the parser found if the URL is shorter than 2^16 and no collection happens
  between the fields, and is not a string at all if there is no such part
  (`UrlFieldsRight`).
* `free` is exported and the finaliser frees again: a program that calls it
  frees the parser twice or uses it after (`FreedOnceUnlessCalled`). A callback that executes its
  own parser leaves `data` in a dead frame (`DataOfOwnFrame`).
* The number a failed connection is reported with identifies the error
  (`ErrorIdentified`).

### Fairness

`Fairness` of `UvTcp`: a handler that runs returns (weak fairness of `ReadReturns`;
the example handlers have no loops that depend on the peer); strong fairness of
`Writable` and `Closing`, because an iteration of `uv_run` visits every ready handle
once, `uv__read` reads a bounded number of times (32) before the POLLOUT half of
the event is served, and closing handles are processed at the end of every
iteration. Strong fairness of `Writable` lets a write be refused ("again") for ever
only if the result is unlucky for ever; TLC's counterexamples cannot use that
because `Writable` with "again" changes nothing and is not a step. This is the
assumption that the peer takes its data or is gone: the server sets no timeout,
and a peer that stays and never reads holds its connection for ever.
`HttpServer` adds that a started handler continues. Nothing assumes that a
peer sends anything. `HttpClient` assumes that the program enters the loop, that
callbacks return, and that the kernel decides every connection attempt, though
the loop may be busy with other requests (strong fairness): TCP gives up an attempt
that gets no answer. Timers and servers have no fairness.

## 4. Proofs

Every theorem is for all values of the constants; the only assumptions are the named
ones of the modules.

| module | theorem | states | assumes |
|---|---|---|---|
| `UvTcpProofs` | `TypeCorrect`, `RootsSafe`, `ClosingSafe`, `HandlerSafe`, `WriteReqsSafe`, `OutputSafe` | the six invariants of `UvTcp` | `HandlesAssumption`: `NoHandle` is no handle; `MaxWrites` is a natural number |
| | `Refines` | `UvTcp` implements `GracefulConn` | the same |
| `HttpResponseProofs` | `TypeCorrect`, `ChunksRead`, `PlainTextsRead` | the three invariants of `HttpResponse` | `MaxWrites` is a natural number |
| `HttpRequestProofs` | `TypeCorrect`, `UrlsWhole`, `EvenCutsSurvive`, `HeadersKept`, `EventsLatest` | the five invariants of `HttpRequest` | `BoundsAssumption`: the bounds are numbers, a text may have a character; `NameAssumption`: `NoName` is no name |
| `HttpServerProofs` | `Refines` | `HttpServer` implements `UvTcp` | `HandlesAssumption`, the bounds are numbers, `Program` is one of the two |
| | `GracefulServers`, `HandlesSafe` | it implements `GracefulConn` too, and has the invariants of `UvTcp` | the same |
| | `TypeCorrect`, `WellFormed`, `WholeAnswers` | the three invariants of `HttpServer` | the same |
| `HttpClientProofs` | `TypeCorrect`, `OnlyFailures`, `FreedOnce`, `ExitsLate`, `OthersKept`, `ErrorsIdentified` | the six invariants of `HttpClient` | `None` is no request; connecting fails with errors the system has |
| | `NumbersTellApart` | no two errors of libuv share a number | `ErrnoAssumption` |
| `CamlHeapProofs` | `TypeCorrect`, `ValuesKept`, `ChainsBalanced`, `StaleAfterMove`, `ClientFieldRight` | the five invariants of `CamlHeap` | the bounds are positive |
| `HttpParserProofs` | `TypeCorrect`, `TranslatedRight`, `UrlsRight`, `FreedOnce`, `OwnFrame` | five of the invariants of `HttpParser` | `LibrariesAssumption`: every library starts with `OK`, names nothing twice, and has the errors the tables refer to |
| | `ErrorsMisread` | its sixth | and `OrderAssumption`, what is known of the releases of http_parser: the first nine errors; behind them, in a release without callbacks for chunks, the errors the binding knows where the binding has them; in one with callbacks for chunks the same errors further back, in any order, with any others between them; and anything behind that |

None of the properties is inductive. In each module an invariant that is (`IInv`, or the
ones named below) implies them; it was checked by TLC on the instances above before it
was proved, and each proof has a lemma or a step for every action.

*UvTcp.* That a closing handle has no requests (`ClosingIsQuiet`) rests on the order
inside one POLLOUT event - callbacks, then drain - and on `wreqs` being the sum of
what is queued and completed; that output is a prefix rests on the queue being the
rest of it as long as the peer is there, and on failures happening only after it is
gone. `HandleInv` collects this for one handle and `IInv` is `TypeOK`, `HandleInv` for
every handle, and `HandlerOnOpenHandle`. A lemma for each operator says that it keeps
`HandleInv` (`WriteInv`, `UvWriteInv`, `CallbacksInv`, `DrainInv`, ...), `UpdateInv` lifts
that to the function `tcp`. `OpenInv` and `ClosingInv` restate `HandleInv` with equations
for the Boolean fields, the form the SMT backend can use.

*UvTcp implements GracefulConn.* By `IInv` every operator lets the output grow and keeps
what a broken connection sent (`Grows`: `WriteGrows`, `UvWriteGrows`, `StreamIoGrows`); an
action changes one handle, and its image is a step of the abstract connection or none
(`ServeStep`, `CloseStep`, `IdleState`). `Close` is where the invariant is needed: the
drain that calls `shutdown_cb` finds an empty queue, so what was given and what was
sent are equal if the peer is there.

*HttpFraming.* `Client` is recursive in the number of pieces. `ClientOfAppend`, that the
client of `Append(s, p)` is the client of `s` after it read `p`, is an induction over
numbers. The library's theorems of induction take an operator and cannot be used
here, so the induction is over a set of numbers (`SetInduction`), from the fact that a
set of numbers has a least element (`Least`).

*HttpResponse.* What a client reads depends on all messages written so far, so `ReadInv`
says what it has made of the output at every moment, whether the encoding is chunked or not,
and `PiecesInv` which piece carries the header block and how each is framed. A write
adds a piece; a lemma for each kind of piece says what one more does to the client.

*HttpRequest.* Whether the process dies is a matter of counting (`CountInv`): the parser
reports a name once more than it is cut, and a value likewise, so the lists differ
by the difference of the cuts, and by one between a name and its value. Counting
needs that every cut is a new one: `CutsInv` orders the places of a message
(`Rank`) and says that all recorded cuts lie behind the parser, or at the beginning of
the line it is at, if that continues a value. The same order makes
the last cut of a URL the one that counts (`UrlInv`). `PlaceInv` ties the number of
handlers that ran to the place of the parser, and `EventsInv` says which handler set
the fields of `res`, not only where events went. The three actions that report a text
share their lemmas (`TextAt`, `TextCuts`, `TextPlace`): either the text is whole
(`Whole`), or there is one cut more (`CutAt`).

While no header of the connection was cut, the two lists hold what was reported
(`BegunIsCut`: a value the parser is in the middle of, or continues, was cut):
`HeadersInv` says that `header_map` of them, without the name that waits for its value,
is the map of the first values over the places the parser has passed (`Seen`). A
value adds one pair at the head of the lists and one place behind all others: `MapMore`
and `FirstValuesMore` say what that does to either side, and it is the same. A list has a
last occurrence of a name, and a set of places a first one, because sets of
numbers have least elements. As a cut is never taken back, nothing has to be known of
the lists after one.

*HttpServer implements UvTcp.* Most steps are steps of `UvTcp` as they stand, or change
nothing of it. A write of a handler must be a string, which is what `HandlerInv` says of
the operations in `todo`, and must be one of the at most `MaxWrites` writes of a
connection: each request and each body part adds to a budget of its connection what
its handlers may write, the end of the message included, and `Budget` says that what
was written and what is left to do stay within it. A new connection at an address
starts with a new `res` and nothing written. `SameTcp` identifies the actions of the
instance with those of `UvTcpProofs`, whose invariant then holds for every handle of
the server (`TcpInvAlways`).

*What the servers answer.* `OutputInv` has two parts. `PieceInv`: everything given to
`uv_write` is a chunk, the first with the header block; a client never finds a prefix of
that malformed. `AnswerInv`: on an open connection nothing was asked yet, or what was
said and what the running handler has left to do together make the answer to the
first request (`Asked`, `AnsweringStatic`, `AnsweringServer`), or the answer is complete
and whatever follows is extra (`Answered`); and only in the last case was the
connection ended. What was given has all been sent when the connection closes with its peer
there, which is the invariant of `UvTcp` again.

*HttpClient.* A request changes only by the operators of the module; `RequestInv` says for
one request what its stage says about the rest of it: who owns the buffer, whether the
timer runs, how often the callback ran, whether the handle is on its way to be freed;
that it has been freed when the program ends follows from the guard of `LoopEnds`. `NumbersTellApart` splits the
numbers into those of a system (above -3000), of the resolver and of libuv;
`ErrorsIdentified` adds that the number told is that of the error, and that the position of
a name in `uv_errno_t` is found again by its number.

*CamlHeap.* `ConnectionKeepsValues` needs that what the closure refers to is where a root
or `execute` finds it (`KeptInv`); `ChainBalanced` that `frame` is the chain before the
packet, and that both are the history of early returns (`ChainInv`); `StaleOnlyIfMoved` needs, for each copy and each place, that it is
right unless a collection since the copy found its value in the minor heap or was a
compaction (`CopyInv`, `CopiesInv`), and that `promoted` only holds values outside the
minor heap. `CollectInv` says once what a collection does to these.

*HttpParser.* `ParserInv` relates the memory, the depth and the history: while an
execution is on the stack nothing was finalised, and without nested ones `data` is
the frame of the only execution. `ReturnedInv` is proved from lemmas on the tables
(one per table), on `unpack` and on `fields`. `ErrorsMisread` compares the two enumerations
position by position: the first nine, the callbacks for chunks where there are any, the
rest of the table in its place or somewhere behind it, and what no table knows.

Only model-checked: the liveness properties (`EndedIsFreed`, `CompleteIsServed`,
`Settles`), which are out of the prover's reach. Every invariant and refinement that a
run finds to hold is proved for all values of the constants.

## 5. Not modelled

* Memory exhaustion: every `malloc` succeeds.
* `uv_shutdown_t` of a refused shutdown is leaked (127); no property depends on it.
* Bytes: partial writes, header formatting, dates, content types. Response
  headers end in `\n`, chunks in `\r\n`.
* `Http.listen` retries nothing: a failed bind is only logged. `Listen` has the two
  outcomes that matter, serving and returning.
* Chunked request bodies: `execute` leaves the members `on_chunk_header` and
  `on_chunk_complete` of the settings uninitialised if the http_parser of the
  submodule has them; which version it is cannot be seen in the repository.
* The read buffers of `alloc_cb`: one per call, freed by the next.
* `url_str` of `parse_url` up to its NUL is the URL; `method_code` and `status_code` return
  whatever their unset pointer points to or fault (`Unset`), which no property
  could say more about.
* What happens after a stale address was used, a dead frame walked into, or an
  exception or a signal ended the process: every liveness property excuses the end of
  the process.
* SIGPIPE on the client side: a request is written once, when its connection is made;
  the process may end at that time anyway (`frame_overwritten`).
* A header line that continues a value and consists of spaces only.
* Two calls of `request` at the same depth: that the frame of the first is overwritten may
  also end the process (`frame_overwritten`), as any later call may do.
* The declarations of `uv.h`, `uv-unix.h` and the other headers, but for the error
  numbers: they are vendored and hold no logic of this program. `uv-win.h`,
  `uv-darwin.h` and `uv-sunos.h` are for other systems.
* `build_script.re` and `test.js`, which are not part of the program.

## 6. State of the plan

Done: `UvTcp`, `GracefulConn`; `HttpRequest`; `HttpFraming`, `HttpResponse`; `HttpServer`;
`HttpClient`, `UvErrno`; `CamlHeap`; `HttpParser`; the proofs above.

Left: only the liveness properties have no proof. Of the parts of section 5, the leaked
`uv_shutdown_t` and a failed `uv_accept` (`Http.re` 187) could be added to `UvTcp`.
