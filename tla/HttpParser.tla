------------------------------ MODULE HttpParser ------------------------------
(***************************************************************************)
(* The parser bindings as a library: every function of HttpParser.ml, as a *)
(* program may call it at its top level or in a callback of execute, on    *)
(* one parser.  Http.re uses init and execute alone, with callbacks that   *)
(* call none of these.                                                     *)
(*                                                                         *)
(* OCaml and C number the members of an enumeration by position: an OCaml  *)
(* constructor is translated through a table of http_parser_stubs.c, but   *)
(* what the native parser holds is returned as its C number.               *)
(***************************************************************************)
EXTENDS Naturals, Sequences, SequencesExt

CONSTANTS
  Libraries,   \* the orders of enum http_errno in releases of the library
  Width,       \* a URL's offsets and lengths are kept modulo Width (2^16)
  MaxUrl,      \* bound: the length of a URL
  MaxDepth     \* bound: executions nested in callbacks

ASSUME BoundsAssumption ==
  Width \in Nat \ {0} /\ MaxUrl \in Nat /\ MaxDepth \in Nat \ {0}

VARIABLES
  proc,      \* "up", or why the program went wrong
  lib,       \* the release the program is linked with
  mem,       \* the malloc'ed http_parser
  errno,     \* its http_errno
  depth,     \* how many executions of it are on the stack
  data,      \* its data: which of them it points into
  inCb,      \* is the innermost one in a callback?
  freed,     \* history: the program called free itself
  nested,    \* history: a callback called execute on its parser
  returned   \* what the last function called returned

vars ==
  <<proc, lib, mem, errno, depth, data, inCb, freed, nested, returned>>

----------------------------------------------------------------------------
(* The enumerations of HttpParser.ml. *)

http_method ==
  <<"DELETE", "GET", "HEAD", "POST", "PUT", "CONNECT", "OPTIONS", "TRACE",
    "COPY", "LOCK", "MKCOL", "MOVE", "PROPFIND", "PROPPATCH", "SEARCH",
    "UNLOCK", "REPORT", "MKACTIVITY", "CHECKOUT", "MERGE", "MSEARCH",
    "NOTIFY", "SUBSCRIBE", "UNSUBSCRIBE", "PATCH", "PURGE">>

http_errno ==
  <<"OK", "CB_message_begin", "CB_status_complete", "CB_url",
    "CB_header_field", "CB_header_value", "CB_headers_complete", "CB_body",
    "CB_message_complete", "INVALID_EOF_STATE", "HEADER_OVERFLOW",
    "CLOSED_CONNECTION", "INVALID_VERSION", "INVALID_STATUS",
    "INVALID_METHOD", "INVALID_URL", "INVALID_HOST", "INVALID_PORT",
    "INVALID_PATH", "INVALID_QUERY_STRING", "INVALID_FRAGMENT",
    "LF_EXPECTED", "INVALID_HEADER_TOKEN", "INVALID_CONTENT_LENGTH",
    "INVALID_CHUNK_SIZE", "INVALID_CONSTANT", "INVALID_INTERNAL_STATE",
    "STRICT", "PAUSED", "UNKNOWN">>

http_parser_type == <<"HTTP_REQUEST", "HTTP_RESPONSE", "HTTP_BOTH">>

http_parser_url ==
  <<"schema", "host", "port", "path", "query", "fragment", "userinfo">>

(* The tables of http_parser_stubs.c, by the names of the C constants. *)

HTTP_PARSER_TYPE_TABLE == <<"HTTP_REQUEST", "HTTP_RESPONSE", "HTTP_BOTH">>

(* Mutant: two methods in another order than the constructors. *)
HTTP_METHOD_TABLE_swapped == [http_method EXCEPT ![1] = "GET", ![2] = "DELETE"]

HTTP_METHOD_TABLE ==
  <<"DELETE", "GET", "HEAD", "POST", "PUT", "CONNECT", "OPTIONS", "TRACE",
    "COPY", "LOCK", "MKCOL", "MOVE", "PROPFIND", "PROPPATCH", "SEARCH",
    "UNLOCK", "REPORT", "MKACTIVITY", "CHECKOUT", "MERGE", "MSEARCH",
    "NOTIFY", "SUBSCRIBE", "UNSUBSCRIBE", "PATCH", "PURGE">>

HTTP_ERRNO_TABLE ==
  <<"OK", "CB_message_begin", "CB_status", "CB_url", "CB_header_field",
    "CB_header_value", "CB_headers_complete", "CB_body",
    "CB_message_complete", "INVALID_EOF_STATE", "HEADER_OVERFLOW",
    "CLOSED_CONNECTION", "INVALID_VERSION", "INVALID_STATUS",
    "INVALID_METHOD", "INVALID_URL", "INVALID_HOST", "INVALID_PORT",
    "INVALID_PATH", "INVALID_QUERY_STRING", "INVALID_FRAGMENT",
    "LF_EXPECTED", "INVALID_HEADER_TOKEN", "INVALID_CONTENT_LENGTH",
    "INVALID_CHUNK_SIZE", "INVALID_CONSTANT", "INVALID_INTERNAL_STATE",
    "STRICT", "PAUSED", "UNKNOWN">>

(* The errors of the callbacks, which the tables refer to, are in every    *)
(* release.                                                                *)
CallbackErrors ==
  {"CB_message_begin", "CB_status", "CB_url", "CB_header_field",
   "CB_header_value", "CB_headers_complete", "CB_body", "CB_message_complete"}

ASSUME LibrariesAssumption ==
  \A order \in Libraries :
    /\ order[1] = "OK" /\ IsInjective(order)
    /\ {"OK", "PAUSED"} \cup CallbackErrors \subseteq Range(order)

(* Its first errors, and what is known of the others: a release without    *)
(* callbacks for chunks has them where OCaml has them; one with callbacks  *)
(* for chunks has the errors of these before them, may have new ones in    *)
(* between (UNEXPECTED_CONTENT_LENGTH) and thus has them further back.     *)
(* Either may have new ones after them.                                    *)
FirstErrors ==
  <<"OK", "CB_message_begin", "CB_url", "CB_header_field", "CB_header_value",
    "CB_headers_complete", "CB_body", "CB_message_complete", "CB_status">>

Chunks(order) == "CB_chunk_header" \in Range(order)

ASSUME OrderAssumption ==
  \A order \in Libraries :
    /\ order \in Seq(Range(order)) /\ Len(order) >= 30
    /\ \A k \in 1 .. 9 : order[k] = FirstErrors[k]
    /\ \A k \in 10 .. 30 :
         IF Chunks(order)
         THEN \E n \in k + 1 .. Len(order) : order[n] = http_errno[k]
         ELSE order[k] = http_errno[k]
    /\ "undefined" \notin Range(order)

(* Beyond the end of a table there is something else. *)
ml2c(table, v) == IF v < Len(table) THEN table[v + 1] ELSE "undefined"

(* The number of an error in the library, and the constructor OCaml takes  *)
(* the number n for.                                                       *)
Number(e) == CHOOSE n \in 0 .. Len(lib) - 1 : lib[n + 1] = e

Constructor(n) ==
  IF n < Len(http_errno) THEN http_errno[n + 1] ELSE "undefined"

(* The C constant a constructor stands for. *)
Meant(c) == IF c = "CB_status_complete" THEN "CB_status" ELSE c

----------------------------------------------------------------------------
(* The value a function returns, with what it was asked. *)
Nothing == [kind |-> "none", asked |-> 0, value |-> 0]

Returns(kind, asked, value) ==
  returned' = [kind |-> kind, asked |-> asked, value |-> value]

Init ==
  /\ proc = "up" /\ lib \in Libraries
  /\ mem = "none" /\ errno = "OK"
  /\ depth = 0 /\ data = 0 /\ inCb = FALSE
  /\ freed = FALSE /\ nested = FALSE
  /\ returned = Nothing

(* The program runs: at its top level or in a callback of execute. *)
InProgram == proc = "up" /\ (depth = 0 \/ inCb)

native == <<lib, mem, errno, depth, data, inCb, freed, nested>>

(* A function that reads the parser and changes nothing. *)
Reads(kind, asked, value) ==
  /\ InProgram /\ mem # "none"
  /\ proc' = IF mem = "live" THEN "up" ELSE "use after free"
  /\ Returns(kind, asked, value)
  /\ UNCHANGED native

----------------------------------------------------------------------------
(***************************************************************************)
(* Functions without a parser.  What they return does not depend on the    *)
(* parser nor on other calls, so it is enough to call one of them first.   *)
(***************************************************************************)
First == mem = "none" /\ returned = Nothing

Pure(kind, asked, value) ==
  /\ Returns(kind, asked, value)
  /\ UNCHANGED <<proc, native>>

caml_http_method_str ==
  First /\ \E m \in 1 .. Len(http_method) :
    Pure("method", http_method[m], ml2c(HTTP_METHOD_TABLE, m - 1))

(* The description belongs to the same C constant as the name. *)
caml_http_errno_name ==
  First /\ \E e \in 1 .. Len(http_errno) :
    Pure("name", http_errno[e], ml2c(HTTP_ERRNO_TABLE, e - 1))

(* The library's number of its version. *)
http_parser_version(v) == v[1] * 65536 + v[2] * 256 + v[3]

unpack(n) == <<(n \div 65536) % 256, (n \div 256) % 256, n % 256>>

caml_http_parser_version ==
  First /\ \E v \in {0, 1, 2, 255} \X {0, 9, 255} \X {0, 4, 255} :
    Pure("version", v, unpack(http_parser_version(v)))

(* The fields of http_parser_url in the library, by number. *)
UF == <<"schema", "host", "port", "path", "query", "fragment", "userinfo">>

(* A field: not a string at all, or the part of the URL it holds, or       *)
(* whatever is where the URL was before a collection moved it.             *)
Val_unit == <<"unit", 0, 0>>
Text(off, len) == <<"text", off, off + len>>
Garbage == <<"garbage", 0, 0>>
Empty == Text(0, 0)

(* Mutant: a field that could not be parsed is copied all the same. *)
fields_unchecked(rc, set, off, len, moved) ==
  [k \in 1 .. 7 |->
     IF UF[k] \notin set THEN Val_unit
     ELSE IF k >= moved THEN Garbage ELSE Text(off % Width, len % Width)]

(* Field k is filled after k allocations; a collection in the moved'th one *)
(* leaves url_str where the URL no longer is.                              *)
fields(rc, set, off, len, moved) ==
  [k \in 1 .. 7 |->
     IF rc # 0 THEN Empty
     ELSE IF UF[k] \notin set THEN Val_unit
     ELSE IF k >= moved THEN Garbage ELSE Text(off % Width, len % Width)]

(* A URL of some size, to its first NUL, and the part of it that every     *)
(* field in the set is: they are copied one by one, so each may be any.    *)
caml_http_parser_parse_url ==
  First /\ \E rc \in 0 .. 1, set \in SUBSET Range(UF), size \in 0 .. MaxUrl,
     moved \in {0, 4, 8} :
    \E off \in 0 .. size : \E len \in 0 .. size - off :
      Pure("url", <<rc, set, size, off, len, moved>>,
           fields(rc, set, off, len, moved))

----------------------------------------------------------------------------
(* The life of the parser. *)

init ==
  /\ InProgram /\ mem = "none"
  /\ mem' = "live"
  /\ \E t \in 1 .. 3 :
       Returns("type", http_parser_type[t],
               ml2c(HTTP_PARSER_TYPE_TABLE, t - 1))
  /\ UNCHANGED <<proc, lib, errno, depth, data, inCb, freed, nested>>

caml_http_parser_free(m) == IF m = "live" THEN "freed" ELSE "freed twice"

(* The function is exported under its own name. *)
free ==
  /\ InProgram /\ mem \in {"live", "freed"}
  /\ mem' = caml_http_parser_free(mem)
  /\ freed' = TRUE
  /\ UNCHANGED <<proc, lib, errno, depth, data, inCb, nested, returned>>

(* Mutant: execute does not keep the parser alive. *)
unreachable_in_execute == TRUE

(* The program has no reference left and no execute holds one. *)
unreachable == depth = 0

finalise ==
  /\ proc = "up" /\ mem \in {"live", "freed"} /\ unreachable
  /\ mem' = caml_http_parser_free(mem)
  /\ proc' = IF mem' = "freed twice" THEN "double free"
             ELSE IF depth = 0 THEN "done" ELSE "up"
  /\ UNCHANGED <<lib, errno, depth, data, inCb, freed, nested, returned>>

(* Mutant: data is not set. *)
execute_leaves_data == data

execute_sets_data == depth + 1

execute ==
  /\ InProgram /\ mem # "none" /\ depth < MaxDepth
  /\ proc' = IF mem = "live" THEN "up" ELSE "use after free"
  /\ depth' = depth + 1
  /\ data' = execute_sets_data
  /\ inCb' = FALSE
  /\ nested' = (nested \/ depth > 0)
  /\ returned' = Nothing
  /\ UNCHANGED <<lib, mem, errno, freed>>

(* The native parser calls nothing once it has an error or is paused. *)
Parsing == proc = "up" /\ depth > 0 /\ ~inCb /\ errno = "OK"

(* A callback of the settings finds its closure where data points. *)
callback ==
  /\ Parsing
  /\ proc' = IF mem # "live" THEN "use after free"
             ELSE IF data = depth THEN "up" ELSE "dead frame"
  /\ inCb' = TRUE
  /\ UNCHANGED <<lib, mem, errno, depth, data, freed, nested, returned>>

(* It returns 0, or what makes the library set the error. *)
callback_returns ==
  /\ proc = "up" /\ inCb
  /\ proc' = IF mem = "live" THEN "up" ELSE "use after free"
  /\ errno' \in {errno} \cup CallbackErrors
  /\ inCb' = FALSE
  /\ UNCHANGED <<lib, mem, depth, data, freed, nested, returned>>

(* on_chunk_header and on_chunk_complete are not set. *)
chunk ==
  /\ Parsing
  /\ Chunks(lib)
  /\ proc' = "unset callback"
  /\ UNCHANGED <<native, returned>>

(* What it parses is wrong. *)
parse_error ==
  /\ Parsing
  /\ errno' \in Range(lib) \ (CallbackErrors \cup
       {"OK", "PAUSED", "CB_chunk_header", "CB_chunk_complete"})
  /\ UNCHANGED <<proc, lib, mem, depth, data, inCb, freed, nested, returned>>

execute_returns ==
  /\ proc = "up" /\ depth > 0 /\ ~inCb
  /\ depth' = depth - 1
  /\ inCb' = (depth > 1)
  /\ UNCHANGED <<proc, lib, mem, errno, data, freed, nested, returned>>

(* The library asserts that there is no error. *)
caml_http_parser_pause ==
  /\ InProgram /\ mem = "live"
  /\ IF errno \in {"OK", "PAUSED"}
     THEN errno' \in {"OK", "PAUSED"} /\ UNCHANGED proc
     ELSE proc' = "assertion" /\ UNCHANGED errno
  /\ returned' = Nothing
  /\ UNCHANGED <<lib, mem, depth, data, inCb, freed, nested>>

----------------------------------------------------------------------------
(* Functions that read the parser. *)

(* Mutant: the numbers are thought to start from 1. *)
errno_code_from_one == Number(errno) + 1

(* The number of the library is returned as it is. *)
errno_code == Number(errno)

caml_http_errno_code == Reads("errno", errno, Constructor(errno_code))

(* The name of the error of the parser, or its description. *)
errno_name ==
  /\ returned.kind = "errno"
  /\ Reads("error name", errno, ml2c(HTTP_ERRNO_TABLE, errno_code))

caml_http_should_keep_alive == \E r \in 0 .. 1 : Reads("keep_alive", 0, r)
caml_http_body_is_final == \E r \in 0 .. 1 : Reads("is_final", 0, r)
caml_http_is_upgrade == \E r \in 0 .. 1 : Reads("upgrade", 0, r)

(* method_code and status_code read through a pointer that was not set,    *)
(* so they return anything or fault.                                       *)
Unset ==
  /\ InProgram /\ mem # "none"
  /\ proc' \in {"up", "unset pointer"}
  /\ Returns("anything", 0, 0)
  /\ UNCHANGED native

caml_http_method_code == Unset
caml_http_status_code == Unset

Next ==
  \/ caml_http_method_str \/ caml_http_errno_name \/ caml_http_parser_version
  \/ caml_http_parser_parse_url
  \/ init \/ free \/ finalise
  \/ execute \/ callback \/ callback_returns \/ chunk \/ parse_error
  \/ execute_returns \/ caml_http_parser_pause
  \/ caml_http_errno_code \/ errno_name
  \/ caml_http_should_keep_alive \/ caml_http_body_is_final
  \/ caml_http_is_upgrade \/ caml_http_method_code \/ caml_http_status_code

Spec == Init /\ [][Next]_vars

----------------------------------------------------------------------------
(* Properties. *)

(* The program is in one of its states and so is the parser; data is set   *)
(* while it is executed (http_parser_stubs.c:316).                         *)
TypeOK ==
  /\ proc \in {"up", "done", "double free", "use after free", "dead frame",
               "unset callback", "unset pointer", "assertion"}
  /\ lib \in Libraries /\ errno \in Range(lib)
  /\ mem \in {"none", "live", "freed", "freed twice"}
  /\ depth \in 0 .. MaxDepth /\ data \in 0 .. MaxDepth
  /\ inCb \in BOOLEAN /\ freed \in BOOLEAN /\ nested \in BOOLEAN
  /\ depth > 0 => data > 0

(* Every table stands in the order of its constructors: a method, an error *)
(* or a type of OCaml is given to the library as the constant it means.    *)
(* The three parts of a version below 256 come back as they were packed.   *)
Translated ==
  /\ returned.kind \in {"method", "name", "type"} =>
       returned.value = Meant(returned.asked)
  /\ returned.kind = "version" => returned.value = returned.asked

(* The errors the number of which is the same in OCaml and in the library. *)
SameNumber ==
  {"OK", "CB_message_begin"} \cup
    (IF Chunks(lib) THEN {}
     ELSE Range(http_errno) \ {"CB_status_complete", "CB_url",
            "CB_header_field", "CB_header_value", "CB_headers_complete",
            "CB_body", "CB_message_complete"})

(* errno_code yields the error of the parser, and its name is found, only  *)
(* where the library's enumeration happens to agree with OCaml's: never    *)
(* for an error of another callback than on_message_begin, and with chunk  *)
(* callbacks for no other error at all.                                    *)
ErrorMisread ==
  /\ returned.kind = "errno" =>
       (Meant(returned.value) = returned.asked
          <=> returned.asked \in SameNumber)
  /\ returned.kind = "error name" =>
       (returned.value = returned.asked <=> returned.asked \in SameNumber)

(* Every field of a URL that could not be parsed is the empty string; of   *)
(* one that could, a field the URL has not is no string at all, and one it *)
(* has is its part if no collection came before and it lies in the first   *)
(* Width characters.  In a longer URL too no part reaches beyond the end.  *)
UrlFieldsRight ==
  returned.kind = "url" =>
    LET url(rc, set, size, off, len, moved) ==
          \A k \in 1 .. 7 :
            LET f == returned.value[k]
            IN  /\ IF rc # 0 THEN f = Text(0, 0)
                   ELSE IF http_parser_url[k] \notin set THEN f = Val_unit
                   ELSE moved > 7 /\ size < Width => f = Text(off, len)
                /\ f[1] = "text" => f[3] <= size
        q == returned.asked
    IN  url(q[1], q[2], q[3], q[4], q[5], q[6])

(* A parser is freed twice or used after it was freed only if the program  *)
(* calls free, which the finaliser of init does not know of.               *)
FreedOnceUnlessCalled ==
  proc \in {"double free", "use after free"} => freed

(* A callback finds the settings of its own execution, unless a callback   *)
(* calls execute for its parser: the outer execution then goes on with the *)
(* frame of the inner one.                                                 *)
DataOfOwnFrame ==
  /\ proc = "dead frame" => nested
  /\ proc = "up" /\ inCb /\ ~nested => data = depth

(***************************************************************************)
(* The inductive strengthening of the invariants above: while the program  *)
(* runs, only its own call of free has freed the parser, and without a     *)
(* nested execution there is at most one, whose frame data points into.    *)
(***************************************************************************)
ParserInv ==
  /\ proc = "up" /\ mem \in {"freed", "freed twice"} => freed
  /\ inCb => depth > 0
  /\ depth > 0 => mem # "none"
  /\ ~nested => depth <= 1
  /\ ~nested /\ depth > 0 => data = depth

ReturnedInv ==
  /\ Translated
  /\ UrlFieldsRight

IInv ==
  /\ TypeOK
  /\ ParserInv
  /\ FreedOnceUnlessCalled
  /\ DataOfOwnFrame
  /\ ReturnedInv
=============================================================================
