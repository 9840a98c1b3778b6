------------------------------ MODULE CamlHeap ------------------------------
(***************************************************************************)
(* The OCaml values the C stubs hold: the closure of one connection of a   *)
(* server, from connection_cb to close_cb, with the packets its parser     *)
(* executes, and the closure of one request of a client.                   *)
(*                                                                         *)
(* A collection moves values: out of the minor heap when they survive it,  *)
(* within the major heap when it is compacted.  It knows the slots that    *)
(* were registered and updates those.  What C code copied elsewhere is     *)
(* then an address where the value no longer is.  It also walks the list   *)
(* of local roots, which a C function that returns without CAMLreturn      *)
(* leaves pointing into its dead frame.                                    *)
(***************************************************************************)
EXTENDS Naturals

CONSTANTS
  MaxAddr,    \* bound: how many addresses a value may have in its life
  MaxChain    \* bound: how many dead frames may be counted

ASSUME BoundsAssumption ==
  /\ MaxAddr \in Nat /\ MaxAddr >= 2
  /\ MaxChain \in Nat /\ MaxChain >= 1

VARIABLES
  pc,       \* where the only thread is
  addr,     \* the address of each value: 0 if it is not in the heap, 1 in
            \* the minor heap, a new one each time it moves
  slot,     \* the addresses the C code holds
  conn,     \* the connection of the server: "none", "open" or "closed"
  native,   \* the malloc'ed http_parser
  chain,    \* dead frames in the list of local roots
  lost,     \* history: the frames that returns of client_read_cb left there
  frame,    \* caml__frame of execute: the list when it was entered
  client,   \* the request: "none", "connecting", "open" or "over"
  hits,     \* history: the collections since read_cb was called; "client":
            \* one since the request was made
  promoted  \* history: the values that were in the major heap when read_cb
            \* was called, or were put there by it

vars ==
  <<pc, addr, slot, conn, native, chain, lost, frame, client, hits, promoted>>

----------------------------------------------------------------------------
(***************************************************************************)
(* cb     the closure of requestOn, which refers to the parser and to the  *)
(*        settings;  on: the closures of the settings;  parser: the block  *)
(*        with the finaliser;  data: the string of a packet                *)
(* ccb    the closure given to Http.request, allocated in the heap because *)
(*        it captures something                                            *)
(***************************************************************************)
Values == {"cb", "on", "parser", "data", "ccb"}

(* The C variable, and the value whose address it holds. *)
Target ==
  [handle |-> "cb", local_cb |-> "cb", settings_on |-> "on",
   settings_parser |-> "parser", local_data |-> "data",
   tcp_data |-> "ccb", frame_cb |-> "ccb", local_ccb |-> "ccb"]

Slots == DOMAIN Target

(* Mutant: the closure captures the pointer to the parser, not its block.  *)
closure_of_native == {"on"}

(* What the closure of requestOn refers to. *)
closure == {"on", "parser"}

(* Mutant: the string is not a parameter known to the collector. *)
CAMLparam2_execute == {"parser", "on"}

CAMLparam3_execute == {"parser", "on", "data"}

InExecute == pc \in {"exec", "text", "in_text", "in_event"}

(* The callback was entered at the address where the value is. *)
Valid(s) == slot[s] # 0 /\ slot[s] = addr[Target[s]]

(* The fields registered by caml_register_global_root: the one of a handle *)
(* until close_cb removes it, and a variable of request for ever, after    *)
(* the frame is gone too.                                                  *)
request_on == IF conn = "open" THEN {"handle"} ELSE {}

Registered ==
  request_on \cup (IF slot["frame_cb"] # 0 THEN {"frame_cb"} ELSE {})

Live ==
  LET roots == {Target[s] : s \in Registered}
                 \cup (IF InExecute THEN CAMLparam3_execute ELSE {})
  IN  roots \cup (IF "cb" \in roots THEN closure ELSE {})

----------------------------------------------------------------------------
Init ==
  /\ pc = "loop"
  /\ addr = [v \in Values |-> 0]
  /\ slot = [s \in Slots |-> 0]
  /\ conn = "none" /\ native = "none" /\ client = "none"
  /\ chain = 0 /\ lost = 0 /\ frame = 0
  /\ hits = {} /\ promoted = {}

caml_http_parser_free(n) == IF n = "allocated" THEN "freed" ELSE "freed twice"

(***************************************************************************)
(* What a collection does to a value.  A minor collection leaves the major *)
(* heap alone and keeps a parser, dead or not, for its finaliser; any      *)
(* other drops what is not live; a compaction moves what it keeps.         *)
(***************************************************************************)
Kept(kind, v) ==
  v \in Live \/ (kind = "minor" /\ (addr[v] > 1 \/ v = "parser"))

Moved(kind, v) ==
  IF addr[v] = 0 \/ ~Kept(kind, v) THEN 0
  ELSE IF addr[v] = 1 \/ kind = "compaction" THEN addr[v] + 1 ELSE addr[v]

(* Where a collection finds the C code. *)
Place ==
  IF InExecute THEN (IF chain > 0 THEN "dangling" ELSE "execute") ELSE "alloc"

Alive == pc \notin {"stale_server", "stale_client", "dead_frames"}

(* Every place where OCaml code runs or C code allocates. *)
CanCollect ==
  pc \in {"loop", "read", "text", "in_text", "in_event",
          "client_read", "client_end", "in_client", "in_end"}

CollectionsSeen(kind) ==
  {Place} \cup (IF kind = "compaction" THEN {kind} ELSE {})
          \cup (IF client # "none" THEN {"client"} ELSE {})

Collect ==
  /\ CanCollect
  /\ \A v \in Values : addr[v] < MaxAddr
  /\ \E kind \in {"minor", "major", "compaction"} :
       /\ addr' = [v \in Values |-> Moved(kind, v)]
       /\ slot' = [s \in Slots |->
                     IF s \in Registered THEN addr'[Target[s]] ELSE slot[s]]
       /\ native' = IF addr["parser"] # 0 /\ addr'["parser"] = 0
                    THEN caml_http_parser_free(native) ELSE native
       /\ hits' = hits \cup CollectionsSeen(kind)
  /\ UNCHANGED <<pc, conn, chain, lost, frame, client, promoted>>

(* The collector follows the list of local roots through frames that are   *)
(* gone, or updates a variable of request that is: anything may happen.    *)
CollectsDeadFrames ==
  /\ CanCollect
  /\ chain > 0 \/ (client # "none" /\ slot["frame_cb"] = 0)
  /\ pc' = "dead_frames"
  /\ hits' = hits \cup CollectionsSeen("minor")
  /\ UNCHANGED <<addr, slot, conn, native, chain, lost, frame, client>>
  /\ UNCHANGED promoted

----------------------------------------------------------------------------
(* The server. *)

(* The thread goes to another place. *)
Goto(place) ==
  /\ pc' = place
  /\ UNCHANGED <<addr, slot, conn, native, frame, hits, promoted>>

(* A closure is called through addresses the C code holds. *)
Call(slots, place, stale) ==
  Goto(IF \A s \in slots : Valid(s) THEN place ELSE stale)

Copied == {"local_data", "settings_on", "settings_parser"}

(* The settings are allocated first, then the parser, then the closure;    *)
(* any of them may be in the major heap by the end.                        *)
ConnectionAccepted ==
  /\ pc = "loop" /\ conn = "none"
  /\ \E on, parser, cb \in 1 .. 2 :
       /\ on >= parser /\ parser >= cb
       /\ addr' = [addr EXCEPT !["on"] = on, !["parser"] = parser,
                               !["cb"] = cb]
       /\ slot' = [slot EXCEPT !["handle"] = cb]
  /\ conn' = "open"
  /\ native' = "allocated"
  /\ UNCHANGED <<pc, chain, lost, frame, client, hits, promoted>>

(* read_cb loads the closure before it allocates the string. *)
read_cb ==
  /\ pc = "loop" /\ conn = "open"
  /\ slot' = [slot EXCEPT !["local_cb"] = slot["handle"]]
  /\ hits' = hits \cap {"client"}
  /\ promoted' = {v \in {"cb", "on", "parser"} : addr[v] > 1}
  /\ pc' = "read"
  /\ UNCHANGED <<addr, conn, native, chain, lost, frame, client>>

(* A string of more than 256 words goes to the major heap at once. *)
caml_alloc_initialized_string ==
  /\ pc = "read"
  /\ \E data \in 1 .. 2 :
       /\ addr' = [addr EXCEPT !["data"] = data]
       /\ promoted' = promoted \cup (IF data > 1 THEN {"data"} ELSE {})
  /\ pc' = "call"
  /\ UNCHANGED <<slot, conn, native, chain, lost, frame, client, hits>>

(* The closure calls execute, which copies the fields of the settings, the *)
(* parser and the address of the characters.                               *)
execute ==
  /\ pc = "call"
  /\ IF Valid("local_cb")
     THEN /\ pc' = "exec"
          /\ slot' = [slot EXCEPT !["settings_on"] = addr["on"],
                                  !["settings_parser"] = addr["parser"],
                                  !["local_data"] = addr["data"]]
     ELSE pc' = "stale_server" /\ UNCHANGED slot
  /\ frame' = chain
  /\ UNCHANGED <<addr, conn, native, chain, lost, client, hits, promoted>>

(* The parser reads characters up to the end of a text and reports it: the *)
(* function allocates a string, which it then fills.                       *)
on_text_cb ==
  /\ pc = "exec"
  /\ Call({"local_data"}, "text", "stale_server")
  /\ UNCHANGED <<chain, lost, client>>

(* It copies the characters and calls the closure of the settings. *)
caml_callback3 ==
  /\ pc = "text"
  /\ Call(Copied, "in_text", "stale_server")
  /\ UNCHANGED <<chain, lost, client>>

(* A dead frame more, up to the bound. *)
OneMore(n) == IF n < MaxChain THEN n + 1 ELSE n

(* It returns without CAMLreturn. *)
text_returns ==
  /\ pc = "in_text"
  /\ Goto("exec")
  /\ chain' = OneMore(chain)
  /\ UNCHANGED <<lost, client>>

(* on_message_begin, on_headers_complete and on_message_complete: nothing  *)
(* is allocated and there are no local roots.                              *)
on_event_cb ==
  /\ pc = "exec"
  /\ Call(Copied, "in_event", "stale_server")
  /\ UNCHANGED <<chain, lost, client>>

event_returns ==
  /\ pc = "in_event"
  /\ Goto("exec")
  /\ UNCHANGED <<chain, lost, client>>

(* Mutant: execute returns without CAMLreturn. *)
return_plain == chain

(* CAMLreturn puts the list of local roots back. *)
CAMLreturn_execute == frame

execute_returns ==
  /\ pc = "exec"
  /\ Goto("loop")
  /\ chain' = CAMLreturn_execute
  /\ UNCHANGED <<lost, client>>

(* Mutant: the native parser is freed with the handle. *)
close_cb_frees_parser == native' = caml_http_parser_free(native)

(* The parser stays until its block is collected. *)
close_cb_native == native' = native

close_cb ==
  /\ pc = "loop" /\ conn = "open"
  /\ conn' = "closed"
  /\ slot' = [slot EXCEPT !["handle"] = 0]
  /\ close_cb_native
  /\ UNCHANGED <<pc, addr, chain, lost, frame, client, hits, promoted>>

----------------------------------------------------------------------------
(* The client. *)

(* Mutant: the closure is not stored in the handle. *)
request_data_unset(a) == [slot EXCEPT !["frame_cb"] = a]

(* The closure is stored in the handle; the variable registered as a root  *)
(* is the parameter of request.                                            *)
request_data(a) == [slot EXCEPT !["frame_cb"] = a, !["tcp_data"] = a]

request ==
  /\ pc = "loop" /\ client = "none"
  /\ \E ccb \in 1 .. 2 :
       /\ addr' = [addr EXCEPT !["ccb"] = ccb]
       /\ slot' = request_data(ccb)
  /\ client' = "connecting"
  /\ hits' = hits \ {"client"}
  /\ UNCHANGED <<pc, conn, native, chain, lost, frame, promoted>>

(* Later calls use the stack where the frame of request was. *)
FrameOverwritten ==
  /\ slot["frame_cb"] # 0
  /\ Alive
  /\ slot' = [slot EXCEPT !["frame_cb"] = 0]
  /\ UNCHANGED <<pc, addr, conn, native, chain, lost, frame, client, hits>>
  /\ UNCHANGED promoted

client_connect_cb ==
  /\ pc = "loop" /\ client = "connecting"
  /\ \/ Goto("loop") /\ client' = "open"
     \/ Call({"tcp_data"}, "in_client", "stale_client") /\ client' = "over"
  /\ UNCHANGED <<chain, lost>>

(* client_read_cb returns without CAMLreturn: one more dead frame. *)
EarlyReturn == chain' = OneMore(chain) /\ lost' = OneMore(lost)

(* client_read_cb loads the closure before it allocates the string, with   *)
(* data or at the end of the stream, after which it is not called again.   *)
(* With nothing read it returns early and the stream stays open.           *)
client_read_cb ==
  /\ pc = "loop" /\ client = "open"
  /\ slot' = [slot EXCEPT !["local_ccb"] = slot["tcp_data"]]
  /\ \/ pc' = "client_read" /\ UNCHANGED <<client, chain, lost>>
     \/ pc' = "client_end" /\ client' = "over" /\ UNCHANGED <<chain, lost>>
     \/ EarlyReturn /\ UNCHANGED <<pc, client>>
  /\ UNCHANGED <<addr, conn, native, frame, hits, promoted>>

client_callback ==
  /\ pc \in {"client_read", "client_end"}
  /\ Call({"local_ccb"}, IF pc = "client_read" THEN "in_client" ELSE "in_end",
          "stale_client")
  /\ UNCHANGED <<chain, lost, client>>

(* At the end of the stream it returns early too. *)
client_returns ==
  /\ pc \in {"in_client", "in_end"}
  /\ Goto("loop")
  /\ IF pc = "in_end" THEN EarlyReturn ELSE UNCHANGED <<chain, lost>>
  /\ UNCHANGED client

----------------------------------------------------------------------------
Next ==
  \/ Collect \/ CollectsDeadFrames
  \/ ConnectionAccepted \/ read_cb \/ caml_alloc_initialized_string \/ execute
  \/ on_text_cb \/ caml_callback3 \/ text_returns
  \/ on_event_cb \/ event_returns \/ execute_returns \/ close_cb
  \/ request \/ FrameOverwritten
  \/ client_connect_cb \/ client_read_cb \/ client_callback \/ client_returns

Spec == Init /\ [][Next]_vars

----------------------------------------------------------------------------
(* Properties. *)

(* Every slot holds an address; the native parser is never freed twice.    *)
TypeOK ==
  /\ pc \in {"loop", "read", "call", "exec", "text", "in_text", "in_event",
             "client_read", "client_end", "in_client", "in_end",
             "stale_server", "stale_client", "dead_frames"}
  /\ addr \in [Values -> 0 .. MaxAddr]
  /\ slot \in [Slots -> 0 .. MaxAddr]
  /\ conn \in {"none", "open", "closed"}
  /\ native \in {"none", "allocated", "freed"}
  /\ chain \in 0 .. MaxChain /\ lost \in 0 .. MaxChain
  /\ frame \in 0 .. MaxChain
  /\ client \in {"none", "connecting", "open", "over"}
  /\ hits \subseteq {"alloc", "execute", "dangling", "compaction", "client"}
  /\ promoted \subseteq {"cb", "on", "parser", "data"}

(* As long as a connection is not closed its handle holds the address of   *)
(* its closure, everything the closure refers to is in the heap, and the   *)
(* http_parser, which only the finaliser frees (HttpParser.ml:102), is     *)
(* allocated, also while a packet is parsed: the collections between two   *)
(* packets do no harm.                                                     *)
ConnectionKeepsValues ==
  /\ conn = "open" => Valid("handle") /\ addr["on"] # 0 /\ addr["parser"] # 0
  /\ conn = "open" \/ InExecute => native = "allocated"

(* Between two callbacks, and where execute will put the list of local     *)
(* roots back to, it holds the dead frames of client_read_cb and no other: *)
(* one for each time a client's stream ended or nothing was read of it,    *)
(* none of the texts of packets.  A server that is not a client as well    *)
(* lets the collector walk into dead frames only after a text of the same  *)
(* packet was reported.                                                    *)
ChainBalanced ==
  /\ pc = "loop" => chain = lost
  /\ InExecute => frame = lost
  /\ pc = "dead_frames" /\ client = "none" => "dangling" \in hits

(* The server uses a stale address only in a packet during which its       *)
(* values moved: the closure, while the string was allocated; or one of    *)
(* what execute copied, in a callback.  A connection whose values are in   *)
(* the major heap, with a long packet, survives all but a compaction.      *)
StaleOnlyIfMoved ==
  pc = "stale_server" =>
    \/ "compaction" \in hits
    \/ "alloc" \in hits /\ "cb" \notin promoted
    \/ hits \cap {"execute", "dangling"} # {}
         /\ ~({"on", "parser", "data"} \subseteq promoted)

(* The callback of a request is called at a stale address only if there    *)
(* was a collection since the request; until one the handle's field, which *)
(* is no root, holds its address.                                          *)
ClientNeedsNoCollection ==
  /\ pc = "stale_client" => "client" \in hits
  /\ client # "none" /\ "client" \notin hits => Valid("tcp_data")

(***************************************************************************)
(* The inductive strengthening of the invariants above.                    *)
(***************************************************************************)
InServer == InExecute \/ pc \in {"read", "call"}

(* The native parser lives exactly as long as its block.                   *)
KeptInv ==
  /\ ConnectionKeepsValues
  /\ addr["parser"] # 0 <=> native = "allocated"
  /\ InServer => conn = "open"
  /\ InExecute \/ pc = "call" => addr["data"] # 0

ChainInv ==
  /\ ChainBalanced
  /\ Alive /\ ~InExecute => chain = lost
  /\ lost > 0 => client \in {"open", "over"}
  /\ pc \in {"client_end", "in_end"} => client = "over"

(* A value in the major heap is moved by nothing but a compaction, so that *)
(* a copy of its address is valid until then; any other copy until the     *)
(* first collection.                                                       *)
CopyInv(s, places) ==
  \/ Valid(s)
  \/ "compaction" \in hits
  \/ hits \cap places # {} /\ Target[s] \notin promoted

CopiesInv ==
  /\ StaleOnlyIfMoved
  /\ InServer => \A v \in promoted : addr[v] > 1
  /\ pc = "read" => "data" \notin promoted
  /\ pc \in {"read", "call"} => CopyInv("local_cb", {"alloc"})
  /\ InExecute => \A s \in Copied : CopyInv(s, {"execute", "dangling"})

ClientInv ==
  /\ ClientNeedsNoCollection
  /\ pc \in {"client_read", "client_end"} =>
       client # "none" /\ slot["local_ccb"] = slot["tcp_data"]

IInv == TypeOK /\ KeptInv /\ ChainInv /\ CopiesInv /\ ClientInv
=============================================================================
