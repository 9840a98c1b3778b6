---------------------------- MODULE HttpRequest ----------------------------
(***************************************************************************)
(* Requests on one connection: http_parser_execute (the http_parser        *)
(* library, not in the repository) run by caml_http_parser_execute on each *)
(* packet, and the closures of Http.createParser it calls back.            *)
(*                                                                         *)
(* A text is an interval <<source, from, to>> of the characters of what    *)
(* the peer sent: the URL of message j, the value on its i-th header line, *)
(* or a header name, which several lines may share.  The library reports a   *)
(* text in as many callbacks as packets it is spread over.  A value may be *)
(* folded over several lines; each line is a text of its own.              *)
(***************************************************************************)
EXTENDS Integers, Sequences, FiniteSets, SequencesExt

CONSTANTS
  Names,        \* header names, each MaxLen characters long
  NoName,       \* instead of a name: the line continues a value
  MaxLen,       \* bound: characters of a URL, a name or a value
  MaxHeaders,   \* bound: header lines of a message
  MaxMessages   \* bound: messages on the connection

ASSUME BoundsAssumption ==
  /\ MaxLen \in Nat \ {0}
  /\ MaxHeaders \in Nat
  /\ MaxMessages \in Nat

ASSUME NameAssumption == NoName \notin Names

VARIABLES
  alive,    \* the process has not died of an exception
  exec,     \* http_parser_execute is running on a packet
  err,      \* the parser met an error: it ignores whatever follows
  sent,     \* the messages the peer sent, the last one perhaps in part
  at,       \* where in that message the parser is
  off,      \* how much of the text there earlier callbacks reported
  url, fields, values,   \* the refs of createParser
  onData, onEnd,   \* the request whose handler set the field of res, or 0
  got,      \* history: what req_cb was called with and what it set
  dataTo, endTo,   \* history: the last event, its message and its receiver
  cuts      \* history: where packets ended inside a text, or lines
            \* inside a value

refs == <<url, fields, values>>
resFields == <<onData, onEnd>>
history == <<got, dataTo, endTo, cuts>>
vars == <<alive, exec, err, sent, at, off, refs, resFields, history>>

----------------------------------------------------------------------------
(* What the peer sends.  A line that starts with a space continues the     *)
(* value of the line before; after an empty value it is that value.        *)
Line == [name : Names \cup {NoName}, len : 0 .. MaxLen]
WellFolded(lines) ==
  \A i \in DOMAIN lines :
    lines[i].name = NoName =>
      i > 1 /\ lines[i].len > 0 /\ lines[i - 1].len > 0
Message ==
  [url     : 1 .. MaxLen,
   headers : {lines \in BoundedSeq(Line, MaxHeaders) : WellFolded(lines)},
   body    : BOOLEAN,
   upgrade : BOOLEAN]

j == Len(sent)
msg == sent[j]

(* The text from character a + 1 to character b of a source. *)
Empty == <<>>
Text(source, a, b) == IF a = b THEN Empty ELSE <<source, a, b>>

(* A place in a message, and the one the parser comes to after it. *)
Place(tok, i) == [tok |-> tok, i |-> i]

Continues(i) == msg.headers[i].name = NoName

(* Mutant: one header too many. *)
NextHeader_too_many(i) ==
  IF i <= Len(msg.headers) THEN Place("field", i + 1) ELSE Place("complete", 0)

NextHeader(i) ==
  IF i = Len(msg.headers) THEN Place("complete", 0)
  ELSE Place(IF Continues(i + 1) THEN "value" ELSE "field", i + 1)

(* A place where the value of the line before goes on: it is cut there. *)
Fold(place) == place.tok = "value" /\ Continues(place.i)
FoldCut(place) == IF Fold(place) THEN {<<j, place, 0>>} ELSE {}

AfterHeaders ==
  Place(IF msg.body /\ ~msg.upgrade THEN "body" ELSE "end", 0)

(***************************************************************************)
(* The parser reports the characters off + 1 .. to of a text of len.       *)
(* Either it saw what delimits the text, or the packet ended inside the    *)
(* text or right after its last character; then the first thing it does    *)
(* with the next packet is to report the rest, even if that is empty.      *)
(***************************************************************************)
Report(len, to, next) ==
  \/ /\ to = len
     /\ off' = 0 /\ at' = next
     /\ cuts' = cuts \cup FoldCut(next)
     /\ UNCHANGED exec
  \/ /\ to \in off + 1 .. len
     /\ off' = to /\ exec' = FALSE
     /\ cuts' = cuts \cup {<<j, at, to>>}
     /\ UNCHANGED at

Parsing(tok) == alive /\ exec /\ at.tok = tok

----------------------------------------------------------------------------
(* The closures of createParser. *)

(* Mutant: a URL fragment is appended to the ones before it. *)
set_url_joined(u) ==
  url' = IF off = 0 THEN u
         ELSE IF u = Empty THEN url ELSE <<u[1], url[2], u[3]>>

set_url(u) == url' = u

push_field(f) == fields' = <<f>> \o fields

(* Mutant: an empty value is dropped. *)
push_nonempty_value(v) ==
  values' = IF v = Empty THEN values ELSE <<v>> \o values

push_value(v) == values' = <<v>> \o values

(* Mutant: pairs are added from the oldest to the newest. *)
header_map_newest(fs, vs) ==
  [f \in Range(fs) |->
     vs[CHOOSE i \in DOMAIN fs :
          fs[i] = f /\ \A n \in 1 .. i - 1 : fs[n] # f]]

(* List.fold_left2 of StringMap.add over two lists of equal length, newest *)
(* entry first: the last pair added for a field is the oldest.             *)
header_map(fs, vs) ==
  [f \in Range(fs) |->
     vs[CHOOSE i \in DOMAIN fs :
          fs[i] = f /\ \A n \in i + 1 .. Len(fs) : fs[n] # f]]

(* Mutant: createParser reads res.onData and res.onEnd itself. *)
receiver_at_creation(current) == 0

(* on_body and on_message_complete call what the field of res holds then.  *)
receiver(current) == current

----------------------------------------------------------------------------
Init ==
  /\ alive = TRUE /\ exec = FALSE /\ err = FALSE
  /\ sent = <<>> /\ at = Place("start", 0) /\ off = 0
  /\ url = Empty /\ fields = <<>> /\ values = <<>>
  /\ onData = 0 /\ onEnd = 0
  /\ got = <<>> /\ dataTo = <<0, 0>> /\ endTo = <<0, 0>> /\ cuts = {}

(* The closure of request_on gets a packet and runs the parser on it.      *)
execute ==
  /\ alive /\ ~exec /\ ~err
  /\ exec' = TRUE
  /\ UNCHANGED <<alive, err, sent, at, off, refs, resFields, history>>

(* The packet ends between two texts.  The end of a message is reported    *)
(* with its last byte.                                                     *)
PacketEnds ==
  /\ alive /\ exec /\ off = 0 /\ at.tok # "end"
  /\ exec' = FALSE
  /\ UNCHANGED <<alive, err, sent, at, off, refs, resFields, history>>

(* The packet is not HTTP.  The result of execute, which says so, is       *)
(* ignored, and later calls of execute return at once.                     *)
ParseError ==
  /\ alive /\ exec /\ at.tok # "end"
  /\ err' = TRUE /\ exec' = FALSE
  /\ UNCHANGED <<alive, sent, at, off, refs, resFields, history>>

on_message_begin ==
  /\ Parsing("start")
  /\ j < MaxMessages
  /\ \E m \in Message : sent' = Append(sent, m)
  /\ at' = Place("url", 0)
  /\ UNCHANGED <<alive, exec, err, off, refs, resFields, history>>

on_url ==
  /\ Parsing("url")
  /\ \E to \in off .. msg.url :
       /\ Report(msg.url, to, NextHeader(0))
       /\ set_url(Text(<<"url", j>>, off, to))
  /\ UNCHANGED <<alive, err, sent, fields, values, resFields,
                 got, dataTo, endTo>>

on_header_field ==
  /\ Parsing("field")
  /\ \E to \in off .. MaxLen :
       /\ Report(MaxLen, to, Place("value", at.i))
       /\ push_field(Text(msg.headers[at.i].name, off, to))
  /\ UNCHANGED <<alive, err, sent, url, values, resFields,
                 got, dataTo, endTo>>

(* The library takes each line of a folded value for a value. *)
on_header_value ==
  /\ Parsing("value")
  /\ LET len == msg.headers[at.i].len IN
       \E to \in off .. len :
         /\ Report(len, to, NextHeader(at.i))
         /\ push_value(Text(<<"value", j, at.i>>, off, to))
  /\ UNCHANGED <<alive, err, sent, url, fields, resFields,
                 got, dataTo, endTo>>

(* List.fold_left2 raises Invalid_argument on lists of different lengths:  *)
(* nothing catches it.  Otherwise the handler of the program is called,    *)
(* which may set res.onData and res.onEnd (Http.on).                       *)
on_headers_complete ==
  /\ Parsing("complete")
  /\ IF Len(fields) # Len(values)
     THEN /\ alive' = FALSE
          /\ UNCHANGED <<at, resFields, got>>
     ELSE \E data, end \in BOOLEAN :
            /\ got' = Append(got,
                 [url |-> url, headers |-> header_map(fields, values),
                  data |-> data, end |-> end])
            /\ onData' = IF data THEN j ELSE onData
            /\ onEnd' = IF end THEN j ELSE onEnd
            /\ at' = AfterHeaders
            /\ UNCHANGED alive
  /\ UNCHANGED <<exec, err, sent, off, refs, dataTo, endTo, cuts>>

(* A part of the body, up to its end or to the end of the packet. *)
on_body ==
  /\ Parsing("body")
  /\ dataTo' = <<j, receiver(onData)>>
  /\ \/ at' = Place("end", 0) /\ UNCHANGED exec
     \/ exec' = FALSE /\ UNCHANGED at
  /\ UNCHANGED <<alive, err, sent, off, refs, resFields, got, endTo, cuts>>

(* After an upgrade request execute returns without reading on. *)
on_message_complete ==
  /\ Parsing("end")
  /\ endTo' = <<j, receiver(onEnd)>>
  /\ at' = Place("start", 0)
  /\ exec' = ~msg.upgrade
  /\ UNCHANGED <<alive, err, sent, off, refs, resFields, got, dataTo, cuts>>

Next ==
  \/ execute \/ PacketEnds \/ ParseError
  \/ on_message_begin \/ on_url \/ on_header_field \/ on_header_value
  \/ on_headers_complete \/ on_body \/ on_message_complete

Spec == Init /\ [][Next]_vars

----------------------------------------------------------------------------
(* Properties. *)

(* Every variable holds what createParser or the library can put there. *)
TypeOK ==
  /\ alive \in BOOLEAN /\ exec \in BOOLEAN /\ err \in BOOLEAN
  /\ sent \in Seq(Message) /\ Len(sent) <= MaxMessages
  /\ at.tok \in {"start", "url", "field", "value", "complete", "body", "end"}
  /\ at.i \in 0 .. MaxHeaders
  /\ at.tok \in {"field", "value"} => at.i \in 1 .. Len(msg.headers)
  /\ at.tok = "field" => ~Continues(at.i)
  /\ off \in 0 .. MaxLen
  /\ off > 0 => at.tok \in {"url", "field", "value"}
  /\ onData \in 0 .. Len(got) /\ onEnd \in 0 .. Len(got)
  /\ Len(got) <= Len(sent)

Cuts(m, tok) == {c \in cuts : c[1] = m /\ c[2].tok = tok}

Latest(S) == IF S = {} THEN 0 ELSE CHOOSE x \in S : \A y \in S : y <= x

(* The last place in the URL of message m where a packet ended. *)
LastCut(m) == Latest({c[3] : c \in Cuts(m, "url")})

(* A handler gets the whole URL of its own message if and only if no       *)
(* packet ended in it; otherwise it gets what came last, which is empty    *)
(* when the packet ended exactly at the end of the URL.                    *)
UrlWholeUnlessCut ==
  \A m \in DOMAIN got :
    got[m].url = Text(<<"url", m>>, LastCut(m), sent[m].url)

(* The process dies of a request exactly when the header names and the     *)
(* header values of the connection were cut a different number of times,   *)
(* and then before a handler sees the request.  Both are cut by the ends   *)
(* of packets, values also by the ends of the lines they are folded at: a  *)
(* folded value kills the process unless some name is cut once more.       *)
AllCuts(tok) == UNION {Cuts(m, tok) : m \in DOMAIN sent}
EvenCuts == Cardinality(AllCuts("field")) = Cardinality(AllCuts("value"))

DiesOfUnevenCuts ==
  /\ ~alive => ~EvenCuts /\ Len(got) < Len(sent)
  /\ at.tok \in {"body", "end"} => EvenCuts

(* On a connection whose headers were not cut, by packets or by lines, a   *)
(* request has all headers of its own message and of the messages before   *)
(* it, since createParser never empties its lists, and the value sent      *)
(* first for a name is kept.                                               *)
Places(m) ==
  {p \in (1 .. m) \X (1 .. MaxHeaders) : p[2] <= Len(sent[p[1]].headers)}

NameAt(p) == Text(sent[p[1]].headers[p[2]].name, 0, MaxLen)

ValueAt(p) ==
  Text(<<"value", p[1], p[2]>>, 0, sent[p[1]].headers[p[2]].len)

Before(p, q) == p[1] < q[1] \/ (p[1] = q[1] /\ p[2] <= q[2])

First(S) == CHOOSE p \in S : \A q \in S : Before(p, q)

FirstValues(S) ==
  [f \in {NameAt(p) : p \in S} |-> ValueAt(First({p \in S : NameAt(p) = f}))]

NoCuts(m) ==
  \A x \in 1 .. m : Cuts(x, "field") = {} /\ Cuts(x, "value") = {}

HeadersAccumulate ==
  \A m \in DOMAIN got :
    NoCuts(m) => got[m].headers = FirstValues(Places(m))

(* Body and end of a message are delivered after its handler ran, to the   *)
(* closures set by that handler or, where it set none, to those an earlier *)
(* request of the connection left in res.                                  *)
EventsReachLatestHandler ==
  /\ dataTo[1] <= Len(got)
  /\ dataTo[2] = Latest({m \in 1 .. dataTo[1] : got[m].data})
  /\ endTo[1] <= Len(got)
  /\ endTo[2] = Latest({m \in 1 .. endTo[1] : got[m].end})

(* "1 = Upgrade header was present and the parser has exited because of    *)
(* that.  0 = No upgrade header present.  Should be checked when           *)
(* http_parser_execute() returns" (http_parser_stubs.c:445-447): the       *)
(* parser is not run again on what follows an upgrade request.             *)
UpgradeChecked ==
  exec => ~(j > 0 /\ at.tok = "start" /\ msg.upgrade)

(***************************************************************************)
(* The inductive strengthening of all of these.                            *)
(***************************************************************************)
IsSeq(s) == s \in Seq(Range(s))

(* The handler of a message has run exactly when the parser is behind its  *)
(* headers.  A process that died did so there.                             *)
PlaceInv ==
  /\ Len(got) = IF at.tok \in {"start", "body", "end"} THEN j ELSE j - 1
  /\ at.tok # "start" => j > 0
  /\ ~alive => at.tok = "complete" /\ Len(fields) # Len(values)
  /\ at.tok \in {"body", "end"} => Len(fields) = Len(values)
  /\ IsSeq(got) /\ IsSeq(fields) /\ IsSeq(values)

(* The order of the places of a message. *)
Rank(p) ==
  IF p.tok = "url" THEN 0
  ELSE IF p.tok = "field" THEN 2 * p.i - 1
  ELSE IF p.tok = "value" THEN 2 * p.i
  ELSE 2 * MaxHeaders + 1

(* The parser has come to every place where a text was cut. *)
CutsInv ==
  /\ IsFiniteSet(cuts)
  /\ \A c \in cuts :
       /\ c[1] \in 1 .. j /\ c[3] \in Nat /\ Rank(c[2]) \in Int
       /\ c[1] = j =>
            \/ Rank(c[2]) < Rank(at)
            \/ c[2] = at /\ c[3] <= off /\ (off > 0 \/ at.tok = "value")

(* Every cut of a name or a value adds an entry to its list.               *)
CountInv ==
  Len(fields) + Cardinality(AllCuts("value")) =
    Len(values) + Cardinality(AllCuts("field"))
      + (IF at.tok = "value" THEN 1 ELSE 0)

UrlInv ==
  /\ at.tok = "url" => LastCut(j) = off
  /\ at.tok \in {"field", "value", "complete"} =>
       url = Text(<<"url", j>>, LastCut(j), msg.url)
  /\ UrlWholeUnlessCut

EventsInv ==
  /\ onData = Latest({m \in 1 .. Len(got) : got[m].data})
  /\ onEnd = Latest({m \in 1 .. Len(got) : got[m].end})
  /\ dataTo[1] \in Nat /\ endTo[1] \in Nat
  /\ EventsReachLatestHandler

IInv == TypeOK /\ PlaceInv /\ CutsInv /\ CountInv /\ UrlInv /\ EventsInv

(* The headers of which name and value were reported.                      *)
Reported ==
  IF at.tok \in {"field", "value"} THEN at.i - 1
  ELSE IF at.tok = "url" THEN 0
  ELSE Len(msg.headers)

Seen == {p \in Places(j) : p[1] = j => p[2] <= Reported}

(* While nothing was cut the lists hold what was reported, and the name    *)
(* that waits for its value.                                               *)
Paired == IF at.tok = "value" THEN Tail(fields) ELSE fields

ListsInv ==
  /\ at.tok = "value" => fields # <<>> /\ fields[1] = NameAt(<<j, at.i>>)
  /\ header_map(Paired, values) = FirstValues(Seen)

(* A text of which a part was reported before was cut.                     *)
BegunIsCut == off > 0 \/ Fold(at) => <<j, at, off>> \in cuts

HeadersInv ==
  /\ BegunIsCut
  /\ NoCuts(j) => ListsInv
  /\ HeadersAccumulate
=============================================================================
