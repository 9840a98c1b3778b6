---------------------------- MODULE GracefulConn ----------------------------
(***************************************************************************)
(* What a connection of the server promises its peer, whatever queues,     *)
(* callbacks and shutdown requests carry it out: the output is what the    *)
(* program wrote, in that order, and the connection is closed only after   *)
(* the program ended it and, if the peer stayed, after all of it was sent. *)
(***************************************************************************)
EXTENDS Naturals, Sequences

CONSTANT Conns

VARIABLE conn   \* for each connection its phase, given, wire and broken

Fresh(phase) ==
  [phase |-> phase, given |-> <<>>, wire |-> <<>>, broken |-> FALSE]

Idle == Fresh("idle")

Prefix(s, t) == Len(s) <= Len(t) /\ \A i \in 1 .. Len(s) : s[i] = t[i]

Init == conn = [c \in Conns |-> Idle]

Open(s, n) == s.phase = "idle" /\ n = Fresh("open")

(* Output is only appended to, reaches the wire in order, and nothing more *)
(* reaches it once the peer is gone.                                       *)
Output(s, n) ==
  /\ Prefix(s.given, n.given)
  /\ Prefix(s.wire, n.wire)
  /\ Prefix(n.wire, n.given)
  /\ s.broken => n.broken /\ n.wire = s.wire

Serve(s, n) ==
  /\ \/ s.phase = "open" /\ n.phase \in {"open", "ended"}
     \/ s.phase = "ended" /\ n.phase = "ended"
  /\ Output(s, n)

(* The last of the output and the close of the descriptor. *)
Close(s, n) ==
  /\ s.phase = "ended" /\ n.phase = "closed"
  /\ n.given = s.given
  /\ Output(s, n)
  /\ ~n.broken => n.wire = n.given

Recycle(s, n) == s.phase = "closed" /\ n = Idle

Step(s, n) == Open(s, n) \/ Serve(s, n) \/ Close(s, n) \/ Recycle(s, n)

Next ==
  \E c \in Conns :
    /\ Step(conn[c], conn'[c])
    /\ conn' = [conn EXCEPT ![c] = conn'[c]]

Spec == Init /\ [][Next]_conn
=============================================================================
