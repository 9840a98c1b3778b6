---------------------------- MODULE CamlHeapProofs ----------------------------
(***************************************************************************)
(* The invariants of CamlHeap, for any number of collections: MaxAddr and  *)
(* MaxChain are what they happen to be.                                    *)
(***************************************************************************)
EXTENDS CamlHeap, TLAPS

LEMMA Names ==
  /\ Slots = {"handle", "local_cb", "settings_on", "settings_parser",
              "local_data", "tcp_data", "frame_cb", "local_ccb"}
  /\ Target["handle"] = "cb" /\ Target["local_cb"] = "cb"
  /\ Target["settings_on"] = "on" /\ Target["settings_parser"] = "parser"
  /\ Target["local_data"] = "data"
  /\ Target["tcp_data"] = "ccb" /\ Target["frame_cb"] = "ccb"
  /\ Target["local_ccb"] = "ccb"
  /\ \A s \in Slots : Target[s] \in Values
  BY DEF Slots, Target, Values

USE DEF Values

THEOREM InitInv == Init => IInv
  <1> SUFFICES ASSUME Init
               PROVE  IInv
    OBVIOUS
  <1>1. TypeOK
    BY BoundsAssumption DEF Init, TypeOK
  <1>2. KeptInv
    BY DEF Init, KeptInv, ConnectionKeepsValues, InServer, InExecute
  <1>3. ChainInv
    BY DEF Init, ChainInv, ChainBalanced
  <1>4. CopiesInv
    BY DEF Init, CopiesInv, StaleOnlyIfMoved, InExecute
  <1>5. ClientInv
    BY DEF Init, ClientInv, ClientNeedsNoCollection
  <1> QED BY <1>1, <1>2, <1>3, <1>4, <1>5 DEF IInv

----------------------------------------------------------------------------
(* A collection keeps what is live, moves what is in the minor heap, and   *)
(* moves what is in the major heap only if it is a compaction.             *)
LEMMA MovedRange ==
  ASSUME TypeOK, NEW kind, NEW v \in Values, addr[v] < MaxAddr
  PROVE  /\ Moved(kind, v) \in 0 .. MaxAddr
         /\ addr[v] # 0 /\ Kept(kind, v) => Moved(kind, v) # 0
         /\ addr[v] > 1 /\ Kept(kind, v) =>
              /\ Moved(kind, v) > 1
              /\ kind # "compaction" => Moved(kind, v) = addr[v]
  BY BoundsAssumption DEF TypeOK, Moved

LEMMA CollectInv ==
  ASSUME IInv, Collect
  PROVE  IInv'
  <1>1. PICK kind \in {"minor", "major", "compaction"} :
          /\ addr' = [v \in Values |-> Moved(kind, v)]
          /\ slot' = [s \in Slots |->
                        IF s \in Registered THEN addr'[Target[s]] ELSE slot[s]]
          /\ native' = IF addr["parser"] # 0 /\ addr'["parser"] = 0
                       THEN caml_http_parser_free(native) ELSE native
          /\ hits' = hits \cup CollectionsSeen(kind)
    BY DEF Collect
  <1>2. /\ CanCollect /\ \A v \in Values : addr[v] < MaxAddr
        /\ UNCHANGED <<pc, conn, chain, lost, frame, client, promoted>>
    BY DEF Collect
  <1>3. \A v \in Values :
          /\ addr'[v] \in 0 .. MaxAddr
          /\ v \in Live /\ addr[v] # 0 => addr'[v] # 0
          /\ v \in Live /\ addr[v] > 1 =>
               /\ addr'[v] > 1
               /\ kind # "compaction" => addr'[v] = addr[v]
    BY <1>1, <1>2, MovedRange DEF IInv, Kept
  <1>4. \A s \in Slots :
          slot'[s] = IF s \in Registered THEN addr'[Target[s]] ELSE slot[s]
    BY <1>1
  <1>5. conn = "open" => "handle" \in Registered
                          /\ {"cb", "on", "parser"} \subseteq Live
    BY Names DEF Registered, request_on, Live, closure
  <1>6. InExecute => "data" \in Live
    BY DEF Live, CAMLparam3_execute
  <1>7. /\ Registered \subseteq {"handle", "frame_cb"}
    BY DEF Registered, request_on
  <1>8. /\ hits' \subseteq {"alloc", "execute", "dangling", "compaction",
                         "client"}
        /\ hits \subseteq hits'
        /\ pc = "read" => "alloc" \in hits'
        /\ InExecute => hits' \cap {"execute", "dangling"} # {}
        /\ kind = "compaction" => "compaction" \in hits'
        /\ client # "none" => "client" \in hits'
    BY <1>1 DEF IInv, TypeOK, CollectionsSeen, Place, InExecute
  <1>9. TypeOK'
    <2>1. addr' \in [Values -> 0 .. MaxAddr]
      BY <1>1, <1>3
    <2>2. slot' \in [Slots -> 0 .. MaxAddr]
      <3>1. slot \in [Slots -> 0 .. MaxAddr]
        BY DEF IInv, TypeOK
      <3>2. \A s \in Registered : Target[s] \in Values
        BY <1>7, Names
      <3>3. \A s \in Slots : slot'[s] \in 0 .. MaxAddr
        BY <1>3, <1>4, <3>1, <3>2
      <3>4. slot' = [s \in Slots |-> slot'[s]]
        BY <1>1
      <3> QED BY ONLY <3>3, <3>4
    <2>3. native' \in {"none", "allocated", "freed"}
      BY <1>1 DEF IInv, TypeOK, KeptInv, caml_http_parser_free
    <2> QED BY <1>2, <1>8, <2>1, <2>2, <2>3 DEF IInv, TypeOK
  <1>10. KeptInv'
    <2>1. conn = "open" => Valid("handle")' /\ addr'["on"] # 0
                            /\ addr'["parser"] # 0
      BY <1>3, <1>4, <1>5, Names
         DEF IInv, KeptInv, ConnectionKeepsValues, Valid
    <2>2. addr'["parser"] # 0 <=> native' = "allocated"
      <3>1. addr["parser"] = 0 => addr'["parser"] = 0
        BY <1>1 DEF Moved
      <3> QED BY <1>1, <3>1 DEF IInv, KeptInv, caml_http_parser_free
    <2>3. InExecute => addr'["data"] # 0
      BY <1>3, <1>6 DEF IInv, KeptInv
    <2> QED BY <1>2, <2>1, <2>2, <2>3
               DEF IInv, KeptInv, ConnectionKeepsValues, InServer, InExecute,
                   CanCollect
  <1>11. ChainInv'
    BY <1>2, <1>8 DEF IInv, ChainInv, ChainBalanced, InExecute, Alive
  <1>12. CopiesInv'
    <2>1. StaleOnlyIfMoved'
      BY <1>2 DEF CanCollect, StaleOnlyIfMoved
    <2>2. InServer => \A v \in promoted : addr'[v] > 1
      BY <1>2, <1>3, <1>5, <1>6
         DEF IInv, TypeOK, KeptInv, CopiesInv, InServer, CanCollect
    <2>3. ASSUME NEW s \in Slots \ Registered, NEW places,
                 CopyInv(s, places), Target[s] \in Live,
                 addr[Target[s]] # 0,
                 Target[s] \in promoted => addr[Target[s]] > 1,
                 hits' \cap places # {}
          PROVE  CopyInv(s, places)'
      BY <1>2, <1>3, <1>4, <1>8, <2>3, Names DEF CopyInv, Valid
    <2>4. pc \in {"read", "call"} => CopyInv("local_cb", {"alloc"})'
      <3> SUFFICES ASSUME pc = "read"
                   PROVE  CopyInv("local_cb", {"alloc"})'
        BY DEF CanCollect, Collect
      <3> QED BY <1>5, <1>7, <1>8, <2>3, Names
                 DEF IInv, KeptInv, ConnectionKeepsValues, CopiesInv,
                     InServer, Valid
    <2>5. InExecute => \A s \in Copied : CopyInv(s, {"execute", "dangling"})'
      <3> SUFFICES ASSUME InExecute, NEW s \in Copied
                   PROVE  CopyInv(s, {"execute", "dangling"})'
        OBVIOUS
      <3>1. s \in Slots \ Registered /\ Target[s] \in {"on", "parser", "data"}
        BY <1>7, Names DEF Copied
      <3> QED BY <1>5, <1>6, <1>8, <2>3, <3>1
                 DEF IInv, KeptInv, ConnectionKeepsValues, CopiesInv, InServer
    <2> QED BY <1>2, <2>1, <2>2, <2>4, <2>5
               DEF IInv, CopiesInv, InServer, InExecute
  <1>13. ClientInv'
    BY <1>2, <1>4, <1>7, <1>8, Names
       DEF IInv, ClientInv, ClientNeedsNoCollection
  <1> QED BY <1>9, <1>10, <1>11, <1>12, <1>13 DEF IInv

(* A collection that follows dead frames. Without a client they are        *)
(* frames of the packet that is being executed.                            *)
LEMMA CollectsDeadFramesInv ==
  ASSUME IInv, CollectsDeadFrames
  PROVE  IInv'
  <1>1. TypeOK'
    <2>1. hits' \subseteq
            {"alloc", "execute", "dangling", "compaction", "client"}
      BY DEF IInv, TypeOK, CollectsDeadFrames, CollectionsSeen, Place
    <2> QED BY <2>1 DEF IInv, TypeOK, CollectsDeadFrames
  <1>2. KeptInv'
    BY DEF IInv, KeptInv, ConnectionKeepsValues, InServer, InExecute, Valid,
           CollectsDeadFrames
  <1>3. ChainInv'
    <2>1. client = "none" => "dangling" \in hits'
      <3>1. client = "none" => chain > 0 /\ InExecute
        BY DEF IInv, ChainInv, Alive, CanCollect, CollectsDeadFrames
      <3>2. client = "none" => Place = "dangling"
        BY <3>1 DEF Place
      <3> QED BY <3>2 DEF CollectsDeadFrames, CollectionsSeen
    <2> QED BY <2>1 DEF IInv, ChainInv, ChainBalanced, InExecute, Alive,
                        CollectsDeadFrames
  <1>4. CopiesInv'
    BY DEF CopiesInv, StaleOnlyIfMoved, InServer, InExecute,
           CollectsDeadFrames
  <1>5. ClientInv'
    BY DEF IInv, ClientInv, ClientNeedsNoCollection, Valid, CollectsDeadFrames
  <1> QED BY <1>1, <1>2, <1>3, <1>4, <1>5 DEF IInv

(* The server. *)
LEMMA ConnectionAcceptedInv ==
  ASSUME IInv, ConnectionAccepted
  PROVE  IInv'
  <1>1. TypeOK'
    BY Names, BoundsAssumption DEF IInv, TypeOK, ConnectionAccepted
  <1>2. KeptInv'
    BY Names DEF IInv, KeptInv, ConnectionKeepsValues, InExecute, Valid,
                 TypeOK, ConnectionAccepted
  <1>3. ChainInv'
    BY DEF IInv, ChainInv, ChainBalanced, InExecute, ConnectionAccepted
  <1>4. CopiesInv'
    BY DEF CopiesInv, StaleOnlyIfMoved, InServer, InExecute,
           ConnectionAccepted
  <1>5. ClientInv'
    BY Names DEF IInv, ClientInv, ClientNeedsNoCollection, Valid, TypeOK,
                 ConnectionAccepted
  <1> QED BY <1>1, <1>2, <1>3, <1>4, <1>5 DEF IInv

LEMMA read_cbInv ==
  ASSUME IInv, read_cb
  PROVE  IInv'
  <1>1. TypeOK'
    BY Names DEF IInv, TypeOK, read_cb
  <1>2. KeptInv'
    BY DEF IInv, KeptInv, ConnectionKeepsValues, InExecute, Valid, read_cb
  <1>3. ChainInv'
    BY DEF IInv, ChainInv, ChainBalanced, InExecute, read_cb
  <1>4. CopiesInv'
    BY Names DEF IInv, CopiesInv, StaleOnlyIfMoved, InExecute, Valid, TypeOK,
                 CopyInv, KeptInv, ConnectionKeepsValues, read_cb
  <1>5. ClientInv'
    BY DEF IInv, ClientInv, ClientNeedsNoCollection, Valid, read_cb
  <1> QED BY <1>1, <1>2, <1>3, <1>4, <1>5 DEF IInv

LEMMA caml_alloc_initialized_stringInv ==
  ASSUME IInv, caml_alloc_initialized_string
  PROVE  IInv'
  <1>1. TypeOK'
    BY BoundsAssumption DEF IInv, TypeOK, caml_alloc_initialized_string
  <1>2. KeptInv'
    BY Names DEF IInv, KeptInv, ConnectionKeepsValues, InServer, Valid,
                 TypeOK, caml_alloc_initialized_string
  <1>3. ChainInv'
    BY DEF IInv, ChainInv, ChainBalanced, InExecute, Alive,
           caml_alloc_initialized_string
  <1>4. CopiesInv'
    BY Names DEF IInv, CopiesInv, StaleOnlyIfMoved, InServer, InExecute,
                 Valid, TypeOK, CopyInv, caml_alloc_initialized_string
  <1>5. ClientInv'
    BY Names DEF IInv, ClientInv, ClientNeedsNoCollection, Valid,
                 caml_alloc_initialized_string
  <1> QED BY <1>1, <1>2, <1>3, <1>4, <1>5 DEF IInv

LEMMA executeInv ==
  ASSUME IInv, execute
  PROVE  IInv'
  <1>1. CASE Valid("local_cb")
    <2>1. /\ pc = "call" /\ pc' = "exec"
          /\ slot' = [slot EXCEPT !["settings_on"] = addr["on"],
                                  !["settings_parser"] = addr["parser"],
                                  !["local_data"] = addr["data"]]
          /\ frame' = chain
          /\ UNCHANGED <<addr, conn, native, chain, lost, client, hits>>
          /\ UNCHANGED promoted
      BY <1>1 DEF execute
    <2>2. TypeOK'
      BY <1>1, <2>1 DEF IInv, TypeOK
    <2>3. KeptInv'
      BY <1>1, <2>1, Names
         DEF IInv, KeptInv, ConnectionKeepsValues, InServer, Valid, TypeOK
    <2>4. ChainInv'
      BY <1>1, <2>1
         DEF IInv, ChainInv, ChainBalanced, InExecute, Alive, TypeOK
    <2>5. CopiesInv'
      BY <1>1, <2>1, Names
         DEF IInv, CopiesInv, StaleOnlyIfMoved, InServer, Valid, TypeOK,
             CopyInv, Copied, KeptInv, ConnectionKeepsValues
    <2>6. ClientInv'
      BY <1>1, <2>1, Names
         DEF IInv, ClientInv, ClientNeedsNoCollection, Valid, TypeOK
    <2> QED BY <2>2, <2>3, <2>4, <2>5, <2>6 DEF IInv
  <1>2. CASE ~Valid("local_cb")
    <2>1. /\ pc = "call" /\ pc' = "stale_server" /\ frame' = chain
          /\ UNCHANGED <<slot, addr, conn, native, chain, lost, client>>
          /\ UNCHANGED <<hits, promoted>>
      BY <1>2 DEF execute
    <2>2. TypeOK'
      BY <1>2, <2>1 DEF IInv, TypeOK
    <2>3. KeptInv'
      BY <1>2, <2>1 DEF IInv, KeptInv, ConnectionKeepsValues, InServer, Valid
    <2>4. ChainInv'
      BY <1>2, <2>1 DEF IInv, ChainInv, ChainBalanced, InExecute, Alive
    <2>5. CopiesInv'
      BY <1>2, <2>1, Names
         DEF IInv, CopiesInv, StaleOnlyIfMoved, InServer, InExecute, CopyInv
    <2>6. ClientInv'
      BY <1>2, <2>1 DEF IInv, ClientInv, ClientNeedsNoCollection, Valid
    <2> QED BY <2>2, <2>3, <2>4, <2>5, <2>6 DEF IInv
  <1> QED BY <1>1, <1>2

LEMMA on_text_cbInv ==
  ASSUME IInv, on_text_cb
  PROVE  IInv'
  <1>1. TypeOK'
    BY DEF IInv, TypeOK, on_text_cb, Goto, Call
  <1>2. KeptInv'
    BY DEF IInv, KeptInv, ConnectionKeepsValues, InServer, InExecute, Valid,
           on_text_cb, Goto, Call
  <1>3. ChainInv'
    BY DEF IInv, ChainInv, ChainBalanced, InExecute, Alive, on_text_cb, Goto,
           Call
  <1>4. CopiesInv'
    BY Names DEF IInv, CopiesInv, StaleOnlyIfMoved, InServer, InExecute,
                 Valid, CopyInv, Copied, on_text_cb, Goto, Call
  <1>5. ClientInv'
    BY DEF IInv, ClientInv, ClientNeedsNoCollection, Valid, on_text_cb, Goto,
           Call
  <1> QED BY <1>1, <1>2, <1>3, <1>4, <1>5 DEF IInv

LEMMA caml_callback3Inv ==
  ASSUME IInv, caml_callback3
  PROVE  IInv'
  <1>1. TypeOK'
    BY DEF IInv, TypeOK, caml_callback3, Goto, Call
  <1>2. KeptInv'
    BY DEF IInv, KeptInv, ConnectionKeepsValues, InServer, InExecute, Valid,
           caml_callback3, Goto, Call
  <1>3. ChainInv'
    BY DEF IInv, ChainInv, ChainBalanced, InExecute, Alive, caml_callback3,
           Goto, Call
  <1>4. CopiesInv'
    BY Names DEF IInv, CopiesInv, StaleOnlyIfMoved, InServer, InExecute,
                 Valid, CopyInv, Copied, caml_callback3, Goto, Call
  <1>5. ClientInv'
    BY DEF IInv, ClientInv, ClientNeedsNoCollection, Valid, caml_callback3,
           Goto, Call
  <1> QED BY <1>1, <1>2, <1>3, <1>4, <1>5 DEF IInv

LEMMA text_returnsInv ==
  ASSUME IInv, text_returns
  PROVE  IInv'
  <1>1. TypeOK'
    BY BoundsAssumption DEF IInv, TypeOK, OneMore, text_returns, Goto
  <1>2. KeptInv'
    BY DEF IInv, KeptInv, ConnectionKeepsValues, InServer, InExecute, Valid,
           text_returns, Goto
  <1>3. ChainInv'
    BY DEF IInv, ChainInv, ChainBalanced, InExecute, text_returns, Goto
  <1>4. CopiesInv'
    BY DEF IInv, CopiesInv, StaleOnlyIfMoved, InServer, InExecute, Valid,
           CopyInv, text_returns, Goto
  <1>5. ClientInv'
    BY DEF IInv, ClientInv, ClientNeedsNoCollection, Valid, text_returns, Goto
  <1> QED BY <1>1, <1>2, <1>3, <1>4, <1>5 DEF IInv

LEMMA on_event_cbInv ==
  ASSUME IInv, on_event_cb
  PROVE  IInv'
  <1>1. TypeOK'
    BY DEF IInv, TypeOK, on_event_cb, Goto, Call
  <1>2. KeptInv'
    BY DEF IInv, KeptInv, ConnectionKeepsValues, InServer, InExecute, Valid,
           on_event_cb, Goto, Call
  <1>3. ChainInv'
    BY DEF IInv, ChainInv, ChainBalanced, InExecute, Alive, on_event_cb, Goto,
           Call
  <1>4. CopiesInv'
    BY Names DEF IInv, CopiesInv, StaleOnlyIfMoved, InServer, InExecute,
                 Valid, CopyInv, Copied, on_event_cb, Goto, Call
  <1>5. ClientInv'
    BY DEF IInv, ClientInv, ClientNeedsNoCollection, Valid, on_event_cb, Goto,
           Call
  <1> QED BY <1>1, <1>2, <1>3, <1>4, <1>5 DEF IInv

LEMMA event_returnsInv ==
  ASSUME IInv, event_returns
  PROVE  IInv'
  <1>1. TypeOK'
    BY DEF IInv, TypeOK, event_returns, Goto
  <1>2. KeptInv'
    BY DEF IInv, KeptInv, ConnectionKeepsValues, InServer, InExecute, Valid,
           event_returns, Goto
  <1>3. ChainInv'
    BY DEF IInv, ChainInv, ChainBalanced, InExecute, event_returns, Goto
  <1>4. CopiesInv'
    BY DEF IInv, CopiesInv, StaleOnlyIfMoved, InServer, InExecute, Valid,
           CopyInv, event_returns, Goto
  <1>5. ClientInv'
    BY DEF IInv, ClientInv, ClientNeedsNoCollection, Valid, event_returns,
           Goto
  <1> QED BY <1>1, <1>2, <1>3, <1>4, <1>5 DEF IInv

LEMMA execute_returnsInv ==
  ASSUME IInv, execute_returns
  PROVE  IInv'
  <1>1. TypeOK'
    BY DEF IInv, TypeOK, execute_returns, Goto, CAMLreturn_execute
  <1>2. KeptInv'
    BY DEF IInv, KeptInv, ConnectionKeepsValues, InServer, InExecute, Valid,
           execute_returns, Goto
  <1>3. ChainInv'
    BY DEF IInv, ChainInv, ChainBalanced, InExecute, execute_returns, Goto,
           CAMLreturn_execute
  <1>4. CopiesInv'
    BY DEF CopiesInv, StaleOnlyIfMoved, InServer, InExecute, execute_returns,
           Goto
  <1>5. ClientInv'
    BY DEF IInv, ClientInv, ClientNeedsNoCollection, Valid, execute_returns,
           Goto
  <1> QED BY <1>1, <1>2, <1>3, <1>4, <1>5 DEF IInv

LEMMA close_cbInv ==
  ASSUME IInv, close_cb
  PROVE  IInv'
  <1>1. TypeOK'
    BY Names, BoundsAssumption DEF IInv, TypeOK, close_cb, close_cb_native
  <1>2. KeptInv'
    BY DEF IInv, KeptInv, ConnectionKeepsValues, InServer, InExecute,
           close_cb, close_cb_native
  <1>3. ChainInv'
    BY DEF IInv, ChainInv, ChainBalanced, InExecute, close_cb
  <1>4. CopiesInv'
    BY DEF CopiesInv, StaleOnlyIfMoved, InServer, InExecute, close_cb
  <1>5. ClientInv'
    BY DEF IInv, ClientInv, ClientNeedsNoCollection, Valid, close_cb
  <1> QED BY <1>1, <1>2, <1>3, <1>4, <1>5 DEF IInv

(* The client. *)
LEMMA requestInv ==
  ASSUME IInv, request
  PROVE  IInv'
  <1>1. TypeOK'
    BY Names, BoundsAssumption DEF IInv, TypeOK, request, request_data
  <1>2. KeptInv'
    BY Names DEF IInv, KeptInv, ConnectionKeepsValues, InServer, InExecute,
                 Valid, TypeOK, request, request_data
  <1>3. ChainInv'
    BY DEF IInv, ChainInv, ChainBalanced, InExecute, request
  <1>4. CopiesInv'
    BY DEF CopiesInv, StaleOnlyIfMoved, InServer, InExecute, request
  <1>5. ClientInv'
    BY Names DEF IInv, ClientInv, ClientNeedsNoCollection, Valid, TypeOK,
                 request, request_data
  <1> QED BY <1>1, <1>2, <1>3, <1>4, <1>5 DEF IInv

LEMMA FrameOverwrittenInv ==
  ASSUME IInv, FrameOverwritten
  PROVE  IInv'
  <1>1. TypeOK'
    BY Names, BoundsAssumption DEF IInv, TypeOK, FrameOverwritten
  <1>2. KeptInv'
    BY DEF IInv, KeptInv, ConnectionKeepsValues, InServer, InExecute, Valid,
           FrameOverwritten
  <1>3. ChainInv'
    BY DEF IInv, ChainInv, ChainBalanced, InExecute, FrameOverwritten
  <1>4. CopiesInv'
    BY DEF IInv, CopiesInv, StaleOnlyIfMoved, InServer, InExecute, Valid,
           CopyInv, Copied, FrameOverwritten
  <1>5. ClientInv'
    BY DEF IInv, ClientInv, ClientNeedsNoCollection, Valid, FrameOverwritten
  <1> QED BY <1>1, <1>2, <1>3, <1>4, <1>5 DEF IInv

LEMMA client_connect_cbInv ==
  ASSUME IInv, client_connect_cb
  PROVE  IInv'
  <1>1. TypeOK'
    BY DEF IInv, TypeOK, client_connect_cb, Goto, Call
  <1>2. KeptInv'
    BY DEF IInv, KeptInv, ConnectionKeepsValues, InServer, InExecute, Valid,
           client_connect_cb, Goto, Call
  <1>3. ChainInv'
    BY DEF IInv, ChainInv, ChainBalanced, InExecute, Alive, client_connect_cb,
           Goto, Call
  <1>4. CopiesInv'
    BY DEF CopiesInv, StaleOnlyIfMoved, InServer, InExecute,
           client_connect_cb, Goto, Call
  <1>5. ClientInv'
    BY DEF IInv, ClientInv, ClientNeedsNoCollection, Valid, client_connect_cb,
           Goto, Call
  <1> QED BY <1>1, <1>2, <1>3, <1>4, <1>5 DEF IInv

LEMMA client_read_cbInv ==
  ASSUME IInv, client_read_cb
  PROVE  IInv'
  <1>1. TypeOK'
    BY Names, BoundsAssumption
       DEF IInv, TypeOK, OneMore, EarlyReturn, client_read_cb
  <1>2. KeptInv'
    BY DEF IInv, KeptInv, ConnectionKeepsValues, InServer, InExecute, Valid,
           client_read_cb
  <1>3. ChainInv'
    BY BoundsAssumption
       DEF IInv, TypeOK, ChainInv, ChainBalanced, InExecute, Alive, OneMore,
           EarlyReturn, client_read_cb
  <1>4. CopiesInv'
    BY DEF CopiesInv, StaleOnlyIfMoved, InServer, InExecute, client_read_cb
  <1>5. ClientInv'
    BY Names DEF IInv, ClientInv, ClientNeedsNoCollection, Valid, TypeOK,
                 client_read_cb
  <1> QED BY <1>1, <1>2, <1>3, <1>4, <1>5 DEF IInv

LEMMA client_callbackInv ==
  ASSUME IInv, client_callback
  PROVE  IInv'
  <1>1. TypeOK'
    BY DEF IInv, TypeOK, client_callback, Goto, Call
  <1>2. KeptInv'
    BY DEF IInv, KeptInv, ConnectionKeepsValues, InServer, InExecute, Valid,
           client_callback, Goto, Call
  <1>3. ChainInv'
    BY DEF IInv, ChainInv, ChainBalanced, InExecute, Alive, client_callback,
           Goto, Call
  <1>4. CopiesInv'
    BY DEF CopiesInv, StaleOnlyIfMoved, InServer, InExecute, client_callback,
           Goto, Call
  <1>5. ClientInv'
    BY Names DEF IInv, ClientInv, ClientNeedsNoCollection, Valid,
                 client_callback, Goto, Call
  <1> QED BY <1>1, <1>2, <1>3, <1>4, <1>5 DEF IInv

LEMMA client_returnsInv ==
  ASSUME IInv, client_returns
  PROVE  IInv'
  <1>1. TypeOK'
    BY BoundsAssumption DEF IInv, TypeOK, OneMore, EarlyReturn,
                            client_returns, Goto
  <1>2. KeptInv'
    BY DEF IInv, KeptInv, ConnectionKeepsValues, InServer, InExecute, Valid,
           client_returns, Goto
  <1>3. ChainInv'
    BY DEF IInv, ChainInv, ChainBalanced, InExecute, Alive, OneMore,
           EarlyReturn, client_returns, Goto
  <1>4. CopiesInv'
    BY DEF CopiesInv, StaleOnlyIfMoved, InServer, InExecute, client_returns,
           Goto
  <1>5. ClientInv'
    BY DEF IInv, ClientInv, ClientNeedsNoCollection, Valid, client_returns,
           Goto
  <1> QED BY <1>1, <1>2, <1>3, <1>4, <1>5 DEF IInv
----------------------------------------------------------------------------
THEOREM Inductive == Spec => []IInv
  <1>1. IInv /\ [Next]_vars => IInv'
    <2> SUFFICES ASSUME IInv, [Next]_vars
                 PROVE  IInv'
      OBVIOUS
    <2>1. CASE UNCHANGED vars
      BY <2>1 DEF vars, IInv, TypeOK, KeptInv, ConnectionKeepsValues,
                  InServer, InExecute, Valid, ChainInv, ChainBalanced, Alive,
                  CopiesInv, CopyInv, StaleOnlyIfMoved, ClientInv,
                  ClientNeedsNoCollection
    <2>2. CASE Next
      BY <2>2, CollectInv, CollectsDeadFramesInv, ConnectionAcceptedInv,
         read_cbInv, caml_alloc_initialized_stringInv, executeInv,
         on_text_cbInv, caml_callback3Inv, text_returnsInv, on_event_cbInv,
         event_returnsInv, execute_returnsInv, close_cbInv, requestInv,
         FrameOverwrittenInv, client_connect_cbInv, client_read_cbInv,
         client_callbackInv, client_returnsInv DEF Next
    <2> QED BY <2>1, <2>2
  <1> QED BY <1>1, InitInv, PTL DEF Spec

(* Every slot holds an address, and the native parser is freed once.       *)
THEOREM TypeCorrect == Spec => []TypeOK
  <1>1. IInv => TypeOK
    BY DEF IInv
  <1> QED BY <1>1, Inductive, PTL

(* However often and however values are moved, an open connection keeps    *)
(* its closure, its settings and its parser.                               *)
THEOREM ValuesKept == Spec => []ConnectionKeepsValues
  <1>1. IInv => ConnectionKeepsValues
    BY DEF IInv, KeptInv
  <1> QED BY <1>1, Inductive, PTL

(* The dead frames in the list of local roots are those the client left    *)
(* there, at the end of its stream or when nothing was read; packets leave *)
(* none.                                                                   *)
THEOREM ChainsBalanced == Spec => []ChainBalanced
  <1>1. IInv => ChainBalanced
    BY DEF IInv, ChainInv
  <1> QED BY <1>1, Inductive, PTL

(* The server uses a stale address only after its value moved under it.    *)
THEOREM StaleAfterMove == Spec => []StaleOnlyIfMoved
  <1>1. IInv => StaleOnlyIfMoved
    BY DEF IInv, CopiesInv
  <1> QED BY <1>1, Inductive, PTL

(* The client's field, which is no root, is right until a collection.      *)
THEOREM ClientFieldRight == Spec => []ClientNeedsNoCollection
  <1>1. IInv => ClientNeedsNoCollection
    BY DEF IInv, ClientInv
  <1> QED BY <1>1, Inductive, PTL

=============================================================================
