-------------------------- MODULE HttpParserProofs --------------------------
(***************************************************************************)
(* The invariants of HttpParser, for any releases of the library and any   *)
(* bounds.                                                                 *)
(***************************************************************************)
EXTENDS HttpParser, TLAPS

(* The tables stand in the order of the constructors.                      *)
LEMMA MethodTable ==
  ASSUME NEW m \in 1 .. Len(http_method)
  PROVE  ml2c(HTTP_METHOD_TABLE, m - 1) = Meant(http_method[m])
  <1>1. HTTP_METHOD_TABLE = http_method
    BY DEF HTTP_METHOD_TABLE, http_method
  <1>2. Len(http_method) = 26
    BY DEF http_method
  <1>3. http_method[m] # "CB_status_complete"
    BY <1>2 DEF http_method
  <1> QED BY <1>1, <1>2, <1>3 DEF ml2c, Meant

LEMMA ErrnoTable ==
  ASSUME NEW e \in 1 .. Len(http_errno)
  PROVE  ml2c(HTTP_ERRNO_TABLE, e - 1) = Meant(http_errno[e])
  <1>1. Len(HTTP_ERRNO_TABLE) = 30 /\ Len(http_errno) = 30
    BY DEF HTTP_ERRNO_TABLE, http_errno
  <1>2. HTTP_ERRNO_TABLE[e] = Meant(http_errno[e])
    BY <1>1 DEF HTTP_ERRNO_TABLE, http_errno, Meant
  <1> QED BY <1>1, <1>2 DEF ml2c

LEMMA TypeTable ==
  ASSUME NEW t \in 1 .. 3
  PROVE  ml2c(HTTP_PARSER_TYPE_TABLE, t - 1) = Meant(http_parser_type[t])
  BY DEF ml2c, HTTP_PARSER_TYPE_TABLE, http_parser_type, Meant

(* What is packed into the version: its major and minor number, and the    *)
(* patch level.                                                            *)
Byte == 0 .. 255

LEMMA Bytes == \A b \in Byte : b \in Int /\ 0 <= b /\ b <= 255
  BY DEF Byte

LEMMA Parts ==
  ASSUME NEW a \in Byte, NEW b \in Byte, NEW c \in Byte
  PROVE  unpack(http_parser_version(<<a, b, c>>)) = <<a, b, c>>
  <1> DEFINE n == a * 65536 + b * 256 + c
  <1>a. /\ a \in Int /\ 0 <= a /\ a <= 255
        /\ b \in Int /\ 0 <= b /\ b <= 255
        /\ c \in Int /\ 0 <= c /\ c <= 255
    BY Bytes
  <1>1. n \div 65536 = a /\ (n \div 256) % 256 = b /\ n % 256 = c
    BY <1>a
  <1>2. a % 256 = a
    BY <1>a
  <1> QED BY <1>1, <1>2 DEF unpack, http_parser_version

LEMMA Unpacked ==
  ASSUME NEW v \in Byte \X Byte \X Byte
  PROVE  unpack(http_parser_version(v)) = v
  <1>1. /\ v[1] \in Byte /\ v[2] \in Byte /\ v[3] \in Byte
        /\ v = <<v[1], v[2], v[3]>>
    OBVIOUS
  <1>2. \E a, b, c \in Byte : v = <<a, b, c>>
    BY <1>1, Zenon
  <1>3. PICK a \in Byte, b \in Byte, c \in Byte : v = <<a, b, c>>
    BY <1>2, Zenon
  <1>4. unpack(http_parser_version(<<a, b, c>>)) = <<a, b, c>>
    BY Parts
  <1> QED BY <1>3, <1>4, Zenon

LEMMA ModLe ==
  ASSUME NEW x \in Nat
  PROVE  /\ x % Width \in Nat /\ x % Width <= x
         /\ x < Width => x % Width = x
  BY BoundsAssumption

(* What UrlFieldsRight says of one field v, the k-th.                      *)
FieldRight(v, k, rc, set, size, off, len, moved) ==
  /\ IF rc # 0 THEN v = Text(0, 0)
     ELSE IF http_parser_url[k] \notin set THEN v = Val_unit
     ELSE moved > 7 /\ size < Width => v = Text(off, len)
  /\ v[1] = "text" => v[3] <= size

LEMMA TextEnd ==
  ASSUME NEW o, NEW l
  PROVE  Text(o, l)[3] = o + l
  BY DEF Text

LEMMA UrlFields ==
  ASSUME NEW rc \in 0 .. 1, NEW set, NEW size \in 0 .. MaxUrl,
         NEW moved \in {0, 4, 8}, NEW off \in 0 .. size,
         NEW len \in 0 .. size - off, NEW k \in 1 .. 7
  PROVE  FieldRight(fields(rc, set, off, len, moved)[k],
                    k, rc, set, size, off, len, moved)
  <1>1. UF = http_parser_url
    BY DEF UF, http_parser_url
  <1>2. size \in Nat /\ off \in Nat /\ len \in Nat /\ off + len <= size
    BY BoundsAssumption
  <1>3. /\ off % Width \in Nat /\ off % Width <= off
        /\ len % Width \in Nat /\ len % Width <= len
    BY <1>2, ModLe
  <1>4. size < Width => off % Width = off /\ len % Width = len
    <2>1. Width \in Nat
      BY BoundsAssumption
    <2>2. size < Width => off < Width /\ len < Width
      BY <1>2, <2>1
    <2> QED BY <1>2, <2>2, ModLe
  <1> DEFINE f == fields(rc, set, off, len, moved)[k]
  <1>5. f = IF rc # 0 THEN Empty
            ELSE IF UF[k] \notin set THEN Val_unit
            ELSE IF k >= moved THEN Garbage
            ELSE Text(off % Width, len % Width)
    BY DEF fields
  <1> DEFINE o == off % Width
             l == len % Width
  <1> HIDE DEF f, o, l
  <1>a. o + l <= size
    BY <1>2, <1>3 DEF o, l
  <1>6. f[1] = "text" => f[3] <= size
    <2>1. CASE rc # 0
      BY <1>2, <1>5, <2>1 DEF Empty, Text
    <2>2. CASE rc = 0 /\ UF[k] \notin set
      BY <1>5, <2>2 DEF Val_unit
    <2>3. CASE rc = 0 /\ UF[k] \in set /\ k >= moved
      BY <1>5, <2>3 DEF Garbage
    <2>4. CASE rc = 0 /\ UF[k] \in set /\ ~(k >= moved)
      <3>1. f = Text(o, l)
        BY <1>5, <2>4 DEF o, l
      <3>2. f[3] = o + l
        BY <3>1, TextEnd, Zenon
      <3> QED BY <1>a, <3>2
    <2> QED BY <2>1, <2>2, <2>3, <2>4
  <1>7. IF rc # 0 THEN f = Text(0, 0)
        ELSE IF http_parser_url[k] \notin set THEN f = Val_unit
        ELSE moved > 7 /\ size < Width => f = Text(off, len)
    BY <1>1, <1>4, <1>5 DEF Empty
  <1> QED BY <1>6, <1>7 DEF FieldRight, f

----------------------------------------------------------------------------
LEMMA Errors ==
  ASSUME NEW order \in Libraries
  PROVE  {"OK", "PAUSED"} \cup CallbackErrors \subseteq Range(order)
  BY LibrariesAssumption, Zenon

THEOREM InitInv == Init => IInv
  <1> SUFFICES ASSUME Init
               PROVE  IInv
    OBVIOUS
  <1>1. "OK" \in Range(lib)
    BY Errors DEF Init
  <1>2. TypeOK
    <2>1. depth \in 0 .. MaxDepth /\ data \in 0 .. MaxDepth
      BY BoundsAssumption DEF Init
    <2>2. depth > 0 => data > 0
      BY DEF Init
    <2> QED BY <1>1, <2>1, <2>2, Zenon DEF Init, TypeOK
  <1>3. ReturnedInv
    BY DEF Init, Nothing, ReturnedInv, Translated, UrlFieldsRight
  <1> QED BY <1>2, <1>3
          DEF Init, IInv, ParserInv, FreedOnceUnlessCalled, DataOfOwnFrame

(* A value of a kind no property speaks of.                                *)
LEMMA OtherKinds ==
  ASSUME NEW kind \in {"none", "errno", "error name", "keep_alive",
                       "is_final", "upgrade", "anything"},
         NEW asked, NEW value, Returns(kind, asked, value)
  PROVE  ReturnedInv'
  BY DEF Returns, ReturnedInv, Translated, UrlFieldsRight

LEMMA SameReturned ==
  ASSUME ReturnedInv, UNCHANGED returned
  PROVE  ReturnedInv'
  BY DEF ReturnedInv, Translated, UrlFieldsRight

(* The functions that only read the parser.                                *)
LEMMA ReadsInv ==
  ASSUME IInv, NEW kind, NEW asked, NEW value, Reads(kind, asked, value),
         ReturnedInv'
  PROVE  IInv'
  <1>1. TypeOK'
    BY DEF IInv, Reads, native, TypeOK
  <1>2. ParserInv' /\ FreedOnceUnlessCalled' /\ DataOfOwnFrame'
    BY DEF IInv, Reads, InProgram, native, TypeOK, ParserInv,
           FreedOnceUnlessCalled, DataOfOwnFrame
  <1> QED BY <1>1, <1>2 DEF IInv

LEMMA PureInv ==
  ASSUME IInv, NEW kind, NEW asked, NEW value, Pure(kind, asked, value),
         ReturnedInv'
  PROVE  IInv'
  BY DEF IInv, Pure, native, TypeOK, ParserInv, FreedOnceUnlessCalled,
         DataOfOwnFrame

LEMMA Depths ==
  ASSUME TypeOK
  PROVE  /\ MaxDepth \in Nat
         /\ depth \in Nat /\ depth <= MaxDepth
         /\ data \in Nat /\ data <= MaxDepth
         /\ depth > 0 => data > 0
  <1>1. MaxDepth \in Nat
    BY BoundsAssumption
  <1>2. depth \in 0 .. MaxDepth /\ data \in 0 .. MaxDepth
    BY Zenon DEF TypeOK
  <1>3. depth > 0 => data > 0
    BY Zenon DEF TypeOK
  <1> QED BY <1>1, <1>2, <1>3

LEMMA StepInv ==
  ASSUME IInv, Next
  PROVE  IInv'
  <1>0. TypeOK /\ ReturnedInv
    BY DEF IInv
  <1>1. CASE caml_http_method_str
    <2>1. PICK m \in 1 .. Len(http_method) :
            Pure("method", http_method[m], ml2c(HTTP_METHOD_TABLE, m - 1))
      BY <1>1 DEF caml_http_method_str
    <2>2. ReturnedInv'
      BY <2>1, MethodTable
         DEF Pure, Returns, ReturnedInv, Translated, UrlFieldsRight
    <2> QED BY <2>1, <2>2, PureInv
  <1>2. CASE caml_http_errno_name
    <2>1. PICK e \in 1 .. Len(http_errno) :
            Pure("name", http_errno[e], ml2c(HTTP_ERRNO_TABLE, e - 1))
      BY <1>2 DEF caml_http_errno_name
    <2>2. ReturnedInv'
      BY <2>1, ErrnoTable
         DEF Pure, Returns, ReturnedInv, Translated, UrlFieldsRight
    <2> QED BY <2>1, <2>2, PureInv
  <1>3. CASE caml_http_parser_version
    <2>1. PICK v \in {0, 1, 2, 255} \X {0, 9, 255} \X {0, 4, 255} :
            Pure("version", v, unpack(http_parser_version(v)))
      BY <1>3 DEF caml_http_parser_version
    <2>2. unpack(http_parser_version(v)) = v
      <3>1. v \in Byte \X Byte \X Byte
        BY DEF Byte
      <3> QED BY <3>1, Unpacked
    <2>3. ReturnedInv'
      BY <2>1, <2>2
         DEF Pure, Returns, ReturnedInv, Translated, UrlFieldsRight
    <2> QED BY <2>1, <2>3, PureInv
  <1>4. CASE caml_http_parser_parse_url
    <2>a. PICK rc \in 0 .. 1, set \in SUBSET Range(UF), size \in 0 .. MaxUrl,
               moved \in {0, 4, 8} :
            \E off \in 0 .. size : \E len \in 0 .. size - off :
              Pure("url", <<rc, set, size, off, len, moved>>,
                   fields(rc, set, off, len, moved))
      BY <1>4, Zenon DEF caml_http_parser_parse_url
    <2>b. PICK off \in 0 .. size : \E len \in 0 .. size - off :
            Pure("url", <<rc, set, size, off, len, moved>>,
                 fields(rc, set, off, len, moved))
      BY <2>a
    <2>1. PICK len \in 0 .. size - off :
            Pure("url", <<rc, set, size, off, len, moved>>,
                 fields(rc, set, off, len, moved))
      BY <2>b
    <2>2. returned' = [kind |-> "url",
                       asked |-> <<rc, set, size, off, len, moved>>,
                       value |-> fields(rc, set, off, len, moved)]
      BY <2>1 DEF Pure, Returns
    <2>3. UrlFieldsRight'
      <3>1. returned'.asked = <<rc, set, size, off, len, moved>>
        BY <2>2
      <3>2. returned'.value = fields(rc, set, off, len, moved)
        BY <2>2
      <3>3. \A k \in 1 .. 7 :
              FieldRight(returned'.value[k],
                         k, rc, set, size, off, len, moved)
        BY <3>2, UrlFields, Zenon
      <3> QED BY <3>1, <3>3 DEF UrlFieldsRight, FieldRight
    <2>4. ReturnedInv'
      BY <2>2, <2>3 DEF ReturnedInv, Translated
    <2> QED BY <2>1, <2>4, PureInv
  <1>5. CASE init
    <2>1. PICK t \in 1 .. 3 : Returns("type", http_parser_type[t],
                                      ml2c(HTTP_PARSER_TYPE_TABLE, t - 1))
      BY <1>5 DEF init
    <2>2. ReturnedInv'
      BY <2>1, TypeTable DEF Returns, ReturnedInv, Translated, UrlFieldsRight
    <2>3. TypeOK'
      BY <1>0, <1>5 DEF init, TypeOK
    <2> QED BY <1>5, <2>2, <2>3
            DEF IInv, init, InProgram, TypeOK, ParserInv,
                FreedOnceUnlessCalled, DataOfOwnFrame
  <1>6. CASE free
    <2>1. ReturnedInv'
      BY <1>0, <1>6, SameReturned DEF free
    <2>2. TypeOK'
      BY <1>0, <1>6 DEF free, caml_http_parser_free, TypeOK
    <2> QED BY <1>6, <2>1, <2>2
            DEF IInv, free, caml_http_parser_free, ParserInv,
                FreedOnceUnlessCalled, DataOfOwnFrame
  <1>7. CASE finalise
    <2>1. ReturnedInv'
      BY <1>0, <1>7, SameReturned DEF finalise
    <2>2. TypeOK'
      BY <1>0, <1>7 DEF finalise, unreachable, caml_http_parser_free, TypeOK
    <2> QED BY <1>7, <2>1, <2>2
            DEF IInv, finalise, unreachable, caml_http_parser_free, TypeOK,
                ParserInv, FreedOnceUnlessCalled, DataOfOwnFrame
  <1>8. CASE execute
    <2>1. ReturnedInv'
      BY <1>8 DEF execute, Nothing, ReturnedInv, Translated, UrlFieldsRight
    <2>2. TypeOK'
      <3>1. depth' \in 0 .. MaxDepth /\ data' = depth' /\ depth' > 0
        <4>1. /\ depth < MaxDepth /\ depth' = depth + 1
              /\ data' = depth + 1
          BY <1>8, Zenon DEF execute, execute_sets_data
        <4>2. depth \in Nat /\ MaxDepth \in Nat
          BY <1>0, Depths, Zenon
        <4> QED BY <4>1, <4>2
      <3>2. data' \in 0 .. MaxDepth /\ (depth' > 0 => data' > 0)
        BY <3>1
      <3>3. proc' \in {"up", "use after free"}
        BY <1>8 DEF execute
      <3>4. inCb' \in BOOLEAN /\ nested' \in BOOLEAN
        BY <1>0, <1>8 DEF execute, TypeOK
      <3>5. /\ lib' \in Libraries /\ errno' \in Range(lib')
            /\ mem' \in {"none", "live", "freed", "freed twice"}
            /\ freed' \in BOOLEAN
        BY <1>0, <1>8, Zenon DEF execute, TypeOK
      <3> QED BY <3>1, <3>2, <3>3, <3>4, <3>5 DEF TypeOK
    <2>3. ParserInv'
      <3>1. nested' = (nested \/ depth > 0) /\ depth' = depth + 1
        BY <1>8, Zenon DEF execute
      <3>2. ~nested' => depth' <= 1
        <4>1. depth \in Nat
          BY <1>0, Depths, Zenon
        <4>2. CASE depth = 0
          BY <3>1, <4>2
        <4>3. CASE depth > 0
          BY <3>1, <4>3, Zenon
        <4> QED BY <4>1, <4>2, <4>3
      <3> QED BY <1>8, <3>1, <3>2
              DEF IInv, ParserInv, execute, execute_sets_data, InProgram
    <2>4. FreedOnceUnlessCalled' /\ DataOfOwnFrame'
      BY <1>0, <1>8
         DEF IInv, ParserInv, FreedOnceUnlessCalled, DataOfOwnFrame, execute,
             InProgram, TypeOK
    <2> QED BY <2>1, <2>2, <2>3, <2>4 DEF IInv
  <1>9. CASE callback
    <2>1. ReturnedInv'
      BY <1>0, <1>9, SameReturned DEF callback
    <2>2. TypeOK'
      BY <1>0, <1>9 DEF callback, TypeOK
    <2> QED BY <1>9, <2>1, <2>2
            DEF IInv, callback, Parsing, TypeOK, ParserInv,
                FreedOnceUnlessCalled, DataOfOwnFrame
  <1>10. CASE callback_returns
    <2>1. ReturnedInv'
      BY <1>0, <1>10, SameReturned DEF callback_returns
    <2>2. errno' \in Range(lib)
      BY <1>0, <1>10, Errors DEF callback_returns, TypeOK
    <2>3. TypeOK'
      BY <1>0, <1>10, <2>2 DEF callback_returns, TypeOK
    <2> QED BY <1>10, <2>1, <2>3
            DEF IInv, callback_returns, TypeOK, ParserInv,
                FreedOnceUnlessCalled, DataOfOwnFrame
  <1>11. CASE chunk
    <2>1. ReturnedInv'
      BY <1>0, <1>11, SameReturned DEF chunk
    <2>2. TypeOK'
      BY <1>0, <1>11 DEF chunk, native, TypeOK
    <2> QED BY <1>11, <2>1, <2>2
            DEF IInv, chunk, native, ParserInv, FreedOnceUnlessCalled,
                DataOfOwnFrame
  <1>12. CASE parse_error
    <2>1. ReturnedInv'
      BY <1>0, <1>12, SameReturned DEF parse_error
    <2>2. errno' \in Range(lib)
      BY <1>12 DEF parse_error
    <2>3. TypeOK'
      BY <1>0, <1>12, <2>2 DEF parse_error, TypeOK
    <2> QED BY <1>12, <2>1, <2>3
            DEF IInv, parse_error, ParserInv, FreedOnceUnlessCalled,
                DataOfOwnFrame
  <1>13. CASE execute_returns
    <2>1. ReturnedInv'
      BY <1>0, <1>13, SameReturned DEF execute_returns
    <2>2. TypeOK'
      <3>1. depth' \in 0 .. MaxDepth /\ (depth' > 0 => data' > 0)
        BY <1>0, <1>13, BoundsAssumption, Depths DEF execute_returns
      <3>2. inCb' \in BOOLEAN
        BY <1>13 DEF execute_returns
      <3> QED BY <1>0, <1>13, <3>1, <3>2, Zenon DEF execute_returns, TypeOK
    <2>3. ParserInv' /\ DataOfOwnFrame'
      <3>1. depth \in Nat
        BY <1>0, Depths, Zenon
      <3>2. ~nested => depth' = 0
        <4>1. depth' = depth - 1 /\ depth > 0
          BY <1>13, Zenon DEF execute_returns
        <4>2. ~nested => depth <= 1
          BY Zenon DEF IInv, ParserInv
        <4>3. depth <= 1 => depth' = 0
          BY <3>1, <4>1
        <4> QED BY <4>2, <4>3, Zenon
      <3>3. /\ inCb' = (depth > 1) /\ depth' = depth - 1 /\ depth > 0
            /\ UNCHANGED <<proc, mem, data, freed, nested>>
        BY <1>13, Zenon DEF execute_returns
      <3>4. (depth > 1 => depth' > 0) /\ (depth' = 0 => ~(depth > 1))
        BY <3>1, <3>3
      <3>5. depth' = 0 => ~(depth' > 0) /\ depth' <= 1
        OBVIOUS
      <3>6. /\ inCb' => depth' > 0
            /\ ~nested => ~inCb' /\ ~(depth' > 0) /\ depth' <= 1
        BY <3>2, <3>3, <3>4, <3>5, Zenon
      <3> QED BY <3>3, <3>6, Zenon DEF IInv, ParserInv, DataOfOwnFrame
    <2>4. FreedOnceUnlessCalled'
      BY <1>13 DEF IInv, FreedOnceUnlessCalled, execute_returns
    <2> QED BY <2>1, <2>2, <2>3, <2>4 DEF IInv
  <1>14. CASE caml_http_parser_pause
    <2>1. ReturnedInv'
      BY <1>14
         DEF caml_http_parser_pause, Nothing, ReturnedInv, Translated,
             UrlFieldsRight
    <2>2. errno' \in Range(lib)
      BY <1>0, <1>14, Errors DEF caml_http_parser_pause, TypeOK
    <2>3. TypeOK'
      BY <1>0, <1>14, <2>2 DEF caml_http_parser_pause, TypeOK
    <2> QED BY <1>14, <2>1, <2>3
            DEF IInv, caml_http_parser_pause, InProgram, ParserInv,
                FreedOnceUnlessCalled, DataOfOwnFrame
  <1>15. ASSUME NEW kind \in {"errno", "error name", "keep_alive", "is_final",
                              "upgrade"},
                NEW asked, NEW value, Reads(kind, asked, value)
         PROVE  IInv'
    <2>1. ReturnedInv'
      BY <1>15, OtherKinds DEF Reads
    <2> QED BY <1>15, <2>1, ReadsInv
  <1>16. CASE Unset
    <2>1. ReturnedInv'
      BY <1>16, OtherKinds DEF Unset
    <2>2. TypeOK'
      BY <1>0, <1>16, Zenon DEF Unset, native, TypeOK
    <2>3. ParserInv' /\ FreedOnceUnlessCalled' /\ DataOfOwnFrame'
      BY <1>16
         DEF IInv, Unset, InProgram, native, ParserInv, FreedOnceUnlessCalled,
             DataOfOwnFrame
    <2> QED BY <2>1, <2>2, <2>3 DEF IInv
  <1> QED BY <1>1, <1>2, <1>3, <1>4, <1>5, <1>6, <1>7, <1>8, <1>9, <1>10,
             <1>11, <1>12, <1>13, <1>14, <1>15, <1>16
          DEF Next, caml_http_errno_code, errno_name,
              caml_http_should_keep_alive, caml_http_body_is_final,
              caml_http_is_upgrade, caml_http_method_code,
              caml_http_status_code

THEOREM Inductive == Spec => []IInv
  <1>1. IInv /\ [Next]_vars => IInv'
    <2> SUFFICES ASSUME IInv, [Next]_vars
                 PROVE  IInv'
      OBVIOUS
    <2>1. CASE UNCHANGED vars
      <3>1. ReturnedInv'
        BY <2>1, SameReturned DEF vars, IInv
      <3>2. TypeOK'
        BY <2>1, Zenon DEF vars, IInv, TypeOK
      <3>3. ParserInv'
        BY <2>1, Zenon DEF vars, IInv, ParserInv
      <3>4. FreedOnceUnlessCalled' /\ DataOfOwnFrame'
        BY <2>1, Zenon DEF vars, IInv, FreedOnceUnlessCalled, DataOfOwnFrame
      <3> QED BY <3>1, <3>2, <3>3, <3>4 DEF IInv
    <2> QED BY <2>1, StepInv
  <1> QED BY <1>1, InitInv, PTL DEF Spec

(* Every variable keeps its type, and data is set while a parser is        *)
(* executed.                                                               *)
THEOREM TypeCorrect == Spec => []TypeOK
  <1>1. IInv => TypeOK
    BY DEF IInv
  <1> QED BY <1>1, Inductive, PTL

(* The tables stand in the order of the constructors.                      *)
THEOREM TranslatedRight == Spec => []Translated
  <1>1. IInv => Translated
    BY DEF IInv, ReturnedInv
  <1> QED BY <1>1, Inductive, PTL

(* No field of a URL reaches beyond its end, however long it is.           *)
THEOREM UrlsRight == Spec => []UrlFieldsRight
  <1>1. IInv => UrlFieldsRight
    BY DEF IInv, ReturnedInv
  <1> QED BY <1>1, Inductive, PTL

(* A program that does not call free has its parser freed once, and does   *)
(* not use it afterwards.                                                  *)
THEOREM FreedOnce == Spec => []FreedOnceUnlessCalled
  <1>1. IInv => FreedOnceUnlessCalled
    BY DEF IInv
  <1> QED BY <1>1, Inductive, PTL

(* Without nested executions a callback finds the settings of its own.     *)
THEOREM OwnFrame == Spec => []DataOfOwnFrame
  <1>1. IInv => DataOfOwnFrame
    BY DEF IInv
  <1> QED BY <1>1, Inductive, PTL

----------------------------------------------------------------------------
(* The error of the parser and the constructor OCaml takes its number for. *)

(* What the tables say of the first nine errors and of the others.         *)
LEMMA FirstNine ==
  ASSUME NEW k \in 1 .. 9
  PROVE  /\ Meant(http_errno[k]) = FirstErrors[k] <=> k <= 2
         /\ FirstErrors[k] \in {"OK", "CB_message_begin"} <=> k <= 2
         /\ \/ k <= 2 \/ FirstErrors[k] = "CB_status"
            \/ FirstErrors[k] \in
                 {"CB_url", "CB_header_field", "CB_header_value",
                  "CB_headers_complete", "CB_body", "CB_message_complete"}
  BY DEF http_errno, FirstErrors, Meant

LEMMA OtherErrors ==
  ASSUME NEW k \in 10 .. 30
  PROVE  /\ Meant(http_errno[k]) = http_errno[k]
         /\ http_errno[k] \notin
              {"OK", "CB_message_begin", "CB_status_complete", "CB_url",
               "CB_header_field", "CB_header_value", "CB_headers_complete",
               "CB_body", "CB_message_complete"}
  BY DEF http_errno, Meant

LEMMA NamesOfErrors ==
  /\ Len(http_errno) = 30
  /\ Range(http_errno) = {http_errno[k] : k \in 1 .. 30}
  /\ "CB_status" \notin Range(http_errno)
  /\ "undefined" \notin Range(http_errno)
  /\ Meant("undefined") = "undefined"
  <1>1. Len(http_errno) = 30
    BY DEF http_errno
  <1>2. Range(http_errno) = {http_errno[k] : k \in 1 .. 30}
    BY DEF http_errno, Range
  <1>3. \A k \in 1 .. 30 : http_errno[k] \notin {"CB_status", "undefined"}
    BY DEF http_errno
  <1> QED BY <1>1, <1>2, <1>3 DEF Meant

LEMMA FirstOfOCaml ==
  /\ \A k \in 1 .. 2 : http_errno[k] \in {"OK", "CB_message_begin"}
  /\ \A k \in 3 .. 9 : http_errno[k] \in
       {"CB_status_complete", "CB_url", "CB_header_field", "CB_header_value",
        "CB_headers_complete", "CB_body", "CB_message_complete"}
  BY DEF http_errno

(* What the assumptions say of a release, position by position.            *)
LEMMA Known ==
  ASSUME NEW order \in Libraries
  PROVE  /\ Len(order) \in Nat /\ DOMAIN order = 1 .. Len(order)
         /\ Len(order) >= 30
         /\ \A k \in 1 .. 9 : order[k] = FirstErrors[k]
         /\ \A k \in 10 .. 30 :
              IF Chunks(order)
              THEN \E n \in k + 1 .. Len(order) : order[n] = http_errno[k]
              ELSE order[k] = http_errno[k]
         /\ \A k \in 1 .. Len(order) : order[k] # "undefined"
         /\ \A j, k \in 1 .. Len(order) : order[j] = order[k] => j = k
  <1>1. Len(order) \in Nat /\ DOMAIN order = 1 .. Len(order)
    <2>1. order \in Seq(Range(order))
      BY OrderAssumption
    <2> QED BY <2>1
  <1>2. \A j, k \in 1 .. Len(order) : order[j] = order[k] => j = k
    BY <1>1, LibrariesAssumption, Zenon DEF IsInjective
  <1>3. \A k \in 1 .. Len(order) : order[k] # "undefined"
    BY <1>1, OrderAssumption, Zenon DEF Range
  <1> QED BY <1>1, <1>2, <1>3, OrderAssumption, Zenon

(* The error at position n + 1 of the library is in SameNumber if and only *)
(* if OCaml has the same error there.                                      *)
LEMMA SameThere ==
  ASSUME NEW i \in 1 .. Len(lib), lib \in Libraries
  PROVE  /\ i <= 30 =>
              (Meant(http_errno[i]) = lib[i] <=> lib[i] \in SameNumber)
         /\ i > 30 => lib[i] # "undefined" /\ lib[i] \notin SameNumber
  <1>d. /\ Len(lib) \in Nat /\ Len(lib) >= 30
        /\ \A k \in 1 .. 9 : lib[k] = FirstErrors[k]
        /\ \A k \in 1 .. Len(lib) : lib[k] # "undefined"
        /\ \A j, k \in 1 .. Len(lib) : lib[j] = lib[k] => j = k
    BY Known
  <1>e. ASSUME ~Chunks(lib), NEW k \in 10 .. 30
        PROVE  lib[k] = http_errno[k]
    BY <1>e, Known
  <1> DEFINE Seven == {"CB_status_complete", "CB_url", "CB_header_field",
                       "CB_header_value", "CB_headers_complete", "CB_body",
                       "CB_message_complete"}
  <1>a. SameNumber = {"OK", "CB_message_begin"} \cup
                     (IF Chunks(lib) THEN {} ELSE Range(http_errno) \ Seven)
    BY Zenon DEF SameNumber
  <1>b. lib[1] = "OK" /\ lib[2] = "CB_message_begin"
    <2>1. 1 \in 1 .. 9 /\ 2 \in 1 .. 9
      OBVIOUS
    <2>2. FirstErrors[1] = "OK" /\ FirstErrors[2] = "CB_message_begin"
      BY DEF FirstErrors
    <2> QED BY <1>d, <2>1, <2>2
  <1>c. i > 2 => lib[i] \notin {"OK", "CB_message_begin"}
    <2>1. 1 \in 1 .. Len(lib) /\ 2 \in 1 .. Len(lib)
      BY <1>d
    <2>2. i > 2 => i # 1 /\ i # 2
      OBVIOUS
    <2> QED BY <1>d, <1>b, <2>1, <2>2
  <1>1. CASE i <= 9
    <2>1. i \in 1 .. 9 /\ ~(i > 30) /\ i <= 30
      BY <1>1
    <2>2. lib[i] = FirstErrors[i]
      BY <1>d, <2>1
    <2>3. i <= 2 => lib[i] \in SameNumber
      BY <1>a, <2>1, <2>2, FirstNine
    <2>4. ~(i <= 2) => lib[i] \notin SameNumber
      <3>1. \/ i <= 2 \/ lib[i] = "CB_status" \/ lib[i] \in Seven
        BY <2>1, <2>2, FirstNine
      <3>2. i <= 2 \/ lib[i] \notin {"OK", "CB_message_begin"}
        BY <2>1, <2>2, FirstNine
      <3> QED BY <1>a, <3>1, <3>2, NamesOfErrors
    <2> QED BY <2>1, <2>2, <2>3, <2>4, FirstNine
  <1>2. CASE i > 9 /\ i <= 30 /\ ~Chunks(lib)
    <2>1. i \in 10 .. 30 /\ ~(i > 30) /\ i \in 1 .. 30
      BY <1>2
    <2>2. lib[i] = http_errno[i]
      BY <1>2, <1>e, <2>1
    <2>3. Meant(http_errno[i]) = http_errno[i] /\ http_errno[i] \notin Seven
      BY <2>1, OtherErrors
    <2>4. http_errno[i] \in Range(http_errno)
      BY <2>1, NamesOfErrors
    <2> QED BY <1>a, <1>2, <2>1, <2>2, <2>3, <2>4
  <1>3. CASE i > 9 /\ i <= 30 /\ Chunks(lib)
    <2>1. i \in 10 .. 30 /\ i > 2 /\ ~(i > 30)
      BY <1>3
    <2>2. PICK n \in i + 1 .. Len(lib) : lib[n] = http_errno[i]
      BY <1>3, <2>1, Known
    <2>a. n \in 1 .. Len(lib) /\ n # i
      BY <1>d
    <2>3. lib[n] # lib[i]
      BY <1>d, <2>a
    <2>4. Meant(http_errno[i]) = http_errno[i]
      BY <2>1, OtherErrors
    <2>5. lib[i] \notin SameNumber
      BY <1>a, <1>c, <1>3, <2>1
    <2> QED BY <2>1, <2>2, <2>3, <2>4, <2>5
  <1>4. CASE i > 30
    <2>1. lib[i] # "undefined"
      BY <1>d
    <2>2. i > 2 /\ ~(i <= 30)
      BY <1>4
    <2>3. ~Chunks(lib) => lib[i] \notin Range(http_errno) \ Seven
      <3> SUFFICES ASSUME ~Chunks(lib), NEW k \in 1 .. 30,
                          lib[i] = http_errno[k], lib[i] \notin Seven
                   PROVE  FALSE
        BY NamesOfErrors
      <3>1. CASE k \in 10 .. 30
        <4>1. lib[k] = http_errno[k]
          BY <1>e, <3>1
        <4>2. k \in 1 .. Len(lib) /\ k # i
          BY <1>d, <1>4
        <4> QED BY <1>d, <4>1, <4>2
      <3>2. CASE k \in 3 .. 9
        BY <3>2, FirstOfOCaml
      <3>3. CASE k \in 1 .. 2
        <4>1. http_errno[k] \in {"OK", "CB_message_begin"}
          BY <3>3, FirstOfOCaml
        <4> QED BY <1>c, <2>2, <4>1
      <3> QED BY <3>1, <3>2, <3>3
    <2> QED BY <1>a, <1>c, <2>1, <2>2, <2>3
  <1> QED BY <1>1, <1>2, <1>3, <1>4

(* The parser has an error of its release, so that it has a number.        *)
LEMMA NumberFound ==
  ASSUME TypeOK
  PROVE  /\ Number(errno) + 1 \in 1 .. Len(lib) /\ Number(errno) \in Nat
         /\ lib[Number(errno) + 1] = errno
  <1>1. lib \in Libraries /\ errno \in Range(lib)
    BY Zenon DEF TypeOK
  <1>2. Len(lib) \in Nat /\ DOMAIN lib = 1 .. Len(lib)
    BY <1>1, Known
  <1>3. PICK k \in 1 .. Len(lib) : lib[k] = errno
    BY <1>1, <1>2, Zenon DEF Range
  <1>4. \E n \in 0 .. Len(lib) - 1 : lib[n + 1] = errno
    <2>1. k - 1 \in 0 .. Len(lib) - 1 /\ (k - 1) + 1 = k
      BY <1>2
    <2> QED BY <1>3, <2>1, Zenon
  <1>5. Number(errno) \in 0 .. Len(lib) - 1 /\ lib[Number(errno) + 1] = errno
    BY <1>4, Zenon DEF Number
  <1> QED BY <1>2, <1>5

LEMMA MisreadOrNot ==
  ASSUME TypeOK
  PROVE  /\ Meant(Constructor(errno_code)) = errno <=> errno \in SameNumber
         /\ ml2c(HTTP_ERRNO_TABLE, errno_code) = errno <=> errno \in SameNumber
  <1>1. PICK i \in 1 .. Len(lib) : /\ i = Number(errno) + 1 /\ lib[i] = errno
    BY NumberFound, Zenon
  <1>2. lib \in Libraries
    BY Zenon DEF TypeOK
  <1>3. Number(errno) \in Nat
    BY NumberFound, Zenon
  <1>4. Len(HTTP_ERRNO_TABLE) = 30
    BY DEF HTTP_ERRNO_TABLE
  <1>5. CASE i <= 30
    <2>0. i \in 1 .. 30 /\ i - 1 = Number(errno) /\ Number(errno) < 30
      <3>1. \A n \in Nat : n + 1 = i => i \in 1 .. 30 /\ i - 1 = n /\ n < 30
        BY <1>5
      <3> QED BY <1>1, <1>3, <3>1
    <2>1. Constructor(errno_code) = http_errno[i]
      BY <1>1, <2>0, NamesOfErrors, Zenon DEF Constructor, errno_code
    <2>2. i \in 1 .. Len(http_errno)
      BY <2>0, NamesOfErrors
    <2>3. ml2c(HTTP_ERRNO_TABLE, errno_code) = Meant(http_errno[i])
      BY <2>0, <2>2, ErrnoTable, Zenon DEF errno_code
    <2> QED BY <1>1, <1>2, <1>5, <2>1, <2>3, SameThere
  <1>6. CASE i > 30
    <2>1. ~(Number(errno) < 30)
      BY <1>1, <1>3, <1>6
    <2>2. Constructor(errno_code) = "undefined"
      BY <2>1, NamesOfErrors DEF Constructor, errno_code
    <2>3. ml2c(HTTP_ERRNO_TABLE, errno_code) = "undefined"
      BY <2>1, <1>4 DEF ml2c, errno_code
    <2>4. lib[i] # "undefined" /\ lib[i] \notin SameNumber
      BY <1>2, <1>6, SameThere
    <2> QED BY <1>1, <2>2, <2>3, <2>4, NamesOfErrors
  <1> QED BY <1>5, <1>6

LEMMA SameErrors ==
  ASSUME ErrorMisread, UNCHANGED <<returned, lib>>
  PROVE  ErrorMisread'
  BY DEF ErrorMisread, SameNumber, Chunks

LEMMA OtherKindsRead ==
  ASSUME NEW kind, kind \notin {"errno", "error name"}, NEW asked, NEW value,
         Returns(kind, asked, value)
  PROVE  ErrorMisread'
  BY DEF Returns, ErrorMisread

LEMMA MisreadStep ==
  ASSUME TypeOK, ErrorMisread, [Next]_vars
  PROVE  ErrorMisread'
  <1>1. CASE caml_http_errno_code
    <2>1. /\ returned' = [kind |-> "errno", asked |-> errno,
                          value |-> Constructor(errno_code)]
          /\ lib' = lib
      BY <1>1 DEF caml_http_errno_code, Reads, Returns, native
    <2>2. SameNumber' = SameNumber
      BY <2>1 DEF SameNumber, Chunks
    <2> QED BY <2>1, <2>2, MisreadOrNot DEF ErrorMisread
  <1>2. CASE errno_name
    <2>1. /\ returned' = [kind |-> "error name", asked |-> errno,
                          value |-> ml2c(HTTP_ERRNO_TABLE, errno_code)]
          /\ lib' = lib
      BY <1>2 DEF errno_name, Reads, Returns, native
    <2>2. SameNumber' = SameNumber
      BY <2>1 DEF SameNumber, Chunks
    <2> QED BY <2>1, <2>2, MisreadOrNot DEF ErrorMisread
  <1>3. CASE UNCHANGED <<returned, lib>>
    BY <1>3, SameErrors
  <1>4. CASE \E kind, asked, value :
               /\ kind \notin {"errno", "error name"}
               /\ Returns(kind, asked, value)
    BY <1>4, OtherKindsRead
  <1>5. CASE caml_http_method_str \/ caml_http_errno_name
             \/ caml_http_parser_version \/ caml_http_parser_parse_url
    <2>1. ASSUME NEW kind \in {"method", "name", "version", "url"},
                 NEW asked, NEW value, Pure(kind, asked, value)
          PROVE  ErrorMisread'
      BY <2>1, OtherKindsRead DEF Pure
    <2>2. CASE caml_http_method_str
      BY <2>1, <2>2 DEF caml_http_method_str
    <2>3. CASE caml_http_errno_name
      BY <2>1, <2>3 DEF caml_http_errno_name
    <2>4. CASE caml_http_parser_version
      BY <2>1, <2>4 DEF caml_http_parser_version
    <2>5. CASE caml_http_parser_parse_url
      BY <2>1, <2>5, Zenon DEF caml_http_parser_parse_url
    <2> QED BY <1>5, <2>2, <2>3, <2>4, <2>5
  <1>6. CASE init \/ execute \/ caml_http_parser_pause
    <2>1. ASSUME returned' = Nothing
          PROVE  ErrorMisread'
      BY <2>1 DEF ErrorMisread, Nothing
    <2>2. CASE init
      BY <1>4, <2>2 DEF init
    <2> QED BY <1>6, <2>1, <2>2 DEF execute, caml_http_parser_pause
  <1>7. CASE free \/ finalise \/ callback \/ callback_returns \/ chunk
             \/ parse_error \/ execute_returns \/ UNCHANGED vars
    BY <1>3, <1>7
       DEF free, finalise, callback, callback_returns, chunk, parse_error,
           execute_returns, native, vars
  <1>8. CASE caml_http_should_keep_alive \/ caml_http_body_is_final
             \/ caml_http_is_upgrade \/ caml_http_method_code
             \/ caml_http_status_code
    BY <1>4, <1>8
       DEF caml_http_should_keep_alive, caml_http_body_is_final,
           caml_http_is_upgrade, caml_http_method_code,
           caml_http_status_code, Reads, Unset
  <1> QED BY <1>1, <1>2, <1>5, <1>6, <1>7, <1>8, Zenon DEF Next

(* The C number of an error is the right one where the enumerations agree, *)
(* and nowhere else.                                                       *)
THEOREM ErrorsMisread == Spec => []ErrorMisread
  <1>1. Init => ErrorMisread
    BY DEF Init, Nothing, ErrorMisread
  <1> QED BY <1>1, TypeCorrect, MisreadStep, PTL DEF Spec
=============================================================================
