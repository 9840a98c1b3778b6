---------------------------- MODULE MCHttpParser ----------------------------
EXTENDS HttpParser

ErrorsOf(k, n) == SubSeq(http_errno, k, n)
ForChunks == <<"CB_chunk_header", "CB_chunk_complete">>

(* Four orders of the library: without and with callbacks for chunks, with *)
(* a new error in between, and with one more after all others.             *)
MCLibraries ==
  LET unexpected == FirstErrors \o ForChunks \o ErrorsOf(10, 24)
                      \o <<"UNEXPECTED_CONTENT_LENGTH">> \o ErrorsOf(25, 30)
  IN  {FirstErrors \o ErrorsOf(10, 30),
       FirstErrors \o ForChunks \o ErrorsOf(10, 30),
       unexpected,
       Append(unexpected, "INVALID_TRANSFER_ENCODING")}
=============================================================================
