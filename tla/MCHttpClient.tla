---------------------------- MODULE MCHttpClient ----------------------------
EXTENDS HttpClient

(* errno.h of Linux, but for a system that hides EHOSTDOWN and has no      *)
(* EALREADY, so that libuv's own numbers occur.                            *)
MCerrno ==
  <<7, 13, 98, 99, 97, 11, 0, 9, 16, 125, 0, 103, 111, 104, 89, 17, 14, 113,
    4, 22, 5, 106, 21, 40, 24, 90, 36, 100, 101, 23, 105, 19, 2, 12, 0, 28,
    38, 107, 20, 39, 88, 95, 1, 32, 71, 93, 91, 30, 108, 29, 3, 110, 26, 18,
    27, 92, 34, 6, 31, 0>>

(* ECANCELED, ECONNREFUSED, EHOSTUNREACH, ETIMEDOUT, EHOSTDOWN *)
MCConnectErrors == {10, 13, 18, 52, 60}
=============================================================================
