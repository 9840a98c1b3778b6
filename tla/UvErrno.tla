------------------------------- MODULE UvErrno -------------------------------
(***************************************************************************)
(* The numbers libuv reports errors by (uv-errno.h, uv.h): the status of   *)
(* client_connect_cb, which the callback of Http.request gets as it is,    *)
(* and the negative lengths of read_cb.  An error is -errno where the      *)
(* system has it, else a number of libuv's own.  The system errors are     *)
(* numbered here in the order of uv-errno.h.                               *)
(***************************************************************************)
EXTENDS Integers, Sequences

CONSTANTS
  errno,   \* external, errno.h: of each system error, 0 if it has none
  BSD      \* is it a system that hides EHOSTDOWN, which is 64?

(* uv-errno.h: the errors numbered from -4093, without three gaps, ...     *)
E2BIG_EAGAIN ==
  <<"E2BIG", "EACCES", "EADDRINUSE", "EADDRNOTAVAIL", "EAFNOSUPPORT",
    "EAGAIN">>

(* ... and those numbered from -4084. *)
EALREADY_ENOBUFS ==
  <<"EALREADY", "EBADF", "EBUSY", "ECANCELED", "ECHARSET", "ECONNABORTED",
    "ECONNREFUSED", "ECONNRESET", "EDESTADDRREQ", "EEXIST", "EFAULT",
    "EHOSTUNREACH", "EINTR", "EINVAL", "EIO", "EISCONN", "EISDIR", "ELOOP",
    "EMFILE", "EMSGSIZE", "ENAMETOOLONG", "ENETDOWN", "ENETUNREACH",
    "ENFILE", "ENOBUFS">>

ENODEV_EROFS ==
  <<"ENODEV", "ENOENT", "ENOMEM", "ENONET", "ENOSPC", "ENOSYS", "ENOTCONN",
    "ENOTDIR", "ENOTEMPTY", "ENOTSOCK", "ENOTSUP", "EPERM", "EPIPE",
    "EPROTO", "EPROTONOSUPPORT", "EPROTOTYPE", "EROFS">>

ESHUTDOWN_EHOSTDOWN ==
  <<"ESHUTDOWN", "ESPIPE", "ESRCH", "ETIMEDOUT", "ETXTBSY", "EXDEV",
    "EFBIG", "ENOPROTOOPT", "ERANGE", "ENXIO", "EMLINK", "EHOSTDOWN">>

Errnos ==
  E2BIG_EAGAIN \o EALREADY_ENOBUFS \o ENODEV_EROFS \o ESHUTDOWN_EHOSTDOWN

EHOSTDOWN == 60
Systems == 1 .. EHOSTDOWN

(* Resolver errors. *)
EAI_ADDRFAMILY_EAI_PROTOCOL ==
  <<"EAI_ADDRFAMILY", "EAI_AGAIN", "EAI_BADFLAGS", "EAI_CANCELED",
    "EAI_FAIL", "EAI_FAMILY", "EAI_MEMORY", "EAI_NODATA", "EAI_NONAME",
    "EAI_OVERFLOW", "EAI_SERVICE", "EAI_SOCKTYPE", "EAI_BADHINTS",
    "EAI_PROTOCOL">>

Resolver == 1 .. 14

(* The numbers from 3000 on are libuv's own. *)
HighestErrno == 2999

(* No system numbers two of these errors alike, nor higher than that; a    *)
(* BSD has no other error 64 than the one it hides.                        *)
ASSUME ErrnoAssumption ==
  /\ errno \in [Systems -> 0 .. HighestErrno]
  /\ BSD \in BOOLEAN
  /\ \A i, j \in Systems : errno[i] = errno[j] /\ errno[i] # 0 => i = j
  /\ BSD /\ errno[EHOSTDOWN] = 0 => \A i \in Systems : errno[i] # 64

----------------------------------------------------------------------------
UV__EOF == -4095
UV__UNKNOWN == -4094

(* -3012 is not used. *)
UV__EAI(k) == IF k <= 12 THEN -2999 - k ELSE -3000 - k

Fallback(i) ==
  IF i <= Len(E2BIG_EAGAIN) THEN i - 4094
  ELSE IF i = EHOSTDOWN /\ BSD THEN -64
  ELSE i - 4091

(* Mutant: an error is its errno. *)
UV__errno_positive(i) == IF errno[i] # 0 THEN errno[i] ELSE Fallback(i)

UV__errno(i) == IF errno[i] # 0 THEN -errno[i] ELSE Fallback(i)

(* The number the system itself uses, which libuv negates.                 *)
SystemNumber(i) == IF errno[i] # 0 THEN errno[i] ELSE 64

(* uv.h: the errors of the enumeration. *)
UV_ERRNO_MAP ==
  <<"E2BIG", "EACCES", "EADDRINUSE", "EADDRNOTAVAIL", "EAFNOSUPPORT",
    "EAGAIN", "EAI_ADDRFAMILY", "EAI_AGAIN", "EAI_BADFLAGS",
    "EAI_BADHINTS", "EAI_CANCELED", "EAI_FAIL", "EAI_FAMILY", "EAI_MEMORY",
    "EAI_NODATA", "EAI_NONAME", "EAI_OVERFLOW", "EAI_PROTOCOL",
    "EAI_SERVICE", "EAI_SOCKTYPE", "EALREADY", "EBADF", "EBUSY",
    "ECANCELED", "ECHARSET", "ECONNABORTED", "ECONNREFUSED", "ECONNRESET",
    "EDESTADDRREQ", "EEXIST", "EFAULT", "EFBIG", "EHOSTUNREACH", "EINTR",
    "EINVAL", "EIO", "EISCONN", "EISDIR", "ELOOP", "EMFILE", "EMSGSIZE",
    "ENAMETOOLONG", "ENETDOWN", "ENETUNREACH", "ENFILE", "ENOBUFS",
    "ENODEV", "ENOENT", "ENOMEM", "ENONET", "ENOPROTOOPT", "ENOSPC",
    "ENOSYS", "ENOTCONN", "ENOTDIR", "ENOTEMPTY", "ENOTSOCK", "ENOTSUP",
    "EPERM", "EPIPE", "EPROTO", "EPROTONOSUPPORT", "EPROTOTYPE", "ERANGE",
    "EROFS", "ESHUTDOWN", "ESPIPE", "ESRCH", "ETIMEDOUT", "ETXTBSY",
    "EXDEV", "UNKNOWN", "EOF", "ENXIO", "EMLINK", "EHOSTDOWN">>

(* The macros UV__<name>. *)
UV__(name) ==
  CASE name = "EOF" -> UV__EOF
    [] name = "UNKNOWN" -> UV__UNKNOWN
    [] \E i \in Systems : Errnos[i] = name ->
         UV__errno(CHOOSE i \in Systems : Errnos[i] = name)
    [] OTHER ->
         UV__EAI(CHOOSE k \in Resolver : EAI_ADDRFAMILY_EAI_PROTOCOL[k] = name)

(* enum uv_errno_t: a number for each of them. *)
uv_errno_t == [k \in DOMAIN UV_ERRNO_MAP |-> UV__(UV_ERRNO_MAP[k])]
UV_ERRNO_MAX == UV__EOF - 1
=============================================================================
