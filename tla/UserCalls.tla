----------------------------- MODULE UserCalls -----------------------------
(***************************************************************************)
(* How a user program's library call reaches the kernel: the wrapper of    *)
(* src/user/libc puts the call's number in a7 and traps, and               *)
(* src/src/syscall.c looks the number up in its table of handlers.         *)
(***************************************************************************)
EXTENDS Integers, Sequences

(* enum syscall_nos, and the numbers that stdio.c writes out. *)
SyscallNumber ==
  [exit |-> 0, putchar |-> 1, getchar |-> 2, yield |-> 3, sleep |-> 4, get_keyboard |-> 5,
   get_cursor |-> 6, get_gpu |-> 7, malloc |-> 8, free |-> 9, fstat |-> 10, open |-> 11,
   close |-> 12, read |-> 13, write |-> 14, gpu_redraw |-> 15, lseek |-> 16,
   unlink |-> 17, chmod |-> 18, mkdir |-> 19, rmdir |-> 20, chdir |-> 21, getcwd |-> 22,
   mknod |-> 23, fork |-> 24, exec |-> 25, wait |-> 26, kill |-> 27]

(* SYSCALLS, the kernel's table. *)
Handlers ==
  <<"exit", "putchar", "getchar", "yield", "sleep", "get_keyboard", "get_cursor", "get_gpu",
    "malloc", "free", "fstat", "open", "close", "read", "write", "gpu_redraw">>

SyscallHandle(n) == IF n >= Len(Handlers) THEN "EINVAL" ELSE Handlers[n + 1]

(* The handler that a wrapper's trap ends in; its result is a0. *)
Ecall(name) == SyscallHandle(SyscallNumber[name])

(* The wrappers that the kernel has no handler for. *)
Unhandled == {"lseek", "unlink", "chmod", "mkdir", "rmdir", "chdir", "getcwd", "mknod",
              "fork", "exec", "wait", "kill"}

(* syscall.c: "These syscall numbers MUST match the user/libc numbers!" *)
ASSUME NumbersMatch ==
  \A name \in DOMAIN SyscallNumber :
    Ecall(name) = IF name \in Unhandled THEN "EINVAL" ELSE name
=============================================================================
