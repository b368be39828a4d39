------------------------------ MODULE Console ------------------------------
(***************************************************************************)
(* What is typed, from the serial port to the command that is run: the     *)
(* UART's FIFO, the machine-mode interrupt that moves it into the ring of  *)
(* src/sbi/src/uart.c, getchar through the kernel and the firmware, and    *)
(* the line editors of src/user/console.c and, compiled in on request, of  *)
(* src/src/main.c.                                                         *)
(*                                                                         *)
(* The interrupt may be taken on one hart while another pops: each push    *)
(* and pop holds uart_mutex throughout and is one step, the loops around   *)
(* them are not.  got, kept and ran are not in the code: what getchar      *)
(* returned (an empty ring only where an escape sequence asked), what the  *)
(* ring should have taken, and the commands run.                           *)
(***************************************************************************)
EXTENDS UserCalls, SequencesExt

CONSTANTS
  Typeable,     \* characters typed: "a", "b", ..., and the names below
  MaxTyped,     \* the bound on characters typed
  FifoDepth,    \* the bound on the UART's FIFO: 16 in the device
  UartRing,     \* UART_MAX_BUFFER_SIZE: 128
  LineSize      \* the editor's array: 256, and 56 in the kernel

VARIABLES
  editor,       \* "user" or "kernel"
  fifo,         \* the UART's receive FIFO
  claimed,      \* a hart is in uart_handle_irq
  uart,         \* uart_buffer, its start and its size
  pc,           \* where the editor is: "char", "esc1", "esc2", "ended"
  line, at,     \* command and at
  typed,        \* how many characters were typed
  got, kept, ran

consoleVars == <<editor, fifo, claimed, uart, pc, line, at, typed, got, kept, ran>>

Nul == "nul"              \* the terminator
None == "0xff"            \* what uart_get and uart_ring_pop return for nothing
Newline == "nl"
Delete == "del"
Escape == "esc"
Eof == "eof"

ConsoleInit ==
  /\ editor \in {"user", "kernel"}
  /\ fifo = << >>
  /\ claimed = FALSE
  /\ uart = [start |-> 0, size |-> 0, buffer |-> [k \in 0 .. (UartRing - 1) |-> Nul]]
  /\ pc = "char"
  /\ line = [k \in 0 .. (LineSize - 1) |-> "junk"]
  /\ at = 0
  /\ typed = 0
  /\ got = << >>
  /\ kept = << >>
  /\ ran = << >>

-----------------------------------------------------------------------------
(* src/sbi/src/uart.c and src/sbi/src/plic.c *)

UartRingPop(u) ==
  IF u.size = 0 THEN u
  ELSE [u EXCEPT !.start = (u.start + 1) % UartRing, !.size = @ - 1]

UartRingTop(u) == IF u.size = 0 THEN None ELSE u.buffer[u.start]

UartRingPushAtSize(u, c) ==
  IF u.size = UartRing THEN u
  ELSE [u EXCEPT !.buffer[u.size] = c, !.size = @ + 1]

UartRingPush(u, c) ==
  IF u.size = UartRing THEN u
  ELSE [u EXCEPT !.buffer[(u.start + u.size) % UartRing] = c, !.size = @ + 1]

(* A key reaches the UART. *)
Type(c) ==
  /\ typed < MaxTyped
  /\ Len(fifo) < FifoDepth
  /\ fifo' = Append(fifo, c)
  /\ typed' = typed + 1
  /\ UNCHANGED <<editor, claimed, uart, pc, line, at, got, kept, ran>>

PlicClaim ==
  /\ ~claimed
  /\ fifo # << >>
  /\ claimed' = TRUE
  /\ UNCHANGED <<editor, fifo, uart, pc, line, at, typed, got, kept, ran>>

Popped == SelectSeq(got, LAMBDA c : c # None)
HasRoom == Len(kept) - Len(Popped) < UartRing

(* One turn of the loop of uart_handle_irq.  It ends on an empty FIFO and  *)
(* on a character that is 0xff itself.                                     *)
UartHandleIrq ==
  LET c == IF fifo = << >> THEN None ELSE Head(fifo)
  IN  /\ claimed
      /\ fifo' = IF fifo = << >> THEN fifo ELSE Tail(fifo)
      /\ claimed' = (c # None)
      /\ uart' = IF c = None THEN uart ELSE UartRingPush(uart, c)
      /\ kept' = IF c # None /\ HasRoom THEN Append(kept, c) ELSE kept
      /\ UNCHANGED <<editor, pc, line, at, typed, got, ran>>

-----------------------------------------------------------------------------
(* getchar: the user's library traps into the kernel, which asks the       *)
(* firmware, which pops the ring; the kernel's console asks the firmware.  *)
Getchar(c) ==
  /\ editor = "user" => Ecall("getchar") = "getchar"
  /\ c = UartRingTop(uart)
  /\ uart' = UartRingPop(uart)
  /\ got' = IF c = None /\ pc = "char" THEN got ELSE Append(got, c)
  /\ UNCHANGED <<editor, fifo, claimed, typed, kept>>

CommandText(l) == [k \in 1 .. Min({j \in 0 .. LineSize : j = LineSize \/ l[j] = Nul}) |-> l[k - 1]]

(* The command runs from a terminated copy of the line.  The kernel's      *)
(* console runs no empty one.                                              *)
EnterUnterminated ==
  /\ line' = line
  /\ ran' = IF editor = "kernel" /\ at = 0 THEN ran ELSE Append(ran, CommandText(line'))
  /\ at' = 0
  /\ pc' = "char"

Enter ==
  /\ line' = IF editor = "kernel" /\ at = 0 THEN line ELSE [line EXCEPT ![at] = Nul]
  /\ ran' = IF editor = "kernel" /\ at = 0 THEN ran ELSE Append(ran, CommandText(line'))
  /\ at' = 0
  /\ pc' = "char"

Rubout ==
  /\ at' = IF at > 0 THEN at - 1 ELSE at
  /\ pc' = "char"
  /\ UNCHANGED <<line, ran>>

Insertion(c) ==
  /\ line' = IF at < LineSize - 1 THEN [line EXCEPT ![at] = c] ELSE line
  /\ at' = IF at < LineSize - 1 THEN at + 1 ELSE at
  /\ pc' = "char"
  /\ UNCHANGED ran

Turn(to) == pc' = to /\ UNCHANGED <<line, at, ran>>

(* The body of main's loop in src/user/console.c and of console in         *)
(* src/src/main.c, which knows no end of file.                             *)
ReadChar ==
  /\ pc = "char"
  /\ \E c \in Typeable \cup {None} :
       /\ Getchar(c)
       /\ IF c = Newline THEN Enter
          ELSE IF c = Delete THEN Rubout
          ELSE IF c = Escape THEN Turn("esc1")
          ELSE IF c = Eof /\ editor = "user" THEN Turn("ended")
          ELSE IF c = None THEN Turn("char")
          ELSE Insertion(c)

(* The two characters after an escape are taken as they are, also when     *)
(* they have not arrived yet.                                              *)
ReadEscape ==
  /\ pc \in {"esc1", "esc2"}
  /\ \E c \in Typeable \cup {None} : Getchar(c)
  /\ Turn(IF pc = "esc1" THEN "esc2" ELSE "char")

ConsoleNext ==
  \/ \E c \in Typeable : Type(c)
  \/ PlicClaim
  \/ UartHandleIrq
  \/ ReadChar
  \/ ReadEscape

-----------------------------------------------------------------------------
RECURSIVE NoEscapes(_)
NoEscapes(s) ==
  IF s = << >> THEN << >>
  ELSE IF Head(s) = Escape THEN NoEscapes(SubSeq(s, 4, Len(s)))
  ELSE <<Head(s)>> \o NoEscapes(Tail(s))

(* The line that the keys of s leave. *)
Edited(s) ==
  LET key(l, c) == IF c = Delete THEN IF l = << >> THEN l ELSE Front(l)
                   ELSE IF Len(l) < LineSize - 1 THEN Append(l, c) ELSE l
  IN  FoldLeft(key, << >>, s)

(* The keys of the k-th line of s, its last one unfinished. *)
LineKeys(s, k) ==
  LET ends == {0, Len(s) + 1} \cup {j \in DOMAIN s : s[j] = Newline}
      nth(n) == CHOOSE e \in ends : Cardinality({f \in ends : f < e}) = n
  IN  SubSeq(s, nth(k - 1) + 1, nth(k) - 1)

(* No key is lost, doubled or out of order between the port and the editor *)
(* unless the ring was full, however interrupts and reads interleave; and  *)
(* the commands run are the edited lines, with nothing left in them of the *)
(* longer lines before, and never past the array.                          *)
CommandsAreWhatWasTyped ==
  LET keys  == SelectSeq(NoEscapes(got), LAMBDA c : ~(c = Eof /\ editor = "user"))
      lines == [k \in 1 .. (1 + Len(SelectSeq(keys, LAMBDA c : c = Newline))) |-> Edited(LineKeys(keys, k))]
      run   == IF editor = "user" THEN Front(lines) ELSE SelectSeq(Front(lines), LAMBDA l : l # << >>)
  IN  /\ Popped \o [k \in 1 .. uart.size |-> uart.buffer[(uart.start + k - 1) % UartRing]] = kept
      /\ ran = run
      /\ at < LineSize
      /\ [k \in 1 .. at |-> line[k - 1]] = Last(lines)
=============================================================================
