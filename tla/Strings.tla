------------------------------ MODULE Strings ------------------------------
(***************************************************************************)
(* The memory and string functions of src/util/src/util.c, the user        *)
(* programs' copies in src/user/libc/string.c, the path                    *)
(* functions of src/util/src/path.c with their caller in the file system,  *)
(* and the numbers that src/util/src/map.c makes keys of.                  *)
(*                                                                         *)
(* A string is the sequence of its characters without the terminator,      *)
(* which At gives back; memory is a sequence of bytes.  The strings grow   *)
(* character by character, so that every one over the alphabet is met.     *)
(***************************************************************************)
EXTENDS Integers, SequencesExt

CONSTANTS
  Alphabet,          \* the characters used, codes of ASCII
  MaxText, MaxPart,  \* the bounds on the lengths of text and part
  WordSize,          \* bytes that memset and memcpy move at once: 8
  NameSize           \* sizeof(name) in path_split: 256

VARIABLES
  text,              \* a string, or bytes of memory
  part               \* another string

stringVars == <<text, part>>

StringsInit == text = << >> /\ part = << >>

StringsNext ==
  \/ /\ Len(text) < MaxText
     /\ \E c \in Alphabet : text' = Append(text, c)
     /\ UNCHANGED part
  \/ /\ Len(part) < MaxPart
     /\ \E c \in Alphabet : part' = Append(part, c)
     /\ UNCHANGED text

Slash == 47
Minus == 45
Digit == 48
Digits == 48 .. 57

At(s, i) == IF i < Len(s) THEN s[i + 1] ELSE 0
Upto(n) == [k \in 1 .. n |-> k - 1]

-----------------------------------------------------------------------------
(* src/util/src/util.c.  Bytes are copied one after the other from and to  *)
(* the same memory m; n is a whole number of words first.                  *)

Words(n) == n \div WordSize

Memset(m, dst, c, n) ==
  LET word(x, i) == [k \in DOMAIN x |-> IF k - 1 - dst \in (i * WordSize) .. ((i + 1) * WordSize - 1)
                                        THEN c ELSE x[k]]
      byte(x, i) == [x EXCEPT ![dst + Words(n) * WordSize + i + 1] = c]
  IN  FoldLeft(byte, FoldLeft(word, m, Upto(Words(n))), Upto(n % WordSize))

Memcpy(m, dst, src, n) ==
  LET word(x, i) == [k \in DOMAIN x |-> IF k - 1 - dst \in (i * WordSize) .. ((i + 1) * WordSize - 1)
                                        THEN x[k - dst + src] ELSE x[k]]
      byte(x, i) == [x EXCEPT ![dst + Words(n) * WordSize + i + 1] = x[src + Words(n) * WordSize + i + 1]]
  IN  FoldLeft(byte, FoldLeft(word, m, Upto(Words(n))), Upto(n % WordSize))

MemmoveForward(m, dst, src, n) ==
  LET byte(x, i) == [x EXCEPT ![dst + i + 1] = x[src + i + 1]]
  IN  FoldLeft(byte, m, Upto(n))

Memmove(m, dst, src, n) ==
  LET byte(x, i) == [x EXCEPT ![dst + i + 1] = x[src + i + 1]]
  IN  IF src < dst /\ src + n > dst THEN FoldLeft(byte, m, Reverse(Upto(n)))
      ELSE FoldLeft(byte, m, Upto(n))

(* The difference at the first position that stops the loop. *)
FirstDiff(l, r, stops) ==
  IF stops = {} THEN 0 ELSE At(l, Min(stops)) - At(r, Min(stops))

(* The last byte is compared outside the loop: there must be one. *)
Memcmp(l, r, n) ==
  FirstDiff(l, r, {i \in 0 .. (n - 1) : i = n - 1 \/ At(l, i) # At(r, i)})

Strcmp(l, r) == FirstDiff(l, r, {i \in 0 .. Len(l) : At(l, i) = 0 \/ At(l, i) # At(r, i)})

Strncmp(l, r, n) == FirstDiff(l, r, {i \in 0 .. (n - 1) : At(l, i) = 0 \/ At(l, i) # At(r, i)})

Strfindchr(s, c) ==
  LET hits == {i \in 0 .. Len(s) : At(s, i) = c}
  IN  IF hits = {} THEN -1 ELSE Min(hits)

(* What strncpy leaves in dest: the characters, the terminator after them, *)
(* one byte past n when s is longer, and the rest as it was.               *)
Strncpy(dest, s, n) ==
  LET len == Min({n, Len(s)})
  IN  [k \in DOMAIN dest |-> IF k <= len THEN s[k] ELSE IF k = len + 1 THEN 0 ELSE dest[k]]

(* strcpy into a new block that has room for the terminator. *)
Strdup(s) == Append(s, 0)

CString(m) == SubSeq(m, 1, Min({k \in 0 .. Len(m) : At(m, k) = 0}))

StrStartsWith(s, start) ==
  /\ Len(s) >= Len(start)
  /\ \A i \in 0 .. (Len(start) - 1) : At(s, i) = At(start, i)

StrEndsWith(s, end) ==
  LET cmp == Len(s) - Len(end)
  IN  /\ Len(s) >= Len(end)
      /\ \A i \in 0 .. (Len(end) - 1) : At(s, i + cmp) = At(end, i)

(* The digits are added from the last one, p counting the powers of ten. *)
Atoi(st) ==
  LET s   == IF At(st, 0) = Minus THEN Tail(st) ELSE st
      l   == Min({i \in 0 .. Len(s) : At(s, i) \notin Digits})
      add(acc, i) == [r |-> acc.r + acc.p * (At(s, i) - Digit), p |-> acc.p * 10]
      all == FoldLeft(add, [r |-> 0, p |-> 1], Reverse(Upto(l)))
  IN  IF At(st, 0) = Minus THEN -all.r ELSE all.r

-----------------------------------------------------------------------------
(* src/user/libc/string.c: the same code again, except that memcmp answers *)
(* whether the bytes are equal, not which are greater.                     *)

UserMemset(m, dst, c, n) == Memset(m, dst, c, n)
UserMemcpy(m, dst, src, n) == Memcpy(m, dst, src, n)
UserMemcmp(l, r, n) == \A i \in 0 .. (n - 1) : At(l, i) = At(r, i)
UserAtoi(st) == Atoi(st)
UserStrcmp(l, r) == Strcmp(l, r)
UserStrncmp(l, r, n) == Strncmp(l, r, n)
UserStrfindchr(s, c) == Strfindchr(s, c)
UserStrlen(m) == Min({k \in 0 .. Len(m) : At(m, k) = 0})

-----------------------------------------------------------------------------
(* map_int_to_str of src/util/src/map.c: the digits are stored last first  *)
(* and flipped, the sign is not.                                           *)
RECURSIVE DigitsOf(_)
DigitsOf(n) == IF n = 0 THEN << >> ELSE <<Digit + (n % 10)>> \o DigitsOf(n \div 10)

Flip(s) ==
  LET swap(x, j) == [x EXCEPT ![j + 1] = x[Len(s) - j], ![Len(s) - j] = x[j + 1]]
  IN  FoldLeft(swap, s, Upto(Len(s) \div 2))

MapIntToStr(n) ==
  IF n = 0 THEN <<Digit>>
  ELSE IF n < 0 THEN <<Minus>> \o Flip(DigitsOf(-n)) ELSE Flip(DigitsOf(n))

-----------------------------------------------------------------------------
(* src/util/src/path.c.  A pointer into the path is an offset. *)

SkipSlashes(p, at) == Min({i \in at .. Len(p) : At(p, i) # Slash})
NextSlash(p, at) == Min({i \in at .. Len(p) : At(p, i) \in {Slash, 0}})

FileName(p) ==
  LET i == Max({k \in -1 .. (Len(p) - 1) : k = -1 \/ At(p, k) = Slash})
  IN  SubSeq(p, i + 2, Len(p))

RECURSIVE SplitFrom(_, _)
SplitFrom(p, at) ==
  LET from == SkipSlashes(p, at)
      to   == NextSlash(p, from)
      name == SubSeq(p, from + 1, Min({to, from + NameSize - 1}))
  IN  IF at = Len(p) THEN << >> ELSE <<name>> \o SplitFrom(p, to)

PathSplit(p) == SplitFrom(p, 0)

(* minix3_parse_path of src/src/minix3.c copies the names in the order the *)
(* list gives them, oldest first, and frees the list.                      *)
ParsePath(p) == [k \in DOMAIN PathSplit(p) |-> PathSplit(p)[k]]

-----------------------------------------------------------------------------
(* The names between slashes, and an empty one for a slash at the end. *)
Names(p) ==
  LET ends  == {0} \cup {k \in DOMAIN p : p[k] = Slash}
      runs  == {e \in ends : e < Len(p) /\ At(p, e) # Slash}
      name(e) == SubSeq(p, e + 1, Min({k - 1 : k \in {j \in ends : j > e} \cup {Len(p) + 1}}))
      cut(s) == SubSeq(s, 1, Min({Len(s), NameSize - 1}))
      list  == [k \in 1 .. Cardinality(runs) |->
                  cut(name(CHOOSE e \in runs : Cardinality({f \in runs : f <= e}) = k))]
  IN  list \o IF p # << >> /\ Last(p) = Slash THEN << << >> >> ELSE << >>

Sign(n) == IF n < 0 THEN -1 ELSE IF n > 0 THEN 1 ELSE 0
Prefix(s, n) == SubSeq(s, 1, Min({n, Len(s)}))

(* Dictionary order, the reference for the comparisons. *)
Compare(l, r) ==
  IF l = r THEN 0
  ELSE IF IsPrefix(l, r) THEN -1
  ELSE IF IsPrefix(r, l) THEN 1
  ELSE LET k == Min({j \in DOMAIN l : j <= Len(r) /\ l[j] # r[j]}) IN Sign(l[k] - r[k])

(* The copies move every byte as it was before the call, memmove for       *)
(* overlapping ranges too; the comparisons are dictionary order, whole and *)
(* cut to n; a copied string ends where it should; a number written as a   *)
(* key reads back; and a path splits into its names, whatever runs of      *)
(* slashes it has, in the order the file system looks them up.             *)
TextMatchesReference ==
  LET len == Len(text)
      moved(dst, src, n) == [k \in 1 .. len |-> IF k - 1 - dst \in 0 .. (n - 1)
                                                THEN text[k - dst + src] ELSE text[k]]
      apart(a, b, n) == a + n <= b \/ b + n <= a
      name == IF ParsePath(text) = << >> THEN << >> ELSE Last(ParsePath(text))
  IN  /\ \A dst, src \in 0 .. len : \A n \in 0 .. Min({len - dst, len - src}) :
           /\ Memmove(text, dst, src, n) = moved(dst, src, n)
           /\ apart(dst, src, n) => {Memcpy(text, dst, src, n), UserMemcpy(text, dst, src, n)} = {moved(dst, src, n)}
      /\ \A dst \in 0 .. len : \A n \in 0 .. (len - dst), c \in Alphabet :
           {Memset(text, dst, c, n), UserMemset(text, dst, c, n)}
             = {[k \in 1 .. len |-> IF k - 1 - dst \in 0 .. (n - 1) THEN c ELSE text[k]]}
      /\ {Sign(Strcmp(text, part)), Sign(UserStrcmp(text, part))} = {Compare(text, part)}
      /\ \A n \in 0 .. MaxText : /\ {Sign(Strncmp(text, part, n)), Sign(UserStrncmp(text, part, n))}
                                      = {Compare(Prefix(text, n), Prefix(part, n))}
                                 /\ n < len => CString(Strncpy(text, part, n)) = Prefix(part, n)
      /\ \A n \in 1 .. Min({len, Len(part)}) :
           /\ Memcmp(text, part, n) = 0 <=> Prefix(text, n) = Prefix(part, n)
           /\ UserMemcmp(text, part, n) <=> Prefix(text, n) = Prefix(part, n)
      /\ CString(Strdup(text)) = text /\ UserStrlen(Strdup(text)) = len
      /\ StrStartsWith(text, part) <=> IsPrefix(part, text)
      /\ StrEndsWith(text, part) <=> IsSuffix(part, text)
      /\ \A c \in Alphabet : LET i == Strfindchr(text, c)
                             IN  UserStrfindchr(text, c) = i /\ IF i = -1 THEN c \notin ToSet(text)
                                 ELSE At(text, i) = c /\ c \notin ToSet(SubSeq(text, 1, i))
      /\ \A n \in {-len * 7, len, len * 10 + 1, len * 123} : {Atoi(MapIntToStr(n)), UserAtoi(MapIntToStr(n))} = {n}
      /\ ParsePath(text) = Names(text)
      /\ Len(FileName(text)) < NameSize => (text # << >> => FileName(text) = name)
=============================================================================
