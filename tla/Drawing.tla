------------------------------ MODULE Drawing ------------------------------
(***************************************************************************)
(* The drawing program, in its two copies: the kernel's in                 *)
(* src/src/drawing.c and the user's in src/user/user_drawing.c, with the   *)
(* framebuffer functions of src/src/gpu.c and the PPM files that pictures  *)
(* are saved in.  The user's program has its own copies of the functions   *)
(* it needs, the same code as the kernel's.                                *)
(*                                                                         *)
(* fb is the framebuffer, a row after the other; a file is its bytes.      *)
(* picture and images are not in the code: the pixels by row and column,   *)
(* and what was saved, as the drawing operations are meant.                *)
(***************************************************************************)
EXTENDS UserCalls, SequencesExt

CONSTANTS
  ScreenWidth, ScreenHeight,
  Word,          \* 2^32: uint32_t arithmetic is modulo this
  FontWidth, FontHeight, Font,  \* 8, 16 and termfont, with the scale 1
  Photo,         \* the bytes of /images/marz_photo_ppm.ppm
  KeyCodes,      \* the keys of the keyboard that are used
  CursorXs, CursorYs,   \* where the tablet points, from 0 to the width or height
  Rects, Strings1,  \* the arguments of a direct use of the framebuffer functions
  MaxDrawn, MaxTests  \* the bounds on the number of operations

VARIABLES
  program,       \* "kernel", "user", or "test": calls of the functions alone
  fb,
  draw,          \* draw_color, draw_size, coord, saved_coord, saved, and
                 \* which of coord and saved_coord were ever assigned
  files,         \* art.ppm and brush.ppm, empty before they are written
  picture, images,
  drawn          \* the number of operations

drawVars == <<program, fb, draw, files, picture, images, drawn>>

Cols == 0 .. (ScreenWidth - 1)
Rows == 0 .. (ScreenHeight - 1)
Offsets == 0 .. (ScreenWidth * ScreenHeight - 1)

Pixel(r, g, b, a) == [r |-> r, g |-> g, b |-> b, a |-> a]

(* get_color: the keys of colors, n for none. *)
GetColor ==
  [r |-> Pixel(255, 0, 0, 255), g |-> Pixel(0, 255, 0, 255), b |-> Pixel(0, 0, 255, 255),
   c |-> Pixel(0, 255, 255, 255), m |-> Pixel(255, 0, 255, 255), y |-> Pixel(255, 255, 0, 255),
   o |-> Pixel(255, 150, 0, 255), p |-> Pixel(150, 0, 255, 255), w |-> Pixel(255, 255, 255, 255),
   e |-> Pixel(0, 0, 0, 255), n |-> Pixel(0, 0, 0, 0)]

Nothing == GetColor["n"]
Background == GetColor["e"]

(* keys of src/src/input.c: what get_keyboard makes of a code, negated for *)
(* a release.  The program takes releases only.                            *)
Keys ==
  [KEY_A |-> "a", KEY_B |-> "b", KEY_C |-> "c", KEY_D |-> "d", KEY_E |-> "e", KEY_F |-> "f",
   KEY_G |-> "g", KEY_H |-> "h", KEY_I |-> "i", KEY_J |-> "j", KEY_K |-> "k", KEY_L |-> "l",
   KEY_M |-> "m", KEY_N |-> "n", KEY_O |-> "o", KEY_P |-> "p", KEY_Q |-> "q", KEY_R |-> "r",
   KEY_S |-> "s", KEY_T |-> "t", KEY_U |-> "u", KEY_V |-> "v", KEY_W |-> "w", KEY_X |-> "x",
   KEY_Y |-> "y", KEY_Z |-> "z", KEY_0 |-> "0", KEY_1 |-> "1", KEY_2 |-> "2", KEY_3 |-> "3",
   KEY_4 |-> "4", KEY_5 |-> "5", KEY_6 |-> "6", KEY_7 |-> "7", KEY_8 |-> "8", KEY_9 |-> "9",
   KEY_ENTER |-> "newline", KEY_BACKSPACE |-> "backspace", KEY_SPACE |-> " "]

DigitKeys == <<"0", "1", "2", "3", "4", "5", "6", "7", "8", "9">>

-----------------------------------------------------------------------------
(* src/src/gpu.c *)

Offset(row, col) == (row * ScreenWidth + col) % Word

Cut(n, limit) == IF n > limit THEN limit ELSE n

FbFillRectUnclipped(buf, rect, color) ==
  LET hit == {Offset(row, col) : row \in rect.y .. (Cut(rect.y + rect.h, ScreenHeight) - 1),
                                 col \in rect.x .. (rect.x + rect.w - 1)}
  IN  [o \in DOMAIN buf |-> IF o \in hit THEN color ELSE buf[o]]

FbFillRect(buf, rect, color) ==
  LET hit == {Offset(row, col) : row \in rect.y .. (Cut(rect.y + rect.h, ScreenHeight) - 1),
                                 col \in rect.x .. (Cut(rect.x + rect.w, ScreenWidth) - 1)}
  IN  [o \in DOMAIN buf |-> IF o \in hit THEN color ELSE buf[o]]

(* The top, the bottom, the left and the right bar. *)
FbStrokeRect(buf, rect, color, line_size) ==
  LET bars == <<[x |-> rect.x, y |-> rect.y, w |-> rect.w, h |-> line_size],
                [x |-> rect.x, y |-> rect.h + rect.y, w |-> rect.w, h |-> line_size],
                [x |-> rect.x, y |-> rect.y, w |-> line_size, h |-> rect.h],
                [x |-> rect.x + rect.w, y |-> rect.y, w |-> line_size, h |-> rect.h + line_size]>>
  IN  FoldLeft(LAMBDA acc, bar : FbFillRect(acc, bar, color), buf, bars)

(* Distances are squared in words: a difference below zero is a large one. *)
Distance2(row, col, x, y) ==
  LET dx == (col - x) % Word
      dy == (row - y) % Word
  IN  (((dx * dx) % Word) + ((dy * dy) % Word)) % Word

FbFillCirc(buf, x, y, radius, color) ==
  [o \in DOMAIN buf |->
     IF Distance2(o \div ScreenWidth, o % ScreenWidth, x, y) <= (radius * radius) % Word
     THEN color ELSE buf[o]]

FbStrokeCirc(buf, x, y, radius, color, line_size) ==
  [o \in DOMAIN buf |->
     IF (Distance2(o \div ScreenWidth, o % ScreenWidth, x, y) - ((radius * radius) % Word)) % Word
          <= (line_size * line_size) % Word
     THEN color ELSE buf[o]]

(* fb_fill_char, and fb_stroke_char where behind is what is there already. *)
FbChar(buf, c, row, col, fg, behind) ==
  LET cell(o) == [i |-> (o \div ScreenWidth) - row * FontHeight, j |-> (o % ScreenWidth) - col * FontWidth]
      inside(o) == cell(o).i \in 0 .. (FontHeight - 1) /\ cell(o).j \in 0 .. (FontWidth - 1)
  IN  [o \in DOMAIN buf |->
         IF ~inside(o) THEN buf[o]
         ELSE IF <<cell(o).i, cell(o).j>> \in Font[c] THEN fg ELSE behind[o]]

FbFillChar(buf, c, row, col, fg, bg) == FbChar(buf, c, row, col, fg, [o \in DOMAIN buf |-> bg])
FbStrokeChar(buf, c, row, col, fg) == FbChar(buf, c, row, col, fg, buf)

(* Where the characters of a string of n go: i starts over at the next row *)
(* when the character would end past the screen.                           *)
StringCells(n, row, col) ==
  LET step(acc, k) == LET wraps == (col + acc.i + 1) * FontWidth > ScreenWidth
                          i     == IF wraps THEN 0 ELSE acc.i
                          r     == IF wraps THEN acc.row + 1 ELSE acc.row
                      IN  [i |-> i + 1, row |-> r, cells |-> Append(acc.cells, [row |-> r, col |-> col + i])]
  IN  FoldLeft(step, [i |-> 0, row |-> row, cells |-> << >>], [k \in 1 .. n |-> k]).cells

FbFillString(buf, s, row, col, fg, bg) ==
  LET cells == StringCells(Len(s), row, col)
  IN  FoldLeft(LAMBDA acc, k : FbFillChar(acc, s[k], cells[k].row, cells[k].col, fg, bg),
               buf, [k \in DOMAIN s |-> k])

FbStrokeString(buf, s, row, col, fg) ==
  LET cells == StringCells(Len(s), row, col)
  IN  FoldLeft(LAMBDA acc, k : FbStrokeChar(acc, s[k], cells[k].row, cells[k].col, fg),
               buf, [k \in DOMAIN s |-> k])

-----------------------------------------------------------------------------
(* src/src/drawing.c: PPM files *)

IsDigit(c) == c \in 48 .. 57

(* Zero has no digits. *)
RECURSIVE IntegerBytes(_)
IntegerBytes(n) == IF n = 0 THEN << >> ELSE Append(IntegerBytes(n \div 10), 48 + (n % 10))

PpmWrite(ppm) ==
  <<80, 54, 10>> \o IntegerBytes(ppm.width) \o <<32>> \o IntegerBytes(ppm.height)
    \o <<10>> \o IntegerBytes(255) \o <<10>> \o ppm.img

(* The file is opened without truncation: what was longer stays behind. *)
Overwrite(old, new) == new \o SubSeq(old, Len(new) + 1, Len(old))

(* read_integer skips to a digit and takes the byte after the last one. *)
ReadInteger(bytes, pos) ==
  LET first == Min({k \in pos .. Len(bytes) : IsDigit(bytes[k])})
      stop  == Min({k \in first .. Len(bytes) : ~IsDigit(bytes[k])})
  IN  [n |-> FoldLeft(LAMBDA acc, c : acc * 10 + c - 48, 0, SubSeq(bytes, first, stop - 1)),
       pos |-> stop + 1]

PpmRead(bytes) ==
  LET width  == ReadInteger(bytes, 4)
      height == ReadInteger(bytes, width.pos)
      most   == ReadInteger(bytes, height.pos)
  IN  [width |-> width.n, height |-> height.n,
       img |-> SubSeq(bytes, most.pos, most.pos + width.n * height.n * 3 - 1)]

IsPpm(bytes) == Len(bytes) > 3 /\ SubSeq(bytes, 1, 3) = <<80, 54, 10>>

(* The loop of ppm_read_fb: at is pixel_idx and j counts along the row. *)
PpmReadFb(buf, bytes, x, y) ==
  LET ppm == PpmRead(bytes)
      put(acc, k) ==
        LET i == 3 * (k - 1)
            rowEnds == acc.j + 1 = ppm.width
        IN  [buf |-> [acc.buf EXCEPT ![acc.at] = Pixel(ppm.img[i + 1], ppm.img[i + 2], ppm.img[i + 3], 255)],
             at  |-> IF rowEnds THEN acc.at + ScreenWidth - ppm.width + 1 ELSE acc.at + 1,
             j   |-> IF rowEnds THEN 0 ELSE acc.j + 1]
  IN  FoldLeft(put, [buf |-> buf, at |-> y * ScreenWidth + x, j |-> 0],
               [k \in 1 .. (ppm.width * ppm.height) |-> k]).buf

(* The loop of ppm_write_fb, which runs until pixel_idx passes the last    *)
(* pixel.                                                                  *)
RECURSIVE Grab(_, _, _, _, _)
Grab(buf, at, j, width, limit) ==
  IF at >= limit THEN << >>
  ELSE <<buf[at].r, buf[at].g, buf[at].b>>
         \o IF j + 1 = width THEN Grab(buf, at + ScreenWidth - width + 1, 0, width, limit)
            ELSE Grab(buf, at + 1, j + 1, width, limit)

PpmWriteFb(buf, x, y, width, height) ==
  LET from == y * ScreenWidth + x
  IN  PpmWrite([width |-> width, height |-> height,
                img |-> Grab(buf, from, 0, width, ScreenWidth * (height - 1) + width + from)])

-----------------------------------------------------------------------------
(* What the operations mean, by row and column *)

Shade(pic, P(_, _), color) == [row \in Rows |-> [col \in Cols |-> IF P(row, col) THEN color ELSE pic[row][col]]]

InRect(rect, row, col) == row \in rect.y .. (rect.y + rect.h - 1) /\ col \in rect.x .. (rect.x + rect.w - 1)

Squared(row, col, x, y) == (row - y) * (row - y) + (col - x) * (col - x)

(* A frame: the rectangle with its far bars, without its hollow. *)
InFrame(rect, size1, row, col) ==
  /\ InRect([rect EXCEPT !.w = @ + size1, !.h = @ + size1], row, col)
  /\ ~InRect([x |-> rect.x + size1, y |-> rect.y + size1, w |-> rect.w - size1, h |-> rect.h - size1], row, col)

(* The image that a rectangle of the picture is. *)
Clip(pic, x, y, width, height) ==
  [row \in 0 .. (height - 1) |-> [col \in 0 .. (width - 1) |-> [pic[y + row][x + col] EXCEPT !.a = 255]]]

ImageOf(bytes) ==
  LET ppm == PpmRead(bytes)
  IN  [row \in 0 .. (ppm.height - 1) |-> [col \in 0 .. (ppm.width - 1) |->
         LET i == 3 * (row * ppm.width + col)
         IN  Pixel(ppm.img[i + 1], ppm.img[i + 2], ppm.img[i + 3], 255)]]

(* A row that is too long for the screen goes on in the row below. *)
Pasted(pic, image, x, y) ==
  [row \in Rows |-> [col \in Cols |->
     LET hits == {rc \in (DOMAIN image) \X (DOMAIN image[0]) :
                    (y + rc[1]) * ScreenWidth + x + rc[2] = row * ScreenWidth + col}
         last == CHOOSE rc \in hits : \A other \in hits : other[1] <= rc[1]
     IN  IF hits = {} THEN pic[row][col] ELSE image[last[1]][last[2]]]]

-----------------------------------------------------------------------------
(* drawing_proc.  coord and saved_coord start unassigned: the kernel's x   *)
(* may be anything when the first y comes before it.                       *)

DrawInit ==
  /\ program \in {"kernel", "user", "test"}
  /\ fb = FbFillRect([o \in Offsets |-> Nothing], [x |-> 0, y |-> 0, w |-> ScreenWidth, h |-> ScreenHeight],
                     Background)
  /\ \E x \in CursorXs :
       draw = [color |-> Nothing, size |-> 2, x |-> x, y |-> 0, sx |-> 0, sy |-> 0,
               saved |-> FALSE, placed |-> {}, marked |-> FALSE]
  /\ files = [art |-> << >>, brush |-> << >>]
  /\ picture = [row \in Rows |-> [col \in Cols |-> Background]]
  /\ images = [art |-> << >>, brush |-> << >>]
  /\ drawn = 0

Step == drawn < MaxDrawn /\ drawn' = drawn + 1 /\ UNCHANGED program

IsProgram ==
  /\ program # "test"
  /\ program = "user" => Ecall("get_keyboard") = "get_keyboard" /\ Ecall("get_cursor") = "get_cursor"

Placed == draw.placed = {"x", "y"}

(* The release of a digit sets the size and leaves the color. *)
KeySize(n) ==
  /\ IsProgram
  /\ Step
  /\ draw' = [draw EXCEPT !.size = n]
  /\ UNCHANGED <<fb, files, picture, images>>

KeyColor(key) ==
  /\ IsProgram
  /\ Step
  /\ draw' = [draw EXCEPT !.color = GetColor[key]]
  /\ UNCHANGED <<fb, files, picture, images>>

(* The keys with a meaning of their own end as n: they take the color.     *)
KeySave ==
  /\ IsProgram
  /\ Step
  /\ files' = [files EXCEPT !.art = Overwrite(@, PpmWriteFb(fb, 0, 0, ScreenWidth, ScreenHeight))]
  /\ images' = [images EXCEPT !.art = Clip(picture, 0, 0, ScreenWidth, ScreenHeight)]
  /\ draw' = [draw EXCEPT !.color = Nothing, !.saved = TRUE]
  /\ UNCHANGED <<fb, picture>>

(* The brush is the rectangle from the cursor to the marked corner, which  *)
(* must be on the screen, below and to the right: the size is the          *)
(* difference of the two as unsigned numbers.                              *)
KeyBrush ==
  LET width  == draw.sx - draw.x
      height == draw.sy - draw.y
  IN  /\ IsProgram
      /\ Placed /\ draw.marked
      /\ width > 0 /\ height > 0 /\ draw.sx <= ScreenWidth /\ draw.sy <= ScreenHeight
      /\ Step
      /\ files' = [files EXCEPT !.brush = Overwrite(@, PpmWriteFb(fb, draw.x, draw.y, width, height))]
      /\ images' = [images EXCEPT !.brush = Clip(picture, draw.x, draw.y, width, height)]
      /\ draw' = [draw EXCEPT !.color = Nothing, !.saved = FALSE]
      /\ UNCHANGED <<fb, picture>>

KeyMark ==
  /\ IsProgram
  /\ Placed
  /\ Step
  /\ draw' = [draw EXCEPT !.color = Nothing, !.sx = draw.x, !.sy = draw.y, !.marked = TRUE]
  /\ UNCHANGED <<fb, files, picture, images>>

(* An image is pasted at the cursor.  The file must be there, or ppm_read  *)
(* returns NULL and ppm_read_fb follows it; and the image must end on the  *)
(* screen: nothing clips it.                                               *)
FitsAt(bytes, x, y) ==
  LET ppm == PpmRead(bytes)
  IN  (y + ppm.height - 1) * ScreenWidth + x + ppm.width <= ScreenWidth * ScreenHeight

Paste(bytes, image) ==
  /\ IsProgram
  /\ Placed
  /\ IsPpm(bytes)
  /\ FitsAt(bytes, draw.x, draw.y)
  /\ Step
  /\ fb' = PpmReadFb(fb, bytes, draw.x, draw.y)
  /\ picture' = Pasted(picture, image, draw.x, draw.y)
  /\ draw' = [draw EXCEPT !.color = Nothing]
  /\ UNCHANGED <<files, images>>

KeyPhoto == Paste(Photo, ImageOf(Photo))

(* The user's program goes back to the picture when that was saved last.   *)
UserUse == program = "user" /\ LET f == IF draw.saved THEN "art" ELSE "brush" IN Paste(files[f], images[f])
KernelUse == program = "kernel" /\ Paste(files.brush, images.brush)

(* One turn of the loop over the keys. *)
Release(key) ==
  \/ key \in DOMAIN GetColor /\ KeyColor(key)
  \/ \E n \in 0 .. 9 : key = DigitKeys[n + 1] /\ KeySize(n)
  \/ key = "s" /\ KeySave
  \/ key = "u" /\ (UserUse \/ KernelUse)
  \/ key = "i" /\ KeyBrush
  \/ key = "j" /\ KeyMark
  \/ key = "z" /\ KeyPhoto

Dot(x, y, radius) ==
  LET on == draw.color.a # 0
  IN  /\ fb' = IF on THEN FbFillCirc(fb, x, y, radius, draw.color) ELSE fb
      /\ picture' = IF on
                    THEN Shade(picture, LAMBDA row, col : Squared(row, col, x, y) <= radius * radius, draw.color)
                    ELSE picture

(* get_cursor gives both coordinates, or x alone when the tablet reported  *)
(* no y: y is then -1, the row above the screen.                           *)
UserCursor(x, y) ==
  /\ IsProgram
  /\ program = "user"
  /\ Step
  /\ draw' = [draw EXCEPT !.x = x, !.y = y % Word, !.placed = {"x", "y"}]
  /\ Dot(x, y, draw.size)
  /\ UNCHANGED <<files, images>>

(* The kernel's copy reads the events itself: an x event only moves. *)
KernelX(x) ==
  /\ IsProgram
  /\ program = "kernel"
  /\ Step
  /\ draw' = [draw EXCEPT !.x = x, !.placed = @ \union {"x"}]
  /\ UNCHANGED <<fb, files, picture, images>>

KernelY(y) ==
  /\ IsProgram
  /\ program = "kernel"
  /\ Step
  /\ draw' = [draw EXCEPT !.y = y, !.placed = @ \union {"y"}]
  /\ Dot(draw.x, y, draw.size * 2)
  /\ UNCHANGED <<files, images>>

(* A caller of src/src/gpu.c's functions other than the program. *)
TestDraw(buf, pic) ==
  /\ program = "test"
  /\ drawn < MaxTests
  /\ Step
  /\ fb' = buf
  /\ picture' = pic
  /\ UNCHANGED <<draw, files, images>>

Ink == GetColor["r"]
Paper == GetColor["w"]

TestRect(rect) == TestDraw(FbFillRect(fb, rect, Ink), Shade(picture, LAMBDA row, col : InRect(rect, row, col), Ink))

TestFrame(rect, size1) ==
  TestDraw(FbStrokeRect(fb, rect, Paper, size1), Shade(picture, LAMBDA row, col : InFrame(rect, size1, row, col), Paper))

TestRing(x, y, radius, size1) ==
  TestDraw(FbStrokeCirc(fb, x, y, radius, Ink, size1),
           Shade(picture, LAMBDA row, col : Squared(row, col, x, y) - radius * radius \in 0 .. (size1 * size1), Ink))

(* The reference: the k-th character is in the column after the one before *)
(* it, a full row of them after the first column.                          *)
TextPixel(s, row, col, k, r, c) ==
  LET perRow == (ScreenWidth \div FontWidth) - col
      i == r - (row + ((k - 1) \div perRow)) * FontHeight
      j == c - (col + ((k - 1) % perRow)) * FontWidth
  IN  [inside |-> i \in 0 .. (FontHeight - 1) /\ j \in 0 .. (FontWidth - 1), lit |-> <<i, j>> \in Font[s[k]]]

TextFits(s, col) == col < ScreenWidth \div FontWidth
                    /\ (1 + ((Len(s) - 1) \div ((ScreenWidth \div FontWidth) - col))) * FontHeight <= ScreenHeight

TestText(s, col, filled) ==
  /\ TextFits(s, col)
  /\ TestDraw(IF filled THEN FbFillString(fb, s, 0, col, Ink, Paper) ELSE FbStrokeString(fb, s, 0, col, Ink),
              [r \in Rows |-> [c \in Cols |->
                 LET ks == {k \in DOMAIN s : TextPixel(s, 0, col, k, r, c).inside}
                 IN  IF ks = {} THEN picture[r][c]
                     ELSE IF \E k \in ks : TextPixel(s, 0, col, k, r, c).lit THEN Ink
                     ELSE IF filled THEN Paper ELSE picture[r][c]]])

DrawNext ==
  \/ \E code \in KeyCodes : Release(Keys[code])
  \/ \E x \in CursorXs, y \in CursorYs \union {-1} : UserCursor(x, y)
  \/ \E x \in CursorXs : KernelX(x)
  \/ \E y \in CursorYs : KernelY(y)
  \/ \E rect \in Rects : TestRect(rect) \/ \E size1 \in 1 .. 2 : TestFrame(rect, size1)
  \/ \E x \in Cols, y \in Rows, radius, size1 \in 0 .. 2 : TestRing(x, y, radius, size1)
  \/ \E s \in Strings1, col \in 0 .. 1, filled \in BOOLEAN : TestText(s, col, filled)

-----------------------------------------------------------------------------
(* Every pixel of the framebuffer is what the drawing operations mean by   *)
(* row and column: clipped shapes stay on their rows, circles do not wrap  *)
(* at the edges, text goes on at its column; and what is saved, over a     *)
(* longer file too, reads back as the image it was, whatever bytes its     *)
(* pixels are.                                                             *)
ScreenIsThePicture ==
  /\ \A row \in Rows, col \in Cols : fb[Offset(row, col)] = picture[row][col]
  /\ \A f \in DOMAIN files : files[f] # << >> => IsPpm(files[f]) /\ ImageOf(files[f]) = images[f]
=============================================================================
