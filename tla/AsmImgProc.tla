----------------------------- MODULE AsmImgProc -----------------------------
(***************************************************************************)
(* The image transformations of csf_assign02 in x86-64 assembly            *)
(* (asm_imgproc_fns.S): one call of one of them, with the registers it     *)
(* works in, what it does to the caller's ones, and its stack frame.  A    *)
(* step is a prologue, a turn of the loop, or an epilogue.                 *)
(*                                                                         *)
(* A helper maps the registers it is called with to those it returns with. *)
(* The registers are 64 bits wide in the code and their values stay far    *)
(* below that; what a shift leaves behind in an argument register is       *)
(* Shifted, which nothing may read.  A pointer to an image is "input" or   *)
(* "output", a pointer into its pixels says how many pixels are before it. *)
(* Unit is the 1000 of gradient.                                           *)
(***************************************************************************)
EXTENDS Integers, Sequences, FiniteSets

CONSTANTS Images, Unit

VARIABLES
    fn, input_img, output_img, pc,   \* as in ImgProc
    regs,    \* the registers the function works in
    rsp,     \* where the stack ends, from the place of the caller's rbp on:
             \* 8, the return address, before the function pushes anything
    frame,   \* the eight-byte slots that still hold what was pushed there
    kept     \* whose value, of the caller, a callee-saved register holds

asm_vars == <<fn, input_img, output_img, pc, regs, rsp, frame, kept>>

CalleeSaved == {"rbx", "rbp", "r12", "r13", "r14", "r15"}

Registers == (CalleeSaved \ {"rbp"})
             \cup {"rax", "rcx", "rdx", "rsi", "rdi", "r8", "r9", "r10", "r11"}

Shifted == "shifted"
Lost == "lost"

\* When a function is called.
EntryKept == [r \in CalleeSaved |-> r]
Entry ==
    /\ regs = [r \in Registers |-> 0] /\ kept = EntryKept
    /\ rsp = 8 /\ frame = << >>

-----------------------------------------------------------------------------
(* The stack                                                               *)

\* Both of two parts of a frame, or what the first says of the registers and
\* what the second says of the others.
With(f, g) == [x \in DOMAIN f \cup DOMAIN g |-> IF x \in DOMAIN f THEN f[x] ELSE g[x]]

\* pushq of these registers in this order, the first to the slot at.
Pushed(at, names) ==
    [o \in {at - 8 * (k - 1) : k \in DOMAIN names} |-> kept[names[(at - o) \div 8 + 1]]]

\* popq to these registers in this order, the first from the slot at.
Popped(at, names) ==
    [r \in {names[k] : k \in DOMAIN names} |->
        LET o == at + 8 * ((CHOOSE k \in DOMAIN names : names[k] = r) - 1)
        IN  IF o \in DOMAIN frame THEN frame[o] ELSE Lost]

\* What is left of the frame when the bytes of these locals are written:
\* pairs of an offset from rbp and a size.
Overwritten(locals) ==
    LET intact == {o \in DOMAIN frame :
                    \A l \in locals : l[1] >= o + 8 \/ o >= l[1] + l[2]}
    IN  [o \in intact |-> frame[o]]

\* The callee-saved registers once these have been written.
Clobbered(names) == [r \in CalleeSaved |-> IF r \in names THEN Lost ELSE kept[r]]

-----------------------------------------------------------------------------
(* The helpers                                                             *)

Struct(pointer) == IF pointer = "input" THEN input_img ELSE output_img

get_r(R) == [R EXCEPT !.rax = R.rdi.r]
get_g(R) == [R EXCEPT !.rax = R.rdi.g]
get_b(R) == [R EXCEPT !.rax = R.rdi.b]
get_a(R) == [R EXCEPT !.rax = R.rdi.a]

make_pixel(R) ==
    [R EXCEPT !.rax = [r |-> R.rdi, g |-> R.rsi, b |-> R.rdx, a |-> R.rcx],
              !.rdi = Shifted, !.rsi = Shifted, !.rdx = Shifted]

to_grayscale(R) ==
    LET gray == (get_r(R).rax * 79 + get_g(R).rax * 128 + get_b(R).rax * 49) \div 256
    IN  make_pixel([R EXCEPT !.r8 = gray, !.rcx = get_a(R).rax,
                             !.rdi = gray, !.rsi = gray, !.rdx = gray])

gradient(R) ==
    LET part == (2 * Unit * R.rdi) \div R.rsi - Unit
        g == Unit * Unit - part * part
    IN  [R EXCEPT !.rdi = 2 * Unit * R.rdi, !.rdx = part, !.rcx = g, !.rax = g]

\* Mutant: the product is computed in the row's register.
compute_index_in_rdx(R) ==
    LET row == R.rdx * Struct(R.rdi).width
    IN  [R EXCEPT !.rdx = row, !.rax = row + R.rsi]

compute_index(R) == [R EXCEPT !.rax = R.rdx * Struct(R.rdi).width + R.rsi]

-----------------------------------------------------------------------------
(* Entry, turns and return                                                 *)

InLoop(f) == fn = f /\ pc = "loop"

PixelAt(image, k) == [to |-> image, at |-> k]

Load(pointer) == Struct(pointer.to).data[pointer.at]

\* Every function copies the dimensions of the input, twice them for rgb.
Enter(f, k) ==
    /\ fn = f /\ pc = "call"
    /\ output_img' = [output_img EXCEPT !.width = k * input_img.width,
                                        !.height = k * input_img.height]
    /\ UNCHANGED <<fn, input_img>>

Put(data, k, p) == [n \in DOMAIN data \cup {k} |-> IF n = k THEN p ELSE data[n]]

Store(data) == output_img' = [output_img EXCEPT !.data = data]

\* The prologue of imgproc_rgb: rbp, room for locals, four registers below it.
rgb_prologue ==
    /\ Enter("rgb", 2)
    /\ pc' = "loop"
    /\ frame' = With(Pushed(0, <<"rbp">>), Pushed(-72, <<"r12", "r13", "r14", "r15">>))
    /\ rsp' = -96
    /\ kept' = Clobbered({"rbp", "r12", "r13", "r14", "r15"})
    /\ regs' = [regs EXCEPT !.rax = 2 * input_img.width, !.r8 = input_img.width,
                            !.r9 = input_img.height, !.r12 = 0, !.r13 = 0,
                            !.r14 = "input", !.r15 = "output"]

\* The address of the pixel in column col and row row of an image.  Calls to
\* compute_index may find rdi, rsi and rdx as the call before left them.
IndexIn(R, image, col, row) ==
    compute_index([R EXCEPT !.rdi = image, !.rsi = col, !.rdx = row])

RgbDone == regs.r12 >= regs.r9 /\ regs.r13 > 0

\* .Linner: the registers after its calls.  rax is the place of the pixel of
\* the input, and rbx the pixel.
PixelFound == IndexIn(regs, regs.r14, regs.r13, regs.r12)

PixelLoaded ==
    LET p == input_img.data[PixelFound.rax]
    IN  [PixelFound EXCEPT !.rbx = p, !.rdi = p]

\* The pixels of one color, which the function keeps in its frame.
Colored(R, r, g, b) ==
    make_pixel([R EXCEPT !.rdi = r, !.rsi = g, !.rdx = b, !.rcx = get_a(PixelLoaded).rax])
Red == Colored(PixelLoaded, get_r(PixelLoaded).rax, 0, 0)
Green == Colored(Red, 0, get_g(PixelLoaded).rax, 0)
Blue == Colored(Green, 0, 0, get_b(PixelLoaded).rax)

\* Quadrant B takes the row from rdx as quadrant A has left it.
QuadrantA == IndexIn(Blue, regs.r15, regs.r13, regs.r12)
QuadrantB ==
    LET R == QuadrantA
    IN  compute_index([R EXCEPT !.rdi = regs.r15, !.rsi = regs.r13 + R.r8])
QuadrantC == IndexIn(QuadrantB, regs.r15, regs.r13, regs.r12 + QuadrantB.r9)
QuadrantD ==
    LET R == QuadrantC
    IN  IndexIn(R, regs.r15, regs.r13 + R.r8, regs.r12 + R.r9)

\* The four pixels of one input pixel, then the next column or row.  The loops
\* test at their end, so an empty image makes them go through a pixel that does
\* not exist.
rgb_turn ==
    /\ InLoop("rgb") /\ ~RgbDone
    /\ LET row_ends == regs.r13 + 1 >= QuadrantD.r8
           next_row == row_ends /\ regs.r12 + 1 < QuadrantD.r9
       IN  \/ /\ PixelFound.rax \in DOMAIN input_img.data
              /\ Store(Put(Put(Put(Put(output_img.data, QuadrantA.rax, PixelLoaded.rbx),
                                   QuadrantB.rax, Red.rax),
                               QuadrantC.rax, Green.rax),
                           QuadrantD.rax, Blue.rax))
              /\ regs' = [QuadrantD EXCEPT !.rdx = Blue.rax, !.rcx = PixelAt("output", 0),
                                           !.r12 = IF row_ends THEN @ + 1 ELSE @,
                                           !.r13 = IF next_row THEN 0 ELSE @ + 1]
              /\ kept' = Clobbered({"rbx"})
              /\ frame' = Overwritten({<<-4 * k, 4>> : k \in 1..7})
              /\ UNCHANGED pc
           \/ /\ PixelFound.rax \notin DOMAIN input_img.data
              /\ pc' = "undefined"
              /\ UNCHANGED <<output_img, regs, frame, kept>>
    /\ UNCHANGED <<fn, input_img, rsp>>

\* Mutant: the room for the locals is given back too late.
rgb_epilogue_late ==
    /\ InLoop("rgb") /\ RgbDone
    /\ pc' = "success"
    /\ kept' = With(Popped(rsp, <<"r15", "r14", "r13", "r12", "rbp">>), kept)
    /\ rsp' = rsp + 5 * 8 + 64
    /\ UNCHANGED <<fn, input_img, output_img, regs, frame>>

rgb_epilogue ==
    /\ InLoop("rgb") /\ RgbDone
    /\ pc' = "success"
    /\ kept' = With(Popped(rsp, <<"r15", "r14", "r13", "r12">>),
                    With(Popped(rsp + 4 * 8 + 64, <<"rbp">>), kept))
    /\ rsp' = rsp + 5 * 8 + 64
    /\ UNCHANGED <<fn, input_img, output_img, regs, frame>>

grayscale_entry ==
    /\ Enter("grayscale", 1)
    /\ pc' = "loop"
    /\ regs' = [regs EXCEPT !.r8 = input_img.width,
                            !.r9 = input_img.width * input_img.height,
                            !.r10 = PixelAt("input", 0), !.r12 = PixelAt("output", 0),
                            !.r13 = 0]
    /\ kept' = Clobbered({"r12", "r13"})
    /\ UNCHANGED <<rsp, frame>>

\* .Lloopstart; to_grayscale adds up in r8, where the width was.
grayscale_turn ==
    /\ InLoop("grayscale") /\ regs.r13 < regs.r9
    /\ LET R == to_grayscale([regs EXCEPT !.rdi = Load(regs.r10)])
       IN  /\ Store(Put(output_img.data, regs.r12.at, R.rax))
           /\ regs' = [R EXCEPT !.r12.at = @ + 1, !.r10.at = @ + 1, !.r13 = @ + 1]
    /\ UNCHANGED <<fn, input_img, pc, rsp, frame, kept>>

grayscale_return ==
    /\ InLoop("grayscale") /\ regs.r13 >= regs.r9
    /\ pc' = "success"
    /\ UNCHANGED <<fn, input_img, output_img, regs, rsp, frame, kept>>

\* The five registers are pushed where the locals will be.
fade_prologue ==
    /\ Enter("fade", 1)
    /\ pc' = "loop"
    /\ frame' = Pushed(0, <<"rbp", "rbx", "r12", "r13", "r14", "r15">>)
    /\ rsp' = -5 * 8 - 64
    /\ kept' = Clobbered(CalleeSaved)
    /\ regs' = [regs EXCEPT !.rax = input_img.height, !.r8 = input_img.width,
                            !.r9 = input_img.height,
                            !.r12 = input_img.width * input_img.height,
                            !.r13 = PixelAt("input", 0), !.r14 = PixelAt("output", 0),
                            !.r15 = Unit * Unit * Unit * Unit, !.rbx = 0]

\* .Lfade; gradient leaves r8 to r11 alone.
fade_turn ==
    /\ InLoop("fade") /\ regs.rbx < regs.r12
    /\ LET R1 == [regs EXCEPT !.r10 = regs.rbx \div regs.r8, !.r11 = regs.rbx % regs.r8,
                              !.rdi = Load([regs.r13 EXCEPT !.at = @ + regs.rbx])]
           tr == gradient([R1 EXCEPT !.rdi = R1.r10, !.rsi = R1.r9])
           tc == gradient([tr EXCEPT !.rdi = tr.r11, !.rsi = tr.r8])
           faded(c) == (tr.rax * tc.rax * c) \div regs.r15
           R2 == make_pixel([tc EXCEPT !.rdi = faded(get_r(R1).rax),
                                       !.rsi = faded(get_g(R1).rax),
                                       !.rdx = faded(get_b(R1).rax),
                                       !.rcx = get_a(R1).rax])
       IN  /\ Store(Put(output_img.data, R2.r14.at + R2.rbx, R2.rax))
           /\ regs' = [R2 EXCEPT !.rbx = @ + 1]
    /\ frame' = Overwritten({<<-4, 4>>, <<-8, 4>>, <<-12, 4>>, <<-16, 4>>, <<-20, 4>>,
                             <<-32, 8>>, <<-40, 4>>, <<-44, 4>>, <<-48, 4>>, <<-56, 8>>})
    /\ UNCHANGED <<fn, input_img, pc, rsp, kept>>

\* .Lfade_epilogue pops in the order of the pushes.
fade_epilogue ==
    /\ InLoop("fade") /\ regs.rbx >= regs.r12
    /\ pc' = "success"
    /\ kept' = Popped(rsp + 64, <<"rbx", "r12", "r13", "r14", "r15", "rbp">>)
    /\ rsp' = rsp + 64 + 6 * 8
    /\ UNCHANGED <<fn, input_img, output_img, regs, frame>>

\* The dimensions of the output are written before the test for a square.
kaleidoscope_entry ==
    /\ Enter("kaleidoscope", 1)
    /\ LET w == input_img.width
           fake_width == IF (w \div 2) * 2 = w THEN w ELSE w + 1
           R == [regs EXCEPT !.r8 = w, !.r9 = input_img.height, !.rax = 0]
       IN  \/ /\ R.r8 # R.r9
              /\ pc' = "failure"
              /\ regs' = R
              /\ UNCHANGED kept
           \/ /\ R.r8 = R.r9
              /\ pc' = "loop"
              /\ regs' = [R EXCEPT !.r14 = PixelAt("input", 0), !.r9 = w * w,
                                   !.r15 = PixelAt("output", 0), !.r10 = fake_width,
                                   !.r11 = fake_width \div 2, !.r13 = 0]
              /\ kept' = Clobbered({"r13", "r14", "r15"})
    /\ UNCHANGED <<rsp, frame>>

\* .Lloop; r12 is used to turn a row or a column over and to exchange them.
kaleidoscope_turn ==
    /\ InLoop("kaleidoscope") /\ regs.r13 < regs.r9
    /\ LET row == regs.r13 \div regs.r8
           col == regs.r13 % regs.r8
           Folded(x) == IF x < regs.r11 THEN x ELSE regs.r10 - x - 1
           crosses == Folded(row) > Folded(col)
           idx == IF crosses THEN Folded(col) * regs.r8 + Folded(row)
                  ELSE Folded(row) * regs.r8 + Folded(col)
           pixel == Load([regs.r14 EXCEPT !.at = @ + idx])
       IN  /\ Store(Put(output_img.data, regs.r15.at, pixel))
           /\ regs' = [regs EXCEPT !.rax = 4 * idx, !.rbx = pixel,
                                   !.rdx = IF crosses THEN Folded(row) ELSE Folded(col),
                                   !.r12 = IF crosses THEN Folded(row)
                                           ELSE IF col >= regs.r11 THEN col
                                           ELSE IF row >= regs.r11 THEN row ELSE @,
                                   !.r15.at = @ + 1, !.r13 = @ + 1]
           /\ kept' = Clobbered(IF crosses \/ col >= regs.r11 \/ row >= regs.r11
                              THEN {"rbx", "r12"} ELSE {"rbx"})
    /\ UNCHANGED <<fn, input_img, pc, rsp, frame>>

\* .Lsuccess
kaleidoscope_return ==
    /\ InLoop("kaleidoscope") /\ regs.r13 >= regs.r9
    /\ pc' = "success"
    /\ regs' = [regs EXCEPT !.rax = 1]
    /\ UNCHANGED <<fn, input_img, output_img, rsp, frame, kept>>

Next ==
    \/ rgb_prologue \/ rgb_turn \/ rgb_epilogue
    \/ grayscale_entry \/ grayscale_turn \/ grayscale_return
    \/ fade_prologue \/ fade_turn \/ fade_epilogue
    \/ kaleidoscope_entry \/ kaleidoscope_turn \/ kaleidoscope_return

-----------------------------------------------------------------------------
(* The functions in C                                                      *)

\* The pixels of the input the loop has done, from the registers that count.
Turns ==
    LET all == input_img.width * input_img.height
    IN  CASE pc \notin {"loop", "success"} -> 0
          [] pc = "success" \/ (InLoop("rgb") /\ RgbDone) -> all
          [] InLoop("rgb") /\ ~RgbDone -> regs.r12 * regs.r8 + regs.r13
          [] InLoop("fade") -> regs.rbx
          [] OTHER -> regs.r13

C == INSTANCE ImgProc WITH i <- Turns

Init == C!Init /\ Entry

Spec == Init /\ [][Next]_asm_vars

\* The assembly writes the same pixels as the C functions, in the same order,
\* and refuses the same images.
ImplementsC == C!Spec

\* When a function returns, rsp is where the caller's return address is, the
\* caller has its rbp, and imgproc_rgb, which pushes r12 to r15 below its
\* locals, has given these back too.
StackIsBalanced ==
    pc \in {"success", "failure"} =>
        /\ rsp = 8
        /\ kept["rbp"] = "rbp"
        /\ fn = "rgb" => \A r \in {"r12", "r13", "r14", "r15"} : kept[r] = r

\* asm_imgproc_fns.S:222 and 396, "prologue to create ABI-compliant stack
\* frame": the functions with such a prologue return every callee-saved
\* register as they found it.
CalleeSavedKept == pc = "success" /\ fn \in {"rgb", "fade"} => kept = EntryKept
=============================================================================
