------------------------------ MODULE ImgMain ------------------------------
(***************************************************************************)
(* The programs c_imgproc and asm_imgproc of csf_assign02: main reads a    *)
(* PNG file (img_read and what it uses of pnglite.c), creates the output   *)
(* image, has it filled by the functions of ImgProc or of AsmImgProc, and  *)
(* writes a PNG file.  A step is a chunk or a row of the input file, a     *)
(* step of a transformation, or one of main's calls; a call that fails     *)
(* takes its cleanup and main's with it.                                   *)
(*                                                                         *)
(* Every block of memory and every FILE is followed through its life.  Any *)
(* malloc may fail, and any part of the input file may be bad.  What the   *)
(* input holds is chosen as it is read, what zlib makes of a chunk too     *)
(* (external): nothing, some rows of the picture or all of them.           *)
(***************************************************************************)
EXTENDS ImgProc, Png, FiniteSets

CONSTANTS LittleEndian,  \* what is_little_endian returns on this machine
          Leftover,      \* the pixels that memory nobody has written may show
          Lengths,       \* the lengths of IDAT chunks
          MaxChunks      \* bound: the chunks of the input file after its header

VARIABLES
    build,     \* "c" or "asm"
    stage,     \* where main is; at last "exit 0", "exit 1" or "crashed"
    picture, color,  \* the input file: what it shows, its color type
    heap,      \* what became of each block and FILE
    chunks, held, inflating, readbuflen,  \* the chunks read, how much of the
               \* picture they held, whether inflateInit has succeeded
    row, raw,  \* the rows that png_unfilter has done and their bytes
    output_file,
    regs, rsp, frame, kept  \* of AsmImgProc

read_vars == <<picture, color, chunks, held, inflating, readbuflen, row, raw>>
main_vars == <<stage, heap, output_file, build>>
c_vars == <<fn, input_img, output_img, pc, i>>
machine == <<regs, rsp, frame, kept>>
all_vars == <<read_vars, main_vars, c_vars, machine>>

Asm == INSTANCE AsmImgProc

ASSUME ProgramAssumption ==
    /\ LittleEndian \in BOOLEAN
    /\ Leftover \subseteq Pixel /\ Leftover # {}
    /\ Lengths \subseteq Nat /\ MaxChunks \in Nat

Blocks == {"input_img", "pixel_data", "raw", "png_data", "zs", "readbuf", "output_img",
           "output_data", "data_to_write", "filtered", "chunk", "in_file", "out_file"}

bpp == IF color = "truecolor" THEN 3 ELSE 4

num_pixels == picture.width * picture.height

\* What a header may say of the file.  Palettes, depths other than 8 and 16 and
\* interlaced files are refused; of what is left, gray and 16 bits are "other".
png_read_ihdr ==
    picture \in Images /\ color \in {"truecolor", "truecolor_alpha", "other"}

MainInit ==
    /\ stage = "open" /\ build = "c"
    /\ png_read_ihdr
    /\ heap = [b \in Blocks |-> "unset"]
    /\ chunks = 0 /\ held = "nothing" /\ inflating = FALSE /\ readbuflen = 0
    /\ row = 0 /\ raw = << >>
    /\ output_file = [state |-> "untouched"]
    /\ fn = "none" /\ pc = "call" /\ i = 0
    /\ input_img = [width |-> 0, height |-> 0, data |-> << >>] /\ output_img = input_img
    /\ Asm!Entry

-----------------------------------------------------------------------------
(* Memory and files.  A pointer that was set to NULL may be freed.          *)

Gets(h, S) == [b \in Blocks |-> IF b \in S THEN "live" ELSE h[b]]
IsNull(h, b) == [h EXCEPT ![b] = "null"]

Free(h, S) ==
    [b \in Blocks |-> IF b \notin S THEN h[b]
                      ELSE CASE h[b] = "live" -> "freed"
                             [] h[b] = "null" -> "null"
                             [] OTHER -> "misused"]

\* png_get_data after its loop: the buffer and the stream, of which inflateEnd
\* refuses one that inflateInit has not set up.
png_end_inflate(h, started) == IF started THEN Free(h, {"zs"}) ELSE h

Exit(status, h) == stage' = status /\ heap' = h

\* png_get_data returns an error: img_read closes the file and frees the
\* pixels, not the raw bytes; main frees the image.
get_data_fails(h, started) ==
    Exit("exit 1", Free(png_end_inflate(Free(h, {"readbuf"}), started),
                        {"png_data", "in_file", "pixel_data", "input_img"}))

-----------------------------------------------------------------------------
(* img_read                                                                *)

input_img_fails ==
    /\ stage = "open"
    /\ Exit("exit 1", IsNull(heap, "input_img"))
    /\ UNCHANGED <<read_vars, output_file, build, c_vars, machine>>

\* No such file.
png_open_file_read_fails ==
    /\ stage = "open"
    /\ Exit("exit 1", Free(Gets(heap, {"input_img"}), {"input_img"}))
    /\ UNCHANGED <<read_vars, output_file, build, c_vars, machine>>

\* The signature or the header is refused: the FILE stays open.
png_open_read_fails ==
    /\ stage = "open"
    /\ Exit("exit 1", Free(Gets(heap, {"input_img", "in_file"}), {"input_img"}))
    /\ UNCHANGED <<read_vars, output_file, build, c_vars, machine>>

not_truecolor ==
    /\ stage = "open" /\ color = "other"
    /\ Exit("exit 1", Free(Gets(heap, {"input_img", "in_file"}), {"in_file", "input_img"}))
    /\ UNCHANGED <<read_vars, output_file, build, c_vars, machine>>

\* The buffers for the pixels are not tested for NULL.
img_read ==
    /\ stage = "open" /\ color # "other"
    /\ stage' = "chunks"
    /\ LET buffers == IF color = "truecolor" THEN {"pixel_data", "raw"} ELSE {"pixel_data"}
       IN  \E failing \in SUBSET buffers :
            heap' = [b \in Blocks |->
                        CASE b \in failing \cup {"png_data", "zs", "readbuf"} -> "null"
                          [] b \in (buffers \ failing) \cup {"input_img", "in_file"} -> "live"
                          [] OTHER -> heap[b]]
    /\ UNCHANGED <<read_vars, output_file, build, c_vars, machine>>

NextChunk ==
    /\ stage = "chunks" /\ chunks < MaxChunks
    /\ chunks' = chunks + 1
    /\ UNCHANGED <<picture, color, row, raw, output_file, build, c_vars, machine>>

\* What zlib makes of a chunk is more of the picture, or the last of it.
png_inflate(got) == held' = IF held = "all" THEN held ELSE got

\* Room for the picture and the stream with the first IDAT chunk, a buffer that
\* is large enough, then the data.
png_read_idat ==
    /\ NextChunk
    /\ \E length \in Lengths, got \in {"some", "all"} :
        LET h1 == Gets(heap, {"png_data", "zs"})
            fits == heap.readbuf = "live" /\ readbuflen >= length
        IN  /\ readbuflen' = IF fits THEN readbuflen ELSE length
            /\ heap' = IF fits THEN h1 ELSE Gets(Free(h1, {"readbuf"}), {"readbuf"})
            /\ png_inflate(got)
    /\ inflating' = TRUE
    /\ UNCHANGED stage

png_process_chunk_other ==
    /\ NextChunk
    /\ UNCHANGED <<held, inflating, readbuflen, stage, heap>>

\* The file ends where a chunk should begin.
png_process_chunk_eof ==
    /\ NextChunk
    /\ get_data_fails(heap, inflating)
    /\ UNCHANGED <<held, inflating, readbuflen>>

\* No memory for the picture or for the stream, or a stream inflateInit refuses.
png_init_inflate_fails ==
    /\ NextChunk
    /\ heap.zs = "null"
    /\ LET data == Gets(heap, {"png_data"})
       IN  \E h \in {heap, data, Gets(data, {"zs"})} : get_data_fails(h, FALSE)
    /\ UNCHANGED <<held, inflating, readbuflen>>

\* No memory for the chunk, or one that is cut off, has another checksum or does
\* not inflate.
png_read_idat_fails ==
    /\ NextChunk
    /\ \E length \in Lengths :
        LET h1 == Gets(heap, {"png_data", "zs"})
            fits == heap.readbuf = "live" /\ readbuflen >= length
            freed == Free(h1, {"readbuf"})
        IN  \/ ~fits /\ get_data_fails(IsNull(freed, "readbuf"), TRUE)
            \/ get_data_fails(IF fits THEN h1 ELSE Gets(freed, {"readbuf"}), TRUE)
    /\ UNCHANGED <<held, inflating, readbuflen>>

\* IEND, whatever has been read before it.
png_done ==
    /\ NextChunk
    /\ stage' = "unfilter"
    /\ heap' = png_end_inflate(Free(heap, {"readbuf"}), inflating)
    /\ inflating' = FALSE /\ readbuflen' = 0
    /\ UNCHANGED held

-----------------------------------------------------------------------------
(* png_unfilter, and the end of img_read                                   *)

Target == IF color = "truecolor" THEN "raw" ELSE "pixel_data"

CanStore(b) == heap[b] = "live" \/ num_pixels = 0

RowLength == picture.width * bpp

png_unfilter_row ==
    /\ stage = "unfilter" /\ held = "all" /\ row < picture.height
    /\ CanStore(Target)
    /\ \E filter \in FilterTypes :
        LET above == IF row = 0 THEN NoRow ELSE ShownRow(picture, bpp, row - 1)
            in == Filtered(filter, bpp, ShownRow(picture, bpp, row), above)
            prev_line == IF raw = << >> THEN NoRow ELSE SubSeq(raw, Len(raw) - RowLength + 1, Len(raw))
        IN  raw' = raw \o unfiltered(filter, bpp, in, prev_line)
    /\ row' = row + 1
    /\ UNCHANGED <<picture, color, chunks, held, inflating, readbuflen,
                   main_vars, c_vars, machine>>

\* A row of the file, or of memory the file has not filled, begins with none
\* of the filters.
png_unknown_filter ==
    /\ stage = "unfilter" /\ row < picture.height
    /\ held # "nothing"
    /\ Exit("exit 1", Free(heap, {"png_data", "in_file", "pixel_data", "input_img"}))
    /\ UNCHANGED <<read_vars, output_file, build, c_vars, machine>>

\* The picture is in memory.  Of a picture the file did not give in full some
\* pixels are what memory held before; which ones is left out.
img_read_returns ==
    /\ stage = "unfilter" /\ (held = "all" => row = picture.height)
    /\ CanStore(Target) /\ CanStore("pixel_data")
    /\ \E p \in Leftover :
        input_img' =
            [width |-> picture.width, height |-> picture.height,
             data |-> IF held # "all" THEN [k \in 0..(num_pixels - 1) |-> p]
                      ELSE IF color = "truecolor" THEN ExpandTruecolor(raw, num_pixels)
                      ELSE SwapTruecolorAlpha(LittleEndian, raw, num_pixels)]
    /\ stage' = "create"
    /\ heap' = Free(heap, {"png_data", "in_file"}
                          \cup (IF color = "truecolor" THEN {"raw"} ELSE {}))
    /\ row' = 0 /\ raw' = << >> /\ chunks' = 0
    /\ UNCHANGED <<picture, color, held, inflating, readbuflen, output_file, build,
                   fn, output_img, pc, i, machine>>

\* Pixels are stored through a pointer that is NULL.
img_read_crashes ==
    /\ stage = "unfilter" /\ ~(CanStore(Target) /\ CanStore("pixel_data"))
    /\ Exit("crashed", heap)
    /\ UNCHANGED <<read_vars, output_file, build, c_vars, machine>>

-----------------------------------------------------------------------------
(* The rest of main                                                        *)

\* cleanup_image of one image, and of both as main ends.
InputImage == {"pixel_data", "input_img"}
OutputImage == {"output_data", "output_img"}

\* The first of main's arguments is the name of a function, or unknown.
create_output ==
    /\ stage = "create"
    /\ fn' \in Functions \cup {"unknown"} /\ build' \in {"c", "asm"}
    /\ output_img' = create_output_img(input_img, fn')
    /\ stage' = "apply"
    /\ heap' = Gets(heap, OutputImage)
    /\ UNCHANGED <<read_vars, output_file, input_img, pc, i, machine>>

\* Mutant: what has been read is forgotten.
create_output_fails_early ==
    /\ stage = "create"
    /\ \E h \in {IsNull(heap, "output_img"),
                 Free(IsNull(Gets(heap, {"output_img"}), "output_data"), {"output_img"})} :
        Exit("exit 1", Free(h, {"input_img"}))
    /\ UNCHANGED <<read_vars, output_file, build, c_vars, machine>>

\* No memory for the image or for its pixels.
create_output_fails ==
    /\ stage = "create"
    /\ \E h \in {IsNull(heap, "output_img"),
                 Free(IsNull(Gets(heap, {"output_img"}), "output_data"), {"output_img"})} :
        Exit("exit 1", Free(h, InputImage))
    /\ UNCHANGED <<read_vars, output_file, build, c_vars, machine>>

unknown_transformation ==
    /\ stage = "apply" /\ fn = "unknown"
    /\ Exit("exit 1", Free(heap, InputImage \cup OutputImage))
    /\ UNCHANGED <<read_vars, output_file, build, c_vars, machine>>

\* apply_rgb, ..., apply_kaleidoscope
apply ==
    /\ stage = "apply" /\ fn \in Functions
    /\ \/ build = "c" /\ (Call \/ imgproc_grayscale \/ imgproc_rgb \/ imgproc_fade
                               \/ imgproc_kaleidoscope \/ Return)
                      /\ UNCHANGED machine
       \/ build = "asm" /\ Asm!Next /\ UNCHANGED i
    /\ UNCHANGED <<read_vars, main_vars>>

apply_fails ==
    /\ stage = "apply"
    /\ \/ pc = "failure" /\ Exit("exit 1", Free(heap, InputImage \cup OutputImage))
       \/ pc = "undefined" /\ Exit("crashed", heap)
    /\ UNCHANGED <<read_vars, output_file, build, c_vars, machine>>

Swapped == IF LittleEndian THEN {"data_to_write"} ELSE {}

\* What the header and the data of the output file say.
png_write_ihdr(img) == [width |-> img.width, height |-> img.height]

png_set_data(img) ==
    LET header == png_write_ihdr(img)
    IN  [state |-> "complete", width |-> header.width, height |-> header.height,
         rows |-> RowsToWrite(LittleEndian, img)]

\* Mutant: main goes on as if the file had been written.
img_write_fails_quietly ==
    /\ stage = "apply" /\ pc = "success"
    /\ \/ UNCHANGED output_file /\ Exit("exit 0", Free(heap, InputImage \cup OutputImage))
       \/ /\ LittleEndian
          /\ output_file' = [state |-> "empty"]
          /\ Exit("exit 0", Free(IsNull(Gets(heap, {"out_file"}), "data_to_write"),
                                 {"out_file"} \cup InputImage \cup OutputImage))
    /\ UNCHANGED <<read_vars, build, c_vars, machine>>

\* The output file cannot be opened, or there is no memory for the swapped
\* pixels once it has been opened, and so emptied.
img_write_fails ==
    /\ stage = "apply" /\ pc = "success"
    /\ \/ UNCHANGED output_file /\ Exit("exit 1", Free(heap, InputImage \cup OutputImage))
       \/ /\ LittleEndian
          /\ output_file' = [state |-> "empty"]
          /\ Exit("exit 1", Free(IsNull(Gets(heap, {"out_file"}), "data_to_write"),
                                 {"out_file"} \cup InputImage \cup OutputImage))
    /\ UNCHANGED <<read_vars, build, c_vars, machine>>

\* png_set_data does not test its buffers for NULL.
img_write_crashes ==
    /\ stage = "apply" /\ pc = "success"
    /\ LET h == Gets(heap, {"out_file"} \cup Swapped)
       IN  \/ /\ output_img.height > 0
              /\ output_file' = [state |-> "empty"]
              /\ Exit("crashed", IsNull(h, "filtered"))
           \/ /\ output_file' = [state |-> "short"]
              /\ Exit("crashed", IsNull(Gets(h, {"filtered"}), "chunk"))
    /\ UNCHANGED <<read_vars, build, c_vars, machine>>

\* The results of compress and fwrite are not looked at: the file is complete, or
\* short because the disk was full, or its IDAT chunk holds no picture because
\* there was no memory to compress it (zlib then gives it no bytes).
img_write ==
    /\ stage = "apply" /\ pc = "success"
    /\ output_file' \in {png_set_data(output_img), [state |-> "short"],
                         [state |-> "undeflated"]}
    /\ Exit("exit 0",
            LET written == {"out_file", "filtered", "chunk"} \cup Swapped
            IN  Free(Gets(heap, written), written \cup InputImage \cup OutputImage))
    /\ UNCHANGED <<read_vars, build, c_vars, machine>>

MainNext ==
    \/ input_img_fails \/ png_open_file_read_fails \/ png_open_read_fails
    \/ not_truecolor \/ img_read
    \/ png_read_idat \/ png_process_chunk_other \/ png_process_chunk_eof
    \/ png_init_inflate_fails \/ png_read_idat_fails \/ png_done
    \/ png_unfilter_row \/ png_unknown_filter \/ img_read_returns \/ img_read_crashes
    \/ create_output \/ create_output_fails \/ unknown_transformation
    \/ apply \/ apply_fails
    \/ img_write_fails \/ img_write_crashes \/ img_write

MainSpec == MainInit /\ [][MainNext]_all_vars

-----------------------------------------------------------------------------
\* The pixels that reach the transformations are those of the file, whatever
\* filter each of its rows went through and however its IDAT chunks cut it,
\* opaque where the file has no alpha.
ReadsThePicture ==
    stage \in {"create", "apply"} /\ held = "all" =>
        /\ input_img.width = picture.width /\ input_img.height = picture.height
        /\ input_img.data = [k \in DOMAIN picture.data |->
                                IF color = "truecolor" THEN [picture.data[k] EXCEPT !.a = 255]
                                ELSE picture.data[k]]

\* Nothing is freed or closed that is not live, and at exit nothing is live,
\* except after a failing img_read: the raw bytes (image.c:67), the FILE of a
\* refused header (pnglite.c:303), a stream inflateInit refused (pnglite.c:406).
ReleasedAtExit ==
    LET live == {b \in Blocks : heap[b] = "live"}
    IN  /\ \A b \in Blocks : heap[b] # "misused"
        /\ stage = "exit 0" => live = {}
        /\ stage = "exit 1" =>
            /\ input_img.data # << >> => live = {}
            /\ live \subseteq {"raw", "in_file", "zs"}
            /\ "raw" \in live => color = "truecolor"
            /\ "in_file" \in live => live = {"in_file"}
            /\ "zs" \in live => ~inflating

\* Exit status 0 means that the transformation succeeded and that the output
\* file shows its result, unless the disk was full or there was no memory to
\* compress it.  Exit status 1 means that the output file is as it was before,
\* unless memory ran out in img_write.
ExitTellsTruth ==
    /\ stage = "exit 0" =>
        /\ pc = "success" /\ fn \in Functions
        /\ output_file.state = "complete" =>
            /\ output_file.width = output_img.width
            /\ output_file.height = output_img.height
            /\ output_file.rows = [k \in 1..output_img.height |-> ShownRow(output_img, 4, k - 1)]
        /\ output_file.state \in {"complete", "short", "undeflated"}
    /\ stage = "exit 1" =>
        output_file.state = (IF heap.data_to_write = "null" THEN "empty" ELSE "untouched")

\* image.h:59, img_write returns "IMG_SUCCESS if successful, otherwise one of the
\* IMG_ERR_* values": no success with a file that lacks some of the picture.
SuccessIsWritten == stage = "exit 0" => output_file.state = "complete"

\* image.h:46, the same of img_read: no success without the picture of the file.
SuccessIsRead == stage = "exit 0" => held = "all"

\* Both programs transform alike: on an image that is not empty every step of
\* a function in assembly is a step of the function in C.
BuildsAgree ==
    [][stage = "apply" /\ build = "asm" /\ num_pixels > 0 =>
        [Asm!C!Next]_<<fn, input_img, output_img, pc, Asm!Turns>>]_all_vars

\* After any function of the assembly, also in this program.
StackIsBalanced == build = "asm" => Asm!StackIsBalanced
=============================================================================
