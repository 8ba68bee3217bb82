----------------------------- MODULE FileCodec ------------------------------
(***************************************************************************)
(* `dach encode' of a file followed by `dach decode' of the result         *)
(* (src/src/dach/dach.c) through the arithmetic coder of                   *)
(* src/src/dach/dach_ar64.c and the adaptive model of Ppm0.                *)
(*                                                                         *)
(* The coder keeps an interval low .. high of WordBits-bit numbers.  Each  *)
(* symbol narrows it to the symbol's share; normalisation then shifts out  *)
(* the leading bits on which low and high agree, and remembers in          *)
(* "underflow" the bits it cannot decide yet because the interval          *)
(* straddles the middle.  The decoder repeats the same narrowing and       *)
(* shifting on its own copy of the model, following the code word esym.    *)
(*                                                                         *)
(* The two runs of the program are sequential: one action per call or per  *)
(* loop iteration, "stage" says which comes next.  The decoder's ARC is a  *)
(* new struct with the same fields, so the variables are shared and reset. *)
(* Bit masks are written as arithmetic on Quarter: 0x40000000 is Quarter,  *)
(* 0x80000000 is Half, 0xFFFFFFFF is Top.                                  *)
(*                                                                         *)
(* No fwrite is checked, and the encoder may be killed: either file can    *)
(* end early, the encoded one also while its program reports success.      *)
(* One such loss happens in a run of the pair; a file is lost from a word  *)
(* (encoded) or a byte (decoded) on, and the header whole or not at all.   *)
(***************************************************************************)
EXTENDS Ppm0, Sequences, SequencesExt

CONSTANTS WordBits,   \* 32 in the code: width of low, high, esym and io_buffer
          HdrLimit,   \* 2^32 in the code: the file size is stored in a u32
          MaxBuf,     \* 4096 in the code: bytes buffered before an fwrite
          MaxLen,     \* bound: length of the files
          Losses      \* what may be lost: "code", "output"

ASSUME WordBitsAssumption == WordBits \in Nat /\ WordBits >= 3
ASSUME BoundsAssumption == /\ HdrLimit \in Nat \ {0}
                           /\ MaxBuf \in Nat \ {0}
                           /\ MaxLen \in Nat
                           /\ Losses \subseteq {"code", "output"}

Quarter == 2 ^ (WordBits - 2)
ASSUME QuarterAssumption == Quarter \in Nat \ {0}
\* What "^" means, which the provers are not told.
ASSUME PowersAssumption == \A k \in 0 .. WordBits - 1 : 2 ^ k \in Nat /\ 2 ^ (k + 1) = 2 * 2 ^ k
Half == 2 * Quarter
Top == 4 * Quarter - 1

VARIABLES input,      \* the file to encode
          stage,      \* which call or loop iteration of the programs is next
          pos,        \* arc->total_syms
          low, high,  \* arc->low, arc->high
          underflow,  \* arc->underflow
          cur,        \* the symbol being coded
          io,         \* the bits in io_buffer: written (encoder), unread (decoder)
          header,     \* the size stored in front of the code
          code,       \* the words of the encoded file
          nread,      \* words of it the decoder has read
          eof_in,     \* arc->eof_in: a read came back short
          esym,       \* arc->esym, the decoder's window on the code
          chr,        \* the byte dach_decode is about to return
          stop,       \* arc->stop
          outbuf,     \* buf[0 .. p_buf-1] of decode()
          outfile,    \* the decoded file
          lost        \* history: "nothing", or which file ended early

interval == <<low, high, underflow>>
reader == <<nread, eof_in, esym>>
output == <<chr, stop, outbuf, outfile>>
vars == <<ppm, input, stage, pos, interval, cur, io, header, code, reader, output, lost>>

Final == {"done", "failed", "abort"}   \* "failed" is exit(1), "abort" an assert

Init == /\ PpmInit
        /\ input \in BoundedSeq(Byte, MaxLen)
        /\ stage = "open"
        /\ pos = 0 /\ low = 0 /\ high = Top /\ underflow = 0 /\ cur = 0
        /\ io = <<>> /\ header = 0 /\ code = <<>>
        /\ nread = 0 /\ eof_in = FALSE /\ esym = 0
        /\ chr = 0 /\ stop = FALSE /\ outbuf = <<>> /\ outfile = <<>>
        /\ lost = "nothing"

-----------------------------------------------------------------------------
(* The coder's arithmetic, shared by both directions. *)

range == high - low + 1

\* dach_high_scale, dach_low_scale: where the share of symbol s ends and begins.
HighScale(s) == low + (range * Cum(s)) \div scale - 1
LowScale(s) == low + (range * Cum(s + 1)) \div scale

\* The checks of dach_encode_step and of what it calls.  An assert aborts; an
\* empty share (or one below 0, which the 32-bit comparison catches) exits.
StepAsserts(s) == s # 0 /\ s <= SymCount - 2 /\ high > low
ShareIsEmpty(s) == HighScale(s) < LowScale(s)

CanNarrow(s) == StepAsserts(s) /\ ~ShareIsEmpty(s)

Narrow(s) == low' = LowScale(s) /\ high' = HighScale(s)

SameHalf == (low >= Half) = (high >= Half)
Straddles == /\ ~SameHalf
             /\ low % Half >= Quarter      \* low & 0x40000000
             /\ high % Half < Quarter      \* !(high & 0x40000000)
\* Mutant of Normal: the loop does not handle an interval that straddles the middle.
NormalAtOnce == ~SameHalf
Normal == ~SameHalf /\ ~Straddles

\* Mutant of Shl: without the mask 0xFFFFFFFF.
ShlUnmasked(x) == 2 * x
Shl(x) == (2 * x) % (Top + 1)
Squeeze == IF Straddles THEN Quarter ELSE 0    \* 0x3FFFFFFF off low, into high
ShiftInterval == /\ low' = Shl(low - Squeeze)
                 /\ high' = Shl(high + Squeeze) + 1

\* dach_bitout of some bits: a full buffer is written to the file before the next
\* bit goes in, so a word is written when there is a bit after it.
BitOut(w, bits) ==
    LET all == w.io \o bits
        words == (Len(all) - 1) \div WordBits
    IN  [io   |-> SubSeq(all, words * WordBits + 1, Len(all)),
         code |-> w.code \o [k \in 1 .. words |->
                                SubSeq(all, (k - 1) * WordBits + 1, k * WordBits)]]

\* Mutant of WriteStream: the undecided bits are not complemented.
WriteStreamSameBits(w, b, pending) == BitOut(w, <<b>> \o [i \in 1 .. pending |-> b])
\* dach_write_stream: a bit, then the undecided bits, which are its complement.
WriteStream(w, b, pending) == BitOut(w, <<b>> \o [i \in 1 .. pending |-> 1 - b])

Written(w) == io' = w.io /\ code' = w.code
Writer == [io |-> io, code |-> code]

-----------------------------------------------------------------------------
(* encode() *)

\* Mapping an empty file fails after the output file has been created.
OpenInput == /\ stage = "open"
             /\ IF input = <<>>
                THEN stage' = "failed" /\ UNCHANGED header
                ELSE stage' = "encode" /\ header' = Len(input) % HdrLimit
             /\ UNCHANGED <<ppm, input, pos, interval, cur, io, code, reader, output, lost>>

NextSym == chr_to_sym[input[pos + 1]]

\* dach_encode up to its normalisation loop.
EncodeNarrow == /\ stage = "encode"
                /\ pos < Len(input)
                /\ CanNarrow(NextSym)
                /\ Narrow(NextSym)
                /\ cur' = NextSym
                /\ pos' = pos + 1
                /\ stage' = "shift out"
                /\ UNCHANGED <<ppm, input, underflow, io, header, code, reader, output, lost>>

\* dach_encode_step gives up: an assert fails, or the share is empty: exit(1).
EncodeExit == /\ stage = "encode"
              /\ pos < Len(input)
              /\ ~CanNarrow(NextSym)
              /\ stage' = IF StepAsserts(NextSym) THEN "failed" ELSE "abort"
              /\ UNCHANGED <<ppm, input, pos, interval, cur, io, header, code, reader, output, lost>>

\* A leading bit is decided: write it out and shift.
ShiftOut == /\ stage = "shift out"
            /\ SameHalf
            /\ Written(WriteStream(Writer, IF high >= Half THEN 1 ELSE 0, underflow))
            /\ underflow' = 0
            /\ ShiftInterval
            /\ UNCHANGED <<ppm, input, stage, pos, cur, header, reader, output, lost>>

\* The interval straddles the middle: leave the second bit out and remember it.
ShiftUnderflow == /\ stage = "shift out"
                  /\ Straddles
                  /\ underflow' = underflow + 1
                  /\ ShiftInterval
                  /\ UNCHANGED <<ppm, input, stage, pos, cur, io, header, code, reader, output, lost>>

\* The loop ends; dach_encode calls update and returns.
EncodeLearn == /\ stage = "shift out"
               /\ Normal
               /\ UpdateBegin(cur)
               /\ stage' = "encoder learns"
               /\ UNCHANGED <<input, pos, interval, cur, io, header, code, reader, output, lost>>

EncodeUpdate == /\ stage = "encoder learns"
                /\ UpdateStep
                /\ stage' = IF phase' = "ready" THEN "encode" ELSE stage
                /\ UNCHANGED <<input, pos, interval, cur, io, header, code, reader, output, lost>>

\* dach_stop_encoder: the two bits that select a point of the interval, padding
\* up to a whole word, and one more bit, whose only effect is to write the word.
Pad(w) == [w EXCEPT !.io = @ \o [i \in 1 .. WordBits - Len(@) |-> 0]]
StopEncoder == /\ stage = "encode"
               /\ pos = Len(input)
               /\ IF low >= Half
                  THEN stage' = "abort" /\ UNCHANGED <<io, code>>
                  ELSE /\ LET selected == WriteStream(Writer, 1, underflow + 1)
                          IN  Written(BitOut(Pad(BitOut(selected, <<0>>)), <<0>>))
                       /\ stage' = "encoded"
               /\ underflow' = 0
               /\ UNCHANGED <<ppm, input, pos, low, high, cur, header, reader, output, lost>>

\* The encoder dies, or its writes fail from some word on without anybody
\* noticing: the file holds only the first words, or is empty.
LoseCode == /\ lost = "nothing" /\ "code" \in Losses
            /\ stage \in {"encode", "shift out", "encoder learns", "encoded"}
            /\ \/ /\ \E n \in 0 .. Len(code) : code' = SubSeq(code, 1, n)
                  /\ UNCHANGED header
               \/ code' = <<>> /\ header' = 0
            /\ lost' = "code"
            /\ stage' = "encoded"
            /\ UNCHANGED <<ppm, input, pos, interval, cur, io, reader, output>>
-----------------------------------------------------------------------------
(* decode() *)

\* dach_bitin: the next bit of the code.  Past its end a read leaves io_buffer
\* zero and sets eof_in; a second one is an assertion failure.
Refill == io = <<>>
MayRead == Refill => ~eof_in
Buffer == IF ~Refill THEN io
          ELSE IF nread < Len(code) THEN code[nread + 1]
          ELSE [i \in 1 .. WordBits |-> 0]
\* Mutant of TakeBuffer: eof_in is set when the last word is read, not past it.
TakeBufferEofEarly == /\ nread' = IF Refill /\ nread < Len(code) THEN nread + 1 ELSE nread
                      /\ eof_in' = (eof_in \/ (Refill /\ nread + 1 >= Len(code)))
\* Mutant of TakeBuffer: a short read is not noticed.
TakeBufferNeverEof == /\ nread' = IF Refill /\ nread < Len(code) THEN nread + 1 ELSE nread
                      /\ UNCHANGED eof_in
TakeBuffer == /\ nread' = IF Refill /\ nread < Len(code) THEN nread + 1 ELSE nread
              /\ eof_in' = (eof_in \/ (Refill /\ nread = Len(code)))

\* A new process: a new model and a new ARC; the size is read from the header.
OpenCode == /\ stage = "encoded"
            /\ PpmReset
            /\ pos' = 0 /\ low' = 0 /\ high' = Top /\ underflow' = 0 /\ cur' = 0
            /\ io' = <<>> /\ nread' = 0 /\ eof_in' = FALSE /\ esym' = 0
            /\ stage' = "fill"
            /\ UNCHANGED <<input, header, code, output, lost>>

\* One iteration of dach_start_decoder's loop, which takes WordBits bits: those
\* of the one word that its first iteration reads.
FillWindow == /\ stage = "fill"
              /\ esym' = Shl(esym) + Head(Buffer)
              /\ io' = Tail(Buffer)
              /\ TakeBuffer
              /\ stage' = IF Len(Buffer) = 1 THEN "decode" ELSE stage
              /\ UNCHANGED <<ppm, input, pos, interval, cur, header, code, output, lost>>

\* The value dach_decode looks up: how far into the interval esym points.
Target == ((esym - low + 1) * scale - 1) \div range
Found == FindSym(Target)

\* The asserts that dach_decode makes before it narrows the interval: its own,
\* that of find_sym, and the count of bytes against the header.
DecodeAsserts == high > low /\ Found # 0 /\ pos + 1 <= header

\* dach_decode up to its normalisation loop.
DecodeNarrow == /\ stage = "decode"
                /\ DecodeAsserts
                /\ pos + 1 # header
                /\ CanNarrow(Found)
                /\ Narrow(Found)
                /\ cur' = Found
                /\ pos' = pos + 1
                /\ stage' = "shift in"
                /\ UNCHANGED <<ppm, input, underflow, io, header, code, reader, output, lost>>

\* The last byte returns at once: no narrowing, no update.
DecodeLast == /\ stage = "decode"
              /\ DecodeAsserts
              /\ pos + 1 = header
              /\ chr' = sym_to_chr[Found]
              /\ stop' = TRUE
              /\ pos' = pos + 1
              /\ stage' = "store"
              /\ UNCHANGED <<ppm, input, interval, cur, io, header, code, reader, outbuf, outfile, lost>>

\* Mutant of Flipped: "esym ^= 0x40000000" is left out.
NeverFlipped == esym
\* The second bit of esym follows those of low and high: esym ^= 0x40000000.
Flipped == IF ~Straddles THEN esym
           ELSE IF esym % Half >= Quarter THEN esym - Quarter
           ELSE esym + Quarter

\* One iteration of the loop; the interval must not have shrunk to one point.
ShiftIn == /\ stage = "shift in"
           /\ high > low
           /\ ~Normal
           /\ MayRead
           /\ ShiftInterval
           /\ esym' = Shl(Flipped) + Head(Buffer)
           /\ io' = Tail(Buffer)
           /\ TakeBuffer
           /\ UNCHANGED <<ppm, input, stage, pos, underflow, cur, header, code, output, lost>>

\* dach_decode gives up before the loop: an assert fails or encode_step exits.
DecodeExit == /\ stage = "decode"
              /\ ~(DecodeAsserts /\ (pos + 1 = header \/ CanNarrow(Found)))
              /\ stage' = IF DecodeAsserts /\ StepAsserts(Found) THEN "failed" ELSE "abort"
              /\ UNCHANGED <<ppm, input, pos, interval, cur, io, header, code, reader, output, lost>>

\* An assert of the loop fails: the interval is one point, or the code is over.
ShiftInAborts == /\ stage = "shift in"
                 /\ ~(high > low /\ (Normal \/ MayRead))
                 /\ stage' = "abort"
                 /\ UNCHANGED <<ppm, input, pos, interval, cur, io, header, code, reader, output, lost>>

\* The loop ends; the byte is looked up before the update can move it.
DecodeLearn == /\ stage = "shift in"
               /\ high > low
               /\ Normal
               /\ chr' = sym_to_chr[cur]
               /\ UpdateBegin(cur)
               /\ stage' = "decoder learns"
               /\ UNCHANGED <<input, pos, interval, cur, io, header, code, reader,
                              stop, outbuf, outfile, lost>>

DecodeUpdate == /\ stage = "decoder learns"
                /\ UpdateStep
                /\ stage' = IF phase' = "ready" THEN "store" ELSE stage
                /\ UNCHANGED <<input, pos, interval, cur, io, header, code, reader, output, lost>>

\* fwrite of buf to the decoded file.  Its result is not looked at: when the
\* disk is full some of these bytes and all later ones are lost.
Flush(buf) == \/ /\ lost # "output"
                 /\ outfile' = outfile \o buf
                 /\ UNCHANGED lost
              \/ /\ lost = "nothing" /\ "output" \in Losses
                 /\ \E n \in 0 .. Len(buf) - 1 : outfile' = outfile \o SubSeq(buf, 1, n)
                 /\ lost' = "output"
              \/ lost = "output" /\ UNCHANGED <<outfile, lost>>

\* Mutant of Store: p_buf is not reset after a full buffer has been written.
StoreKeepsBuffer ==
    /\ stage = "store"
    /\ outbuf' = Append(outbuf, chr)
    /\ IF Len(outbuf') = MaxBuf THEN Flush(outbuf') ELSE UNCHANGED <<outfile, lost>>
    /\ stage' = IF stop THEN "close" ELSE "decode"
    /\ UNCHANGED <<ppm, input, pos, interval, cur, io, header, code, reader, chr, stop>>

\* The loop of decode(): the byte goes into buf, a full buf to the file, and
\* what is left of it when dach_eof says so.
Store == /\ stage = "store"
         /\ LET buf == Append(outbuf, chr)
            IN  IF Len(buf) = MaxBuf
                THEN Flush(buf) /\ outbuf' = <<>>
                ELSE outbuf' = buf /\ UNCHANGED <<outfile, lost>>
         /\ stage' = IF stop THEN "close" ELSE "decode"
         /\ UNCHANGED <<ppm, input, pos, interval, cur, io, header, code, reader, chr, stop>>

\* Mutant of Close: the bytes left in buf are not written.
CloseDropsBuffer == /\ stage = "close"
                    /\ stage' = "done"
                    /\ UNCHANGED <<ppm, input, pos, interval, cur, io, header, code, reader, output, lost>>
Close == /\ stage = "close"
         /\ Flush(outbuf)
         /\ stage' = "done"
         /\ UNCHANGED <<ppm, input, pos, interval, cur, io, header, code, reader,
                        chr, stop, outbuf>>

\* Both programs have ended; the only states without another step.
Terminated == stage \in Final /\ UNCHANGED vars

Encoder == \/ OpenInput \/ EncodeNarrow \/ EncodeExit \/ ShiftOut \/ ShiftUnderflow
           \/ EncodeLearn \/ EncodeUpdate \/ StopEncoder
Decoder == \/ OpenCode \/ FillWindow \/ DecodeNarrow \/ DecodeLast \/ DecodeExit \/ ShiftIn
           \/ ShiftInAborts \/ DecodeLearn \/ DecodeUpdate \/ Store \/ Close

Next == Encoder \/ Decoder \/ LoseCode \/ Terminated

\* Sequential programs: while one can take a step it takes it.
Spec == Init /\ [][Next]_vars /\ WF_vars(Encoder \/ Decoder)

-----------------------------------------------------------------------------
\* Every variable has its type: registers fit their width, buffers their size.
CodecTypeOK == /\ TypeOK
               /\ input \in Seq(Byte)
               /\ stage \in Final \cup {"open", "encode", "shift out", "encoder learns", "encoded",
                                       "fill", "decode", "shift in", "decoder learns", "store", "close"}
               /\ pos \in 0 .. Len(input)
               /\ low \in 0 .. Top /\ high \in 0 .. Top /\ esym \in 0 .. Top
               /\ underflow \in Nat
               /\ cur \in Sym \cup {0}
               /\ io \in Seq({0, 1}) /\ Len(io) <= WordBits
               /\ \A i \in DOMAIN code : code[i] \in [1 .. WordBits -> {0, 1}]
               /\ header \in 0 .. HdrLimit - 1
               /\ nread \in 0 .. Len(code)
               /\ eof_in \in BOOLEAN /\ stop \in BOOLEAN
               /\ chr \in Chr
               /\ Len(outbuf) < MaxBuf
               /\ lost \in Losses \cup {"nothing"}

\* The file size fits the header.
SizeIsStored == Len(input) < HdrLimit

\* Each symbol's share of the narrowest interval has at least two points, up to
\* the last symbol: scale never passes half of that interval.
PrecisionSuffices == 2 * (SymCount - 1 + Len(input) - 1) <= Quarter + 2

\* When decode() returns normally and nothing was lost its output is the file.
\* Encoder and decoder only agree because both narrow by the same table, learn
\* at the same moments and drop the same bits.
RoundTrip == (stage = "done" /\ lost = "nothing" /\ SizeIsStored) => outfile = input

\* A file that is not empty and that the precision suffices for is coded and
\* decoded: no exit(1), and none of the asserts of the coder and of the model
\* fails, among them that at most one read passes the end of the code.
NeverGivesUp == (lost # "code" /\ input # <<>> /\ SizeIsStored /\ PrecisionSuffices)
                   => stage \notin {"failed", "abort"}

\* Whatever was lost of either file, and whatever the header holds of the size,
\* the bytes that decode() has put out are the file's as long as no read of the
\* code came back short; and what a full disk left of them is their beginning.
PutOut == IF stage = "done" \/ lost = "output" THEN outfile ELSE outfile \o outbuf
TrueUntilEof == eof_in \/ IsPrefix(PutOut, input)

\* The decoder's window never leaves its interval: dach_decode subtracts low
\* from esym as unsigned numbers and would look up nonsense.
EsymInInterval == stage \in {"decode", "shift in", "decoder learns", "store"}
                     => low <= esym /\ esym <= high

\* Between symbols the interval is normalised: it holds the middle, and is wider
\* than a quarter, which is the precision left for the next symbol.
WideInterval == stage \in {"encode", "decode"}
                   => low < Half /\ Half <= high /\ range >= Quarter + 2

\* Both programs come to an end, also when the interval has collapsed to a point
\* and normalisation has all WordBits bits to shift.
Terminates == <>(stage \in Final)

\* The pair of programs implements the transfer of a file.
Transfer == INSTANCE FileTransfer
              WITH delivered <- outfile,
                   outcome <- IF lost # "nothing" THEN "damaged"
                              ELSE IF stage = "done" THEN "done"
                              ELSE IF stage \in {"failed", "abort"} THEN "failed"
                              ELSE "running"
ImplementsTransfer == Transfer!TransferSpec

\* The asserts on the interval in dach_decode's loop (dach_ar64.c:304).
IntervalNeverCollapses == stage = "shift in" => high > low
=============================================================================
