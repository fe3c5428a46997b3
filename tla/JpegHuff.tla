------------------------------ MODULE JpegHuff -------------------------------
(***************************************************************************)
(* Huffman coding: the encoder of jchuff.c, which goes through a scan      *)
(* twice, to count symbols and to write them, and the decoder of jdhuff.c, *)
(* whose source may suspend at any byte: the MCU is decoded again later,   *)
(* over what is left of the first attempt. In a progressive scan of AC     *)
(* coefficients several blocks may end by one symbol (EOBRUN), and the     *)
(* encoder holds the bits that refine them back (BE, bit_buffer).          *)
(*                                                                         *)
(* All components share their tables. JpegEntropy has streams that lost    *)
(* data; here they are whole.                                              *)
(***************************************************************************)
EXTENDS JpegPhoto, JpegHuffTables

CONSTANTS MaxEOBRUN,        \* blocks that a symbol ends at most (0x7FFF)
          MAX_CORR_BITS,    \* correction bits that the encoder can hold (1000)
          MIN_GET_BITS,     \* bits that the decoder's buffer is filled to (25)
          Portions          \* how many bytes come when the source ran dry

VARIABLES enc, dec          \* the entropy encoder and decoder

vars == <<photoVars, enc, dec>>

lim_Se == Max(DOMAIN photo.blocks[1][1])

----------------------------------------------------------------------------
(* What the encoder emits: symbols of the two tables, and bits as they are.                  *)

Symbol(table, s) == [table |-> table, symbol |-> s]
Bits(v, n) == [table |-> "none", bits |-> [i \in 1..n |-> Bit(v, n - i)]]
BitsIfAny(v, n) == IF n = 0 THEN <<>> ELSE <<Bits(v, n)>>
Each(bits) == [i \in DOMAIN bits |-> Bits(bits[i], 1)]

ItemBits(e, item) ==
    IF item.table = "none" THEN item.bits ELSE e.codes[item.table][item.symbol]
Missing(e, item) ==
    item.table # "none" /\ item.symbol \notin DOMAIN e.codes[item.table]

\* emit_bits: whole bytes go out, with a zero after 0xFF.
ByteAt(bits, i) == MapThenSumSet(LAMBDA j : bits[8 * i + j] * 2^(8 - j), 1..8)
EmitBits(e, new) ==
    LET bits == e.put_buffer \o new
        whole == Len(bits) \div 8
    IN [e EXCEPT !.put_buffer = SubSeq(bits, 8 * whole + 1, Len(bits)),
                 !.out = @ \o FlattenSeq([i \in 1..whole |->
                             LET c == ByteAt(bits, i - 1) IN IF c = 255 THEN <<255, 0>> ELSE <<c>>])]

Counted(counts, items, table) ==
    LET Uses(s) == Cardinality({i \in DOMAIN items : items[i] = Symbol(table, s)})
        used == {items[i].symbol : i \in {j \in DOMAIN items : items[j].table = table}}
    IN [s \in DOMAIN counts \cup used |-> Uses(s) + IF s \in DOMAIN counts THEN counts[s] ELSE 0]

Emit(e, items) ==
    IF e.gather_statistics
    THEN [e EXCEPT !.counts = [t \in DOMAIN @ |-> Counted(@[t], items, t)]]
    ELSE IF \E i \in DOMAIN items : Missing(e, items[i])
    THEN [e EXCEPT !.failed = TRUE]
    ELSE EmitBits(e, FlattenSeq([i \in DOMAIN items |-> ItemBits(e, items[i])]))

\* emit_eobrun
PendingEOBs(e) ==
    LET nbits == Log(e.EOBRUN)
    IN IF e.EOBRUN = 0 THEN <<>>
       ELSE <<Symbol("ac", 16 * nbits)>> \o BitsIfAny(e.EOBRUN, nbits) \o Each(e.bit_buffer)
EmitEOBRUN(e) ==
    [Emit(e, PendingEOBs(e)) EXCEPT !.EOBRUN = 0, !.bit_buffer = <<>>,
                                    !.failed = @ \/ Log(e.EOBRUN) > Log(MaxEOBRUN)]

\* flush_bits: ones fill the last byte.
Flush(e) == [Emit(e, <<Bits(127, 7)>>) EXCEPT !.put_buffer = <<>>]

\* emit_restart, and the bookkeeping of every encode_mcu.
EmitRestart(e) ==
    LET f == EmitEOBRUN(e)
        g == Flush(f)
    IN IF e.gather_statistics THEN f
       ELSE [g EXCEPT !.out = @ \o <<255, 208 + e.next_restart_num>>]
WithRestart(e) ==
    LET due == e.restarts_to_go = 0
        f == IF due THEN [EmitRestart(e) EXCEPT !.last_dc_val = [ci \in Components |-> 0]] ELSE e
    IN IF photo.interval = 0 THEN e
       ELSE [f EXCEPT !.restarts_to_go = (IF due THEN photo.interval ELSE @) - 1,
                      !.next_restart_num = IF due THEN (@ + 1) % 8 ELSE @]

\* The magnitude category and the bits of a value: one less if it is negative.
Width(v) == IF v = 0 THEN 0 ELSE Log(Abs(v)) + 1
ValueBits(v) == BitsIfAny(IF v < 0 THEN v - 1 ELSE v, Width(v))
DCItems(diff) == <<Symbol("dc", Width(diff))>> \o ValueBits(diff)

\* A coefficient after r zeroes.
ZRLs(n) == [i \in 1..n |-> Symbol("ac", 240)]
ACItems(v, r) == ZRLs(r \div 16) \o <<Symbol("ac", 16 * (r % 16) + Width(v))>> \o ValueBits(v)
BandItems(coefs, ss, se) ==
    FlattenSeq([i \in 1..(se - ss + 1) |->
        LET k == ss + i - 1
            last == Max({ss - 1} \cup {j \in ss..(k - 1) : coefs[j] # 0})
        IN IF coefs[k] = 0 THEN <<>> ELSE ACItems(coefs[k], k - last - 1)])

\* A block ends: there is a symbol for it now or later.
CountEOB(e, correction) ==
    LET f == [e EXCEPT !.EOBRUN = @ + 1, !.bit_buffer = @ \o correction]
    IN IF f.EOBRUN = MaxEOBRUN \/ Len(f.bit_buffer) > MAX_CORR_BITS - (lim_Se + 1) + 1
       THEN EmitEOBRUN(f) ELSE f

----------------------------------------------------------------------------
(* encode_mcu                                                                                *)

\* start_pass_huff
StartEncoder(gather, tables) ==
    [gather_statistics |-> gather, counts |-> [dc |-> <<>>, ac |-> <<>>], tables |-> tables,
     codes |-> IF gather THEN [dc |-> <<>>, ac |-> <<>>]
               ELSE [t \in {"dc", "ac"} |-> CDerived(tables[t])],
     put_buffer |-> <<>>, out |-> <<>>, last_dc_val |-> [ci \in Components |-> 0],
     EOBRUN |-> 0, bit_buffer |-> <<>>, restarts_to_go |-> photo.interval,
     next_restart_num |-> 0, failed |-> FALSE]
NoTable == [bits |-> [l \in 1..MaxLength |-> 0], huffval |-> <<>>]

\* A scan that refines DC values needs no table, and no statistics.
StartScan(p, s) ==
    StartEncoder(~(p.script[s].Ss = 0 /\ p.script[s].Ah > 0), [dc |-> NoTable, ac |-> NoTable])

Encode(e) ==
    /\ stream = <<>> /\ mcu < MCUs /\ ~enc.failed
    /\ enc' = e /\ mcu' = mcu + 1
    /\ UNCHANGED <<photo, scan, stream, decoded, dec>>

DCDifferences(e) == [ci \in Components |-> DCValue(ci) - e.last_dc_val[ci]]
WithDCs(e) == [e EXCEPT !.last_dc_val = [ci \in Components |-> DCValue(ci)]]

encode_mcu_DC_first ==
    /\ DCFirst
    /\ LET e == WithRestart(enc)
           diffs == DCDifferences(e)
       IN Encode(WithDCs(Emit(e, FlattenSeq([ci \in Components |-> DCItems(diffs[ci])]))))

encode_mcu_AC_first ==
    /\ ACFirst
    /\ LET e == WithRestart(enc)
           coefs == Transformed(Block(Scan.component), Al)
           last == Max({Ss - 1} \cup {k \in Ss..Se : coefs[k] # 0})
           f == IF last < Ss THEN e ELSE Emit(EmitEOBRUN(e), BandItems(coefs, Ss, Se))
       IN Encode(IF last < Se THEN CountEOB(f, <<>>) ELSE f)

encode_mcu_DC_refine ==
    /\ DCRefine
    /\ Encode(Emit(WithRestart(enc), [ci \in Components |-> Bits(DCValue(ci), 1)]))

\* The coefficient k of a block that is refined: w has the encoder, the run of zeroes and the
\* correction bits since the last symbol.
RefineCoef(w, coefs, eob, k) ==
    LET zrls == w.r \div 16
        symbols == <<Symbol("ac", 240)>> \o Each(w.BR) \o ZRLs(zrls - 1)
        f == IF zrls > 0 /\ k <= eob
             THEN [e |-> Emit(EmitEOBRUN(w.e), symbols), r |-> w.r % 16, BR |-> <<>>] ELSE w
        new == <<Symbol("ac", 16 * f.r + 1), Bits(IF coefs[k] < 0 THEN 0 ELSE 1, 1)>>
    IN IF coefs[k] = 0 THEN [w EXCEPT !.r = @ + 1]
       ELSE IF Abs(coefs[k]) > 1 THEN [f EXCEPT !.BR = Append(@, Abs(coefs[k]) % 2)]
       ELSE [e |-> Emit(EmitEOBRUN(f.e), new \o Each(f.BR)), r |-> 0, BR |-> <<>>]

encode_mcu_AC_refine ==
    /\ ACRefine
    /\ LET coefs == Transformed(Block(Scan.component), Al)
           eob == Max({0} \cup {k \in Ss..Se : Abs(coefs[k]) = 1})
           w == FoldLeft(LAMBDA v, k : RefineCoef(v, coefs, eob, k),
                         [e |-> WithRestart(enc), r |-> 0, BR |-> <<>>],
                         [i \in 1..(Se - Ss + 1) |-> Ss + i - 1])
       IN Encode(IF w.r > 0 \/ w.BR # <<>> THEN CountEOB(w.e, w.BR) ELSE w.e)

\* encode_one_block and, in the pass for statistics, htest_one_block.
BlockItems(diff, block) ==
    DCItems(diff) \o BandItems(block, 1, lim_Se)
        \o (IF LastNonzero(block, lim_Se) < lim_Se THEN <<Symbol("ac", 0)>> ELSE <<>>)

\* encode_mcu_huff, encode_mcu_gather
encode_mcu_huff ==
    /\ ~Scan.progressive
    /\ LET e == WithRestart(enc)
           diffs == DCDifferences(e)
       IN Encode(WithDCs(Emit(e, FlattenSeq([ci \in Components |-> BlockItems(diffs[ci], Block(ci))]))))

\* The tables of the scan, from the counts.
finish_pass_gather ==
    /\ stream = <<>> /\ mcu = MCUs /\ enc.gather_statistics
    /\ LET e == EmitEOBRUN(enc)
       IN enc' = StartEncoder(FALSE,
                     [t \in {"dc", "ac"} |->
                         IF (t = "dc" /\ Ss = 0 /\ Ah = 0) \/ (t = "ac" /\ Se > 0)
                         THEN GenOptimalTable(e.counts[t]) ELSE NoTable])
    /\ mcu' = 0
    /\ UNCHANGED <<photo, scan, stream, decoded, dec>>

----------------------------------------------------------------------------
(* The decoder's bit buffer. d is the decoder with the working state of an MCU: bits_left,   *)
(* the value s that was read, the block, and whether the source suspended.                   *)

Suspended(d) == [d EXCEPT !.suspended = TRUE]

\* jpeg_fill_bit_buffer
RECURSIVE FillBitBuffer(_, _)
FillBitBuffer(d, nbits) ==
    LET ahead == {j \in d.at..d.available : stream[j] # 255}
        i == Min(ahead)
        Byte(c) == [j \in 1..8 |-> Bit(c, 8 - j)]
        byte == [d EXCEPT !.bits = @ \o Byte(IF i > d.at THEN 255 ELSE stream[i]), !.at = i + 1]
        marker == [d EXCEPT !.unread_marker = stream[i], !.at = i + 1]
    IN IF d.unread_marker # 0
       THEN IF nbits <= Len(d.bits) THEN d
            ELSE [d EXCEPT !.insufficient_data = TRUE,
                           !.bits = [j \in 1..MIN_GET_BITS |-> IF j <= Len(@) THEN @[j] ELSE 0]]
       ELSE IF Len(d.bits) >= MIN_GET_BITS THEN d
       ELSE IF ahead = {} THEN Suspended(d)
       ELSE IF i > d.at /\ stream[i] # 0 THEN FillBitBuffer(marker, nbits)
       ELSE FillBitBuffer(byte, nbits)

Filled(d, n, nbits) == IF Len(d.bits) < n THEN FillBitBuffer(d, nbits) ELSE d
Dropped(d, n) == [d EXCEPT !.bits = SubSeq(@, n + 1, Len(@))]
Peeked(d, n) == MapThenSumSet(LAMBDA i : d.bits[i] * 2^(n - i), 1..n)

\* CHECK_BIT_BUFFER and GET_BITS
Got(d, n) == IF d.suspended THEN d ELSE [Dropped(d, n) EXCEPT !.s = Peeked(d, n)]
GetBits(d, n) == IF d.suspended THEN d ELSE Got(Filled(d, n, n), n)

\* jpeg_huff_decode: bit by bit, a code of l bits having been read.
RECURSIVE SlowDecode(_, _, _, _)
SlowDecode(d, table, l, code) ==
    LET f == GetBits(d, 1)
    IN IF d.suspended THEN d
       ELSE IF code > table.maxcode[l] THEN SlowDecode(f, table, l + 1, 2 * code + f.s)
       ELSE [d EXCEPT !.s = IF l > MaxLength THEN 0 ELSE table.huffval[code + table.valoffset[l] + 1]]

\* HUFF_DECODE: by the table of what lies ahead, or beyond it.
LookedUp(d, entry, table) ==
    IF entry[1] > 0 THEN [Dropped(d, entry[1]) EXCEPT !.s = entry[2]]
    ELSE LET slow == GetBits(d, HUFF_LOOKAHEAD + 1) IN SlowDecode(slow, table, HUFF_LOOKAHEAD + 1, slow.s)
Decoded(d, table) ==
    IF d.suspended THEN d
    ELSE IF Len(d.bits) >= HUFF_LOOKAHEAD
    THEN LookedUp(d, table.look[Peeked(d, HUFF_LOOKAHEAD)], table)
    ELSE LET slow == GetBits(d, 1) IN SlowDecode(slow, table, 1, slow.s)
HuffDecode(d, table) ==
    IF d.suspended THEN d ELSE Decoded(Filled(d, HUFF_LOOKAHEAD, 0), table)

HUFF_EXTEND(x, n) == IF n = 0 THEN 0 ELSE IF x < 2^(n - 1) THEN x - 2^n + 1 ELSE x

\* A symbol and the n bits of a value after it.
Extended(d, n) ==
    IF n = 0 THEN [d EXCEPT !.s = 0]
    ELSE LET f == GetBits(d, n) IN IF f.suspended THEN f ELSE [f EXCEPT !.s = HUFF_EXTEND(@, n)]

----------------------------------------------------------------------------
(* decode_mcu                                                                                *)

\* start_pass_huff_decoder
StartDecoder(tables) ==
    [tables |-> [t \in {"dc", "ac"} |-> DDerived(tables[t])],
     at |-> 1, available |-> 0, bits |-> <<>>, unread_marker |-> 0, insufficient_data |-> FALSE,
     last_dc_val |-> [ci \in Components |-> 0], EOBRUN |-> 0, restarts_to_go |-> photo.interval,
     next_restart_num |-> 0, lost |-> FALSE, suspended |-> FALSE, s |-> 0, block |-> <<>>]

\* process_restart with read_restart_marker. Another marker than is due: see JpegEntropy.
ProcessRestart(d) ==
    LET ahead == {j \in d.at..(d.available - 1) : stream[j] = 255 /\ stream[j + 1] \notin {0, 255}}
        marker == IF d.unread_marker # 0 THEN d.unread_marker ELSE stream[Min(ahead) + 1]
    IN IF d.unread_marker = 0 /\ ahead = {} THEN Suspended([d EXCEPT !.bits = <<>>])
       ELSE [d EXCEPT !.bits = <<>>, !.unread_marker = 0,
                      !.at = IF d.unread_marker # 0 THEN @ ELSE Min(ahead) + 2,
                      !.lost = @ \/ marker # 208 + d.next_restart_num,
                      !.next_restart_num = (@ + 1) % 8,
                      !.last_dc_val = [ci \in Components |-> 0], !.EOBRUN = 0,
                      !.restarts_to_go = photo.interval, !.insufficient_data = FALSE]

Restarted(d) == IF photo.interval > 0 /\ d.restarts_to_go = 0 THEN ProcessRestart(d) ELSE d

\* The MCU takes the decoder from e to d. The source has suspended: what is left are the
\* blocks as they are, and the restart.
DecodeTo(e, d) ==
    /\ stream # <<>> /\ mcu < MCUs /\ ~dec.suspended
    /\ dec' = IF d.suspended THEN Suspended(e)
              ELSE [d EXCEPT !.block = <<>>, !.restarts_to_go = IF photo.interval > 0 THEN @ - 1 ELSE @]
    /\ mcu' = IF d.suspended THEN mcu ELSE mcu + 1
    /\ decoded' = [decoded EXCEPT ![mcu + 1] = d.block]
    /\ UNCHANGED <<photo, scan, stream, enc>>

Decode(DecodeBlocks(_)) ==
    LET e == Restarted(dec)
        d == [e EXCEPT !.block = decoded[mcu + 1]]
    IN DecodeTo(e, IF e.insufficient_data THEN d ELSE DecodeBlocks(d))

EachBlock(d, DecodeBlock(_, _)) ==
    FoldLeft(LAMBDA e, ci : IF e.suspended THEN e ELSE DecodeBlock(e, ci), d, InOrder)
OneBlock(d, ci, DecodeCoefs(_)) ==
    LET f == DecodeCoefs([d EXCEPT !.block = d.block[ci]])
    IN [f EXCEPT !.block = [d.block EXCEPT ![ci] = f.block]]

\* The DC value of a component, with al bits of it to come.
WithDC(d, ci, al) ==
    LET value == d.s + d.last_dc_val[ci]
    IN IF d.suspended THEN d
       ELSE [d EXCEPT !.last_dc_val[ci] = value, !.block[ci][0] = value * 2^al]
DecodeDC(d, ci, al) ==
    LET symbol == HuffDecode(d, d.tables["dc"]) IN WithDC(Extended(symbol, symbol.s), ci, al)

decode_mcu_DC_first == DCFirst /\ Decode(LAMBDA d : EachBlock(d, LAMBDA e, ci : DecodeDC(e, ci, Al)))

\* EOBr: the run, of which this block is the first.
EOBs(d, r) ==
    LET f == IF r = 0 THEN [d EXCEPT !.s = 0] ELSE GetBits(d, r)
    IN IF f.suspended THEN f ELSE [f EXCEPT !.EOBRUN = 2^r + f.s]

RECURSIVE FirstBand(_, _), FirstRun(_, _)
FirstRun(d, k) ==
    LET r == d.s \div 16
        value == Extended(d, d.s % 16)
        run == EOBs(d, r)
    IN IF d.suspended THEN d
       ELSE IF d.s % 16 > 0
       THEN IF value.suspended THEN value
            ELSE FirstBand([value EXCEPT !.block[k + r] = value.s * 2^Al], k + r + 1)
       ELSE IF r = 15 THEN FirstBand(d, k + 16)
       ELSE IF run.suspended THEN run ELSE [run EXCEPT !.EOBRUN = @ - 1]
FirstBand(d, k) ==
    IF d.suspended \/ k > Se THEN d ELSE FirstRun(HuffDecode(d, d.tables["ac"]), k)

decode_mcu_AC_first ==
    /\ ACFirst
    /\ Decode(LAMBDA d : IF d.EOBRUN > 0 THEN [d EXCEPT !.EOBRUN = @ - 1]
                         ELSE OneBlock(d, Scan.component, LAMBDA f : FirstBand(f, Ss)))

RefineDC(d, ci) ==
    LET f == GetBits(d, 1)
    IN IF f.suspended THEN f
       ELSE [f EXCEPT !.block[ci][0] = IF f.s = 1 /\ Bit(@, Al) = 0 THEN @ + 2^Al ELSE @]

decode_mcu_DC_refine == DCRefine /\ Decode(LAMBDA d : EachBlock(d, RefineDC))

\* A correction bit for the coefficient k, which is not zero.
Correct(d, k) ==
    LET f == GetBits(d, 1)
    IN IF f.suspended THEN f ELSE [f EXCEPT !.block[k] = Corrected(@, f.s)]

\* Over the coefficients that are not zero and r that are: k is where it ends.
RECURSIVE Advance(_, _, _)
Advance(d, k, r) ==
    IF d.suspended \/ k > Se THEN [d EXCEPT !.k = k]
    ELSE IF d.block[k] # 0 THEN Advance(Correct(d, k), k + 1, r)
    ELSE IF r = 0 THEN [d EXCEPT !.k = k]
    ELSE Advance(d, k + 1, r - 1)

\* A symbol is a run of zeroes, with a new coefficient at its end unless there are 16, or the
\* end of the block and of a run of blocks.
RECURSIVE RefineBand(_, _), RefineRun(_, _)
RefineRun(d, k) ==
    LET r == d.s \div 16
        new == d.s % 16 # 0
        sign == IF new THEN GetBits(d, 1) ELSE d
        place == Advance(sign, k, r)
        run == EOBs(d, r)
    IN IF d.suspended THEN d
       ELSE IF ~new /\ r < 15
       THEN IF run.suspended THEN run ELSE [Advance(run, k, Se + 1) EXCEPT !.EOBRUN = @ - 1]
       ELSE IF place.suspended THEN place
       ELSE RefineBand(IF new
                       THEN [place EXCEPT !.block[place.k] = IF sign.s = 1 THEN 2^Al ELSE -(2^Al),
                                          !.newnz = @ \cup {place.k}]
                       ELSE place, place.k + 1)
RefineBand(d, k) ==
    IF d.suspended \/ k > Se THEN d ELSE RefineRun(HuffDecode(d, d.tables["ac"]), k)

\* undoit: the coefficients that are new are zeroes again; the corrected ones stay corrected.
FaultUndone(d) == d   \* seeded bug: the new coefficients stay
Undone(d) == [d EXCEPT !.block = [k \in DOMAIN @ |-> IF k \in d.newnz THEN 0 ELSE @[k]]]

\* newnz and k are for one block.
RefineBlock(d) ==
    LET f == [newnz |-> {}, k |-> Ss] @@ d
        g == IF d.EOBRUN > 0 THEN [Advance(f, Ss, Se + 1) EXCEPT !.EOBRUN = @ - 1]
             ELSE RefineBand(f, Ss)
    IN Restrict(IF g.suspended THEN Undone(g) ELSE g, DOMAIN d)

decode_mcu_AC_refine == ACRefine /\ Decode(LAMBDA d : OneBlock(d, Scan.component, RefineBlock))

\* The values from coef_limit on are not needed, and thrown away.
RECURSIVE Band(_, _), Run(_, _)
Run(d, k) ==
    LET r == d.s \div 16
        value == Extended(d, d.s % 16)
    IN IF d.suspended THEN d
       ELSE IF d.s % 16 > 0
       THEN IF value.suspended THEN value
            ELSE Band(IF k < photo.coef_limit THEN [value EXCEPT !.block[k + r] = value.s] ELSE value,
                      k + r + 1)
       ELSE IF r = 15 THEN Band(d, k + 16)
       ELSE d
Band(d, k) == IF d.suspended \/ k > lim_Se THEN d ELSE Run(HuffDecode(d, d.tables["ac"]), k)

\* The DC value may not be needed either.
DecodeRest(d, f, ci) ==
    LET g == IF photo.coef_limit = 0
             THEN [f EXCEPT !.block = d.block, !.last_dc_val = d.last_dc_val] ELSE f
    IN IF f.suspended THEN f ELSE OneBlock(g, ci, LAMBDA h : Band(h, 1))
DecodeBlock(d, ci) == DecodeRest(d, DecodeDC(d, ci, 0), ci)

\* decode_mcu_sub, and decode_mcu for blocks of 64 coefficients.
decode_mcu == ~Scan.progressive /\ Decode(LAMBDA d : EachBlock(d, DecodeBlock))

\* Some more of the scan, when the decoder waits for it.
FillInput ==
    /\ stream # <<>> /\ dec.suspended
    /\ \E n \in Portions :
          dec' = [dec EXCEPT !.suspended = FALSE, !.available = Min({@ + n, Len(stream)})]
    /\ UNCHANGED <<photoVars, enc>>

----------------------------------------------------------------------------
\* finish_pass_huff, and the marker after the scan. The decoder starts with it.
finish_pass_huff ==
    /\ stream = <<>> /\ mcu = MCUs /\ ~enc.gather_statistics /\ ~enc.failed
    /\ stream' = Flush(EmitEOBRUN(enc)).out \o <<255, 217>>
    /\ mcu' = 0
    /\ dec' = StartDecoder(enc.tables)
    /\ UNCHANGED <<photo, scan, decoded, enc>>

start_pass ==
    /\ stream # <<>> /\ mcu = MCUs /\ scan < Len(photo.script)
    /\ scan' = scan + 1 /\ mcu' = 0 /\ stream' = <<>>
    /\ enc' = StartScan(photo, scan + 1)
    /\ UNCHANGED <<photo, decoded, dec>>

Init ==
    /\ PhotoInit
    /\ enc = StartScan(photo, 1)
    /\ dec = StartDecoder([dc |-> NoTable, ac |-> NoTable])

Next ==
    \/ encode_mcu_DC_first \/ encode_mcu_AC_first \/ encode_mcu_DC_refine \/ encode_mcu_AC_refine
    \/ encode_mcu_huff \/ finish_pass_gather \/ finish_pass_huff
    \/ decode_mcu_DC_first \/ decode_mcu_AC_first \/ decode_mcu_DC_refine \/ decode_mcu_AC_refine
    \/ decode_mcu \/ FillInput \/ start_pass

Spec == Init /\ [][Next]_vars

(***************************************************************************)
(* However often the source suspends, the decoder gets the coefficients    *)
(* that were encoded, to the bits of the scans that it has: the MCU that   *)
(* it is at may have some of the new bits already. It never runs out of    *)
(* data and meets the restart markers that are due.                        *)
(***************************************************************************)
RoundTrip ==
    /\ ~enc.failed /\ ~dec.insufficient_data /\ ~dec.lost
    /\ \A m \in (1..MCUs) \ (IF stream = <<>> THEN {} ELSE {mcu + 1}), ci \in Components :
          \A k \in DOMAIN decoded[m][ci] :
             k < photo.coef_limit \/ decoded[m][ci][k] # 0 => decoded[m][ci][k] = Known(m, ci, k)

\* The tables that are made are legal, and have a code for all that was counted, of no more
\* than MaxLength bits.
TablesLegal ==
    \A t \in {"dc", "ac"} :
        /\ LegalTable(enc.tables[t])
        /\ MapThenSumSet(LAMBDA l : enc.tables[t].bits[l], 1..MaxLength) = Len(enc.tables[t].huffval)

\* The encoder has room for the correction bits of any block.
RoomForCorrections == Len(enc.bit_buffer) + lim_Se <= MAX_CORR_BITS

HuffmanExact == RoundTrip /\ TablesLegal /\ RoomForCorrections
=============================================================================
