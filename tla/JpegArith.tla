------------------------------ MODULE JpegArith ------------------------------
(***************************************************************************)
(* Arithmetic coding: the encoder of jcarith.c and the decoder of          *)
(* jdarith.c. All components share their statistics tables, and the photo  *)
(* has their conditioning (L, U, K).                                       *)
(***************************************************************************)
EXTENDS JpegPhoto

VARIABLES enc, dec          \* the entropy encoder and decoder

vars == <<photoVars, enc, dec>>

(***************************************************************************)
(* jaricom.c: Qe, the next index after the less probable symbol and after  *)
(* the more probable one, and whether the former changes which it is. The  *)
(* last one is for decisions of equal probability.                         *)
(***************************************************************************)
jpeg_aritab == <<
    <<23069,1,1,1>>, <<9606,14,2,0>>, <<4372,16,3,0>>, <<2059,18,4,0>>, <<984,20,5,0>>,
    <<474,23,6,0>>, <<229,25,7,0>>, <<111,28,8,0>>, <<54,30,9,0>>, <<26,33,10,0>>, <<13,35,11,0>>,
    <<6,9,12,0>>, <<3,10,13,0>>, <<1,12,13,0>>, <<23167,15,15,1>>, <<16165,36,16,0>>,
    <<11506,38,17,0>>, <<8316,39,18,0>>, <<6073,40,19,0>>, <<4482,42,20,0>>, <<3311,43,21,0>>,
    <<2465,45,22,0>>, <<1839,46,23,0>>, <<1372,48,24,0>>, <<1030,49,25,0>>, <<771,51,26,0>>,
    <<576,52,27,0>>, <<433,54,28,0>>, <<324,56,29,0>>, <<245,57,30,0>>, <<183,59,31,0>>,
    <<138,60,32,0>>, <<104,62,33,0>>, <<78,63,34,0>>, <<59,32,35,0>>, <<44,33,9,0>>,
    <<23265,37,37,1>>, <<18508,64,38,0>>, <<14861,65,39,0>>, <<12017,67,40,0>>, <<9759,68,41,0>>,
    <<7987,69,42,0>>, <<6568,70,43,0>>, <<5400,72,44,0>>, <<4471,73,45,0>>, <<3700,74,46,0>>,
    <<3067,75,47,0>>, <<2552,77,48,0>>, <<2145,78,49,0>>, <<1798,79,50,0>>, <<1485,48,51,0>>,
    <<1246,50,52,0>>, <<1039,50,53,0>>, <<867,51,54,0>>, <<724,52,55,0>>, <<604,53,56,0>>,
    <<504,54,57,0>>, <<420,55,58,0>>, <<352,56,59,0>>, <<293,57,60,0>>, <<246,58,61,0>>,
    <<203,59,62,0>>, <<171,61,63,0>>, <<143,61,32,0>>, <<23314,65,65,1>>, <<19716,80,66,0>>,
    <<16684,81,67,0>>, <<14296,82,68,0>>, <<12264,83,69,0>>, <<10556,84,70,0>>, <<9081,86,71,0>>,
    <<7903,87,72,0>>, <<6825,87,73,0>>, <<5966,72,74,0>>, <<5156,72,75,0>>, <<4508,74,76,0>>,
    <<3947,74,77,0>>, <<3409,75,78,0>>, <<2998,77,79,0>>, <<2624,77,48,0>>, <<22578,80,81,1>>,
    <<19740,88,82,0>>, <<17294,89,83,0>>, <<15325,90,84,0>>, <<13550,91,85,0>>, <<11950,92,86,0>>,
    <<10650,93,87,0>>, <<9494,86,71,0>>, <<21872,88,89,1>>, <<19625,95,90,0>>, <<17625,96,91,0>>,
    <<15906,97,92,0>>, <<14372,99,93,0>>, <<12980,99,94,0>>, <<11799,93,86,0>>, <<22184,95,96,1>>,
    <<20294,101,97,0>>, <<18405,102,98,0>>, <<16847,103,99,0>>, <<15421,104,100,0>>,
    <<14174,99,93,0>>, <<21041,105,102,0>>, <<19471,106,103,0>>, <<17977,107,104,0>>,
    <<16734,103,99,0>>, <<22055,105,106,1>>, <<20711,108,107,0>>, <<19333,109,103,0>>,
    <<21911,110,109,0>>, <<20559,111,107,0>>, <<23056,110,111,1>>, <<21794,112,109,0>>,
    <<23019,112,111,1>>, <<23069,113,113,0>> >>

\* Statistics bins: of DC decisions, of AC decisions, and the fixed one. A bin is the index and
\* the more probable symbol; a new one is <<0, 0>>.
DC(b) == <<"DC", b>>
AC(b) == <<"AC", b>>
fixed_bin == <<"fixed", 0>>
BinOf(stats, b) ==
    IF b \in DOMAIN stats THEN stats[b] ELSE IF b = fixed_bin THEN <<113, 0>> ELSE <<0, 0>>
Entry(bin) == jpeg_aritab[bin[1] + 1]
Qe(bin) == Entry(bin)[1]
AfterLPS(bin) == <<Entry(bin)[2], IF Entry(bin)[4] = 1 THEN 1 - bin[2] ELSE bin[2]>>
AfterMPS(bin) == <<Entry(bin)[3], bin[2]>>

----------------------------------------------------------------------------
(* arith_encode: e has the registers c, a, sc, zc, ct and buffer, and the bytes that are out. *)

Zeros(n) == [i \in 1..n |-> 0]
Stuffed(byte) == IF byte = 255 THEN <<255, 0>> ELSE <<byte>>
StuffedFFs(n) == [i \in 1..(2 * n) |-> IF i % 2 = 1 THEN 255 ELSE 0]

\* Overflow goes into the buffered byte; the stacked 0xFF bytes become zeroes.
FaultCarryOver(e) ==   \* seeded bug: the stacked bytes are lost
    LET f == IF e.buffer >= 0
             THEN [e EXCEPT !.out = @ \o Zeros(e.zc) \o Stuffed(e.buffer + 1), !.zc = 0] ELSE e
    IN [f EXCEPT !.sc = 0]
CarryOver(e) ==
    LET f == IF e.buffer >= 0
             THEN [e EXCEPT !.out = @ \o Zeros(e.zc) \o Stuffed(e.buffer + 1), !.zc = 0] ELSE e
    IN [f EXCEPT !.zc = @ + e.sc, !.sc = 0]

\* Nothing can overflow into the buffered and stacked bytes any more. Zeroes are held back.
PutOut(e) ==
    LET f == IF e.buffer = 0 THEN [e EXCEPT !.zc = @ + 1]
             ELSE IF e.buffer > 0
             THEN [e EXCEPT !.out = Append(@ \o Zeros(e.zc), e.buffer), !.zc = 0] ELSE e
    IN IF f.sc > 0
       THEN [f EXCEPT !.out = @ \o Zeros(f.zc) \o StuffedFFs(f.sc), !.zc = 0, !.sc = 0] ELSE f

ByteReady(e) ==
    LET temp == e.c \div 2^19
        f == IF temp > 255 THEN [CarryOver(e) EXCEPT !.buffer = temp % 256]
             ELSE IF temp = 255 THEN [e EXCEPT !.sc = @ + 1]
             ELSE [PutOut(e) EXCEPT !.buffer = temp]
    IN [f EXCEPT !.c = @ % 2^19, !.ct = 8]

RECURSIVE RenormalizeE(_)
RenormalizeE(e) ==
    LET s == [e EXCEPT !.a = @ * 2, !.c = @ * 2, !.ct = @ - 1]
        f == IF s.ct = 0 THEN ByteReady(s) ELSE s
    IN IF f.a < 32768 THEN RenormalizeE(f) ELSE f

ArithEncode(e, b, val) ==
    LET bin == BinOf(e.stats, b)
        qe == Qe(bin)
        mps == val = bin[2]
        a == e.a - qe
        \* the smaller part of the interval is above, whichever symbol it is for
        f == IF mps = (a < qe) THEN [e EXCEPT !.c = @ + a, !.a = qe] ELSE [e EXCEPT !.a = a]
        next == IF mps THEN AfterMPS(bin) ELSE AfterLPS(bin)
    IN IF mps /\ a >= 32768 THEN [e EXCEPT !.a = a]
       ELSE RenormalizeE([f EXCEPT !.stats = (b :> next) @@ @])

\* finish_pass: the value in the interval with the most trailing zeroes is sent.
Finish(e) ==
    LET temp == ((e.a - 1 + e.c) \div 65536) * 65536
        c == (IF temp < e.c THEN temp + 32768 ELSE temp) * 2^e.ct
        f == IF c >= 2^27 THEN CarryOver(e) ELSE PutOut(e)
        low == c % 2^27
        first == low \div 2^19
        second == (low \div 2^11) % 256
    IN IF low < 2^11 THEN f
       ELSE [f EXCEPT !.out = @ \o Zeros(f.zc) \o Stuffed(first)
                                \o (IF second = 0 THEN <<>> ELSE Stuffed(second)), !.zc = 0]

----------------------------------------------------------------------------
(* The decisions that an MCU is coded with: pairs of a bin and a bit.                         *)

\* The magnitude category in unary, and the bits after the leading one.
Unary(bins(_), n) == [i \in 1..(n + 1) |-> <<bins(i - 1), IF i <= n THEN 1 ELSE 0>>]
Pattern(bin, v) == [i \in 1..Log(v) |-> <<bin, Bit(v, Log(v) - i)>>]

\* F.1.4.4.1.2: the category of the difference, for the bins of the next one. m is 2^Log or 0.
Context(m, negative) ==
    LET C == photo.conditioning
    IN IF m < 2^C.L \div 2 THEN 0
       ELSE (IF m > 2^C.U \div 2 THEN 12 ELSE 4) + (IF negative THEN 4 ELSE 0)
ContextAfter(diff) ==
    IF diff = 0 THEN 0
    ELSE LET v == Abs(diff) - 1 IN Context(IF v = 0 THEN 0 ELSE 2^Log(v), diff < 0)

DCDecisions(context, diff) ==
    LET sign == IF diff < 0 THEN 1 ELSE 0
        v == Abs(diff) - 1
        st == DC(context + 2 + sign)
    IN IF diff = 0 THEN << <<DC(context), 0>> >>
       ELSE << <<DC(context), 1>>, <<DC(context + 1), sign>> >>
            \o (IF v = 0 THEN << <<st, 0>> >>
                ELSE << <<st, 1>> >> \o Unary(LAMBDA i : DC(20 + i), Log(v))
                     \o Pattern(DC(20 + Log(v) + 14), v))

\* The bins of magnitudes, X2 on.
Magnitude(k) == IF k <= photo.conditioning.K THEN 189 ELSE 217

ACMagnitude(k, v) ==
    LET st == AC(3 * (k - 1) + 2)
        last == Magnitude(k) + Log(v) - 1
    IN IF v = 0 THEN << <<st, 0>> >>
       ELSE IF v = 1 THEN << <<st, 1>>, <<st, 0>> >>
       ELSE << <<st, 1>>, <<st, 1>> >> \o Unary(LAMBDA i : AC(Magnitude(k) + i), Log(v) - 1)
            \o Pattern(AC(last + 14), v)

\* The coefficients ss..se: an end-of-block decision before each run of zeroes and the
\* coefficient after it, and at the end.
ACDecisions(coefs, ss, se, EOBDecision(_), Coefficient(_)) ==
    LET ke == LastNonzero(coefs, se)
        At(k) ==
            (IF (k = ss \/ coefs[k - 1] # 0) /\ EOBDecision(k) THEN << <<AC(3 * (k - 1)), 0>> >> ELSE <<>>)
            \o (IF coefs[k] = 0 THEN << <<AC(3 * (k - 1) + 1), 0>> >> ELSE Coefficient(k))
        end == IF ke < ss THEN ss ELSE ke + 1
    IN FlattenSeq([i \in 1..(end - ss) |-> At(ss + i - 1)])
       \o (IF end <= se THEN << <<AC(3 * (end - 1)), 1>> >> ELSE <<>>)

NewCoefficient(coefs, k) ==
    << <<AC(3 * (k - 1) + 1), 1>>, <<fixed_bin, IF coefs[k] < 0 THEN 1 ELSE 0>> >>

FirstACDecisions(coefs, ss, se) ==
    ACDecisions(coefs, ss, se, LAMBDA k : TRUE,
                LAMBDA k : NewCoefficient(coefs, k) \o ACMagnitude(k, Abs(coefs[k]) - 1))

RefinedACDecisions(block) ==
    LET coefs == Transformed(block, Al)
        kex == LastNonzero(Transformed(block, Ah), Se)
    IN ACDecisions(coefs, Ss, Se, LAMBDA k : k > kex,
                   LAMBDA k : IF Abs(coefs[k]) > 1
                              THEN << <<AC(3 * (k - 1) + 2), Abs(coefs[k]) % 2>> >>
                              ELSE NewCoefficient(coefs, k))

----------------------------------------------------------------------------
(* The encoder's scans. The decisions of an MCU that are not coded yet are in todo.           *)

ResetEncoder(out, restarts_to_go, next) ==
    [c |-> 0, a |-> 65536, sc |-> 0, zc |-> 0, ct |-> 11, buffer |-> -1, stats |-> <<>>, out |-> out,
     last_dc_val |-> [i \in Components |-> 0], dc_context |-> [i \in Components |-> 0],
     restarts_to_go |-> restarts_to_go, next_restart_num |-> next, todo |-> <<>>]

\* emit_restart
WithRestart(e) ==
    IF photo.interval = 0 THEN e
    ELSE LET f == IF e.restarts_to_go > 0 THEN e
                  ELSE ResetEncoder(Finish(e).out \o <<255, 208 + e.next_restart_num>>,
                                    photo.interval, (e.next_restart_num + 1) % 8)
         IN [f EXCEPT !.restarts_to_go = @ - 1]

arith_encode ==
    /\ stream = <<>> /\ enc.todo # <<>>
    /\ LET d == Head(enc.todo) IN enc' = ArithEncode([enc EXCEPT !.todo = Tail(@)], d[1], d[2])
    /\ UNCHANGED <<photo, scan, mcu, dec, stream, decoded>>

Encode(e, decisions) ==
    /\ stream = <<>> /\ mcu < MCUs /\ enc.todo = <<>>
    /\ enc' = [e EXCEPT !.todo = decisions] /\ mcu' = mcu + 1
    /\ UNCHANGED <<photo, scan, dec, stream, decoded>>

DCDifference(e, ci) == DCValue(ci) - e.last_dc_val[ci]
DCDecisionsOf(e, ci) == DCDecisions(e.dc_context[ci], DCDifference(e, ci))
WithDCs(e) ==
    [e EXCEPT !.last_dc_val = [ci \in Components |-> DCValue(ci)],
              !.dc_context = [ci \in Components |-> ContextAfter(DCDifference(e, ci))]]

encode_mcu_DC_first ==
    /\ DCFirst
    /\ LET e == WithRestart(enc)
       IN Encode(WithDCs(e), FlattenSeq([ci \in Components |-> DCDecisionsOf(e, ci)]))

encode_mcu_AC_first ==
    /\ ACFirst
    /\ Encode(WithRestart(enc), FirstACDecisions(Transformed(Block(Scan.component), Al), Ss, Se))

encode_mcu_DC_refine ==
    /\ DCRefine
    /\ Encode(WithRestart(enc), [ci \in Components |-> <<fixed_bin, Bit(Block(ci)[0], Al)>>])

encode_mcu_AC_refine ==
    /\ ACRefine
    /\ Encode(WithRestart(enc), RefinedACDecisions(Block(Scan.component)))

encode_mcu ==
    /\ ~Scan.progressive
    /\ LET e == WithRestart(enc)
       IN Encode(WithDCs(e), FlattenSeq([ci \in Components |->
                                 DCDecisionsOf(e, ci) \o FirstACDecisions(Block(ci), 1, Se)]))

----------------------------------------------------------------------------
(* arith_decode: d has the registers c, a and ct, the place in the stream and the bit found.  *)

\* get_byte, and what is made of 0xFF: after a marker there are zeroes.
NextData(d) ==
    IF d.unread_marker # 0 THEN [d EXCEPT !.data = 0]
    ELSE IF stream[d.at] # 255 THEN [d EXCEPT !.data = stream[d.at], !.at = @ + 1]
    ELSE LET i == Min({j \in d.at..Len(stream) : stream[j] # 255})
         IN IF stream[i] = 0 THEN [d EXCEPT !.data = 255, !.at = i + 1]
            ELSE [d EXCEPT !.data = 0, !.at = i + 1, !.unread_marker = stream[i]]

\* The byte goes into c; at first two of them are needed.
Fetched(d) ==
    LET ct == d.ct + 8
        f == [d EXCEPT !.c = @ * 256 + d.data, !.ct = ct]
    IN IF ct >= 0 THEN f
       ELSE [f EXCEPT !.ct = ct + 1, !.a = IF ct + 1 = 0 THEN 32768 ELSE @]
Supplied(d) == IF d.ct < 0 THEN Fetched(NextData(d)) ELSE d

RECURSIVE RenormalizeD(_)
RenormalizeD(d) ==
    IF d.a >= 32768 THEN d
    ELSE RenormalizeD([Supplied([d EXCEPT !.ct = @ - 1]) EXCEPT !.a = @ * 2])

\* a is what qe leaves of the interval.
Decision(d, b, bin, qe, a) ==
    LET above == d.c >= a * 2^d.ct
        lps == above = (a >= qe)
        \* the more probable symbol, and nothing to renormalize
        quick == ~above /\ a >= 32768
        f == IF above THEN [d EXCEPT !.c = @ - a * 2^d.ct, !.a = qe] ELSE [d EXCEPT !.a = a]
    IN IF quick THEN [d EXCEPT !.a = a, !.bit = bin[2]]
       ELSE [f EXCEPT !.bit = IF lps THEN 1 - bin[2] ELSE bin[2],
                      !.stats = (b :> (IF lps THEN AfterLPS(bin) ELSE AfterMPS(bin))) @@ @]

InBin(d, b, bin) == Decision(d, b, bin, Qe(bin), d.a - Qe(bin))
ArithDecode(d, b) == InBin(RenormalizeD(d), b, BinOf(d.stats, b))

Failed(d) == d.ct = -1
Fail(d) == [d EXCEPT !.ct = -1]

\* The category in unary, from the bin b on, and the bits after the leading one.
RECURSIVE DecodeUnary(_, _, _, _)
DecodeUnary(d, Bin(_), b, m) ==
    LET r == ArithDecode(d, Bin(b))
    IN IF r.bit = 0 THEN [r EXCEPT !.m = m, !.b = b]
       ELSE IF m * 2 = 32768 THEN Fail(r)
       ELSE DecodeUnary(r, Bin, b + 1, m * 2)

RECURSIVE DecodePattern(_, _, _, _)
DecodePattern(d, bin, m, v) ==
    IF m <= 1 THEN [d EXCEPT !.v = v]
    ELSE LET r == ArithDecode(d, bin)
         IN DecodePattern(r, bin, m \div 2, IF r.bit = 1 THEN v + m \div 2 ELSE v)

\* The bits after the leading one of m, whose bin belongs to the last of the category.
DecodeBits(d, Bin(_)) ==
    IF Failed(d) THEN d ELSE DecodePattern(d, Bin(d.b + 14), d.m, d.m)

Negated(v, sign) == IF sign = 1 THEN -v ELSE v

\* A difference that is not zero: the decoder has its sign; then whether it is more than one;
\* then its magnitude.
WithDC(d, ci, sign) ==
    IF Failed(d) THEN d
    ELSE [d EXCEPT !.dc_context[ci] = Context(d.m, sign = 1),
                   !.last_dc_val[ci] = @ + Negated(d.v + 1, sign)]
DCMagnitude(d) ==
    IF d.bit = 0 THEN [d EXCEPT !.m = 0, !.v = 0]
    ELSE DecodeBits(DecodeUnary(d, DC, 20, 1), DC)
Difference(d, ci) ==
    WithDC(DCMagnitude(ArithDecode(d, DC(d.dc_context[ci] + 2 + d.bit))), ci, d.bit)

DecodeDC(d, ci) ==
    LET zero == ArithDecode(d, DC(d.dc_context[ci]))
    IN IF zero.bit = 0 THEN [zero EXCEPT !.dc_context[ci] = 0]
       ELSE Difference(ArithDecode(zero, DC(d.dc_context[ci] + 1)), ci)

\* The coefficient k that is not zero, likewise.
WithAC(d, k, sign) ==
    IF Failed(d) THEN d ELSE [d EXCEPT !.block[k] = Negated(d.v + 1, sign) * 2^Al]
MagnitudeRead(d, k) ==
    LET more == ArithDecode(d, AC(3 * (k - 1) + 2))
    IN IF d.bit = 0 THEN [d EXCEPT !.v = 0]
       ELSE IF more.bit = 0 THEN [more EXCEPT !.v = 1]
       ELSE DecodeBits(DecodeUnary(more, AC, Magnitude(k), 2), AC)
DecodeValue(d, k) ==
    WithAC(MagnitudeRead(ArithDecode(d, AC(3 * (k - 1) + 2)), k), k, d.bit)

\* The coefficients from k on; new is whether an end-of-block decision comes before k.
RECURSIVE DecodeAC(_, _, _)
DecodeAC(d, k, new) ==
    LET eob == IF new THEN ArithDecode(d, AC(3 * (k - 1))) ELSE [d EXCEPT !.bit = 0]
        r == ArithDecode(eob, AC(3 * (k - 1) + 1))
        value == DecodeValue(ArithDecode(r, fixed_bin), k)
    IN IF Failed(d) THEN d
       ELSE IF k > Se THEN IF new THEN d ELSE Fail(d)
       ELSE IF eob.bit = 1 THEN eob
       ELSE IF r.bit = 0 THEN DecodeAC(r, k + 1, FALSE)
       ELSE DecodeAC(value, k + 1, TRUE)

RECURSIVE RefineAC(_, _, _, _)
RefineAC(d, k, kex, new) ==
    LET eob == IF new /\ k > kex THEN ArithDecode(d, AC(3 * (k - 1))) ELSE [d EXCEPT !.bit = 0]
        old == ArithDecode(eob, AC(3 * (k - 1) + 2))
        r == ArithDecode(eob, AC(3 * (k - 1) + 1))
        sign == ArithDecode(r, fixed_bin)
    IN IF k > Se THEN IF new THEN d ELSE Fail(d)
       ELSE IF eob.bit = 1 THEN eob
       ELSE IF d.block[k] # 0
       THEN RefineAC([old EXCEPT !.block[k] = @ + old.bit * (IF d.block[k] < 0 THEN -(2^Al) ELSE 2^Al)],
                     k + 1, kex, TRUE)
       ELSE IF r.bit = 0 THEN RefineAC(r, k + 1, kex, FALSE)
       ELSE RefineAC([sign EXCEPT !.block[k] = Negated(2^Al, sign.bit)], k + 1, kex, TRUE)

----------------------------------------------------------------------------
(* The decoder's scans *)

\* start_pass, and process_restart when the marker has been read.
ResetDecoder(at, unread_marker, next) ==
    [c |-> 0, a |-> 0, ct |-> -16, stats |-> <<>>, at |-> at, unread_marker |-> unread_marker,
     last_dc_val |-> [i \in Components |-> 0], dc_context |-> [i \in Components |-> 0],
     restarts_to_go |-> photo.interval, next_restart_num |-> next, lost |-> FALSE,
     data |-> 0, bit |-> 0, m |-> 0, b |-> 0, v |-> 0, block |-> <<>>]

\* read_restart_marker: the marker that was met already, or the next one. Another one than is
\* due calls for jpeg_resync_to_restart, which JpegEntropy has.
RestartRead(d) ==
    LET i == Min({j \in d.at..(Len(stream) - 1) : stream[j] = 255 /\ stream[j + 1] # 0})
        marker == IF d.unread_marker # 0 THEN d.unread_marker ELSE stream[i + 1]
        at == IF d.unread_marker # 0 THEN d.at ELSE i + 2
    IN IF marker = 208 + d.next_restart_num
       THEN ResetDecoder(at, 0, (d.next_restart_num + 1) % 8)
       ELSE [ResetDecoder(at, marker, d.next_restart_num) EXCEPT !.lost = TRUE]

WithRestartRead(d) ==
    IF photo.interval = 0 THEN d
    ELSE LET f == IF d.restarts_to_go = 0 THEN RestartRead(d) ELSE d
         IN [f EXCEPT !.restarts_to_go = @ - 1]

Decoding == stream # <<>> /\ mcu < MCUs

DecodeTo(d) ==
    /\ Decoding
    /\ decoded' = [decoded EXCEPT ![mcu + 1] = d.block]
    /\ dec' = [d EXCEPT !.block = <<>>] /\ mcu' = mcu + 1
    /\ UNCHANGED <<photo, scan, enc, stream>>

\* With the blocks that are known of the MCU; after an error they stay as they are.
Decode(DecodeBlocks(_)) ==
    LET d == [WithRestartRead(dec) EXCEPT !.block = decoded[mcu + 1]]
    IN DecodeTo(IF Failed(d) THEN d ELSE DecodeBlocks(d))

\* One block after the other: of all components, or of the scan's.
EachBlock(d, DecodeBlock(_, _)) ==
    FoldLeft(LAMBDA e, ci : IF Failed(e) THEN e ELSE DecodeBlock(e, ci), d, InOrder)
OneBlock(d, DecodeCoefs(_)) ==
    LET f == DecodeCoefs([d EXCEPT !.block = d.block[Scan.component]])
    IN [f EXCEPT !.block = [d.block EXCEPT ![Scan.component] = f.block]]

WithDCValue(d, ci) ==
    IF Failed(d) THEN d ELSE [d EXCEPT !.block[ci][0] = d.last_dc_val[ci] * 2^Al]
DecodeDCOf(d, ci) == WithDCValue(DecodeDC(d, ci), ci)

decode_mcu_DC_first ==
    /\ DCFirst
    /\ Decode(LAMBDA d : EachBlock(d, DecodeDCOf))

decode_mcu_AC_first ==
    /\ ACFirst
    /\ Decode(LAMBDA d : OneBlock(d, LAMBDA f : DecodeAC(f, Ss, TRUE)))

\* The next bit of the two's complement value.
decode_mcu_DC_refine ==
    /\ DCRefine
    /\ Decode(LAMBDA d : EachBlock(d, LAMBDA e, ci :
           LET f == ArithDecode(e, fixed_bin)
           IN [f EXCEPT !.block[ci][0] = IF Bit(@, Al) = 0 THEN @ + f.bit * 2^Al ELSE @]))

decode_mcu_AC_refine ==
    /\ ACRefine
    /\ Decode(LAMBDA d : OneBlock(d, LAMBDA f : RefineAC(f, Ss, LastNonzero(f.block, Se), TRUE)))

\* The rest of a block that has its DC value.
DecodeRest(d, ci) ==
    LET f == DecodeAC([d EXCEPT !.block = d.block[ci]], 1, TRUE)
    IN IF Failed(d) THEN d ELSE [f EXCEPT !.block = [d.block EXCEPT ![ci] = f.block]]

decode_mcu ==
    /\ ~Scan.progressive
    /\ Decode(LAMBDA d : EachBlock(d, LAMBDA e, ci : DecodeRest(DecodeDCOf(e, ci), ci)))

\* finish_pass, and the marker after the scan. The decoder starts with it.
finish_pass ==
    /\ stream = <<>> /\ mcu = MCUs /\ enc.todo = <<>>
    /\ stream' = Finish(enc).out \o <<255, 217>>
    /\ mcu' = 0
    /\ dec' = ResetDecoder(1, 0, 0)
    /\ UNCHANGED <<photo, scan, enc, decoded>>

start_pass ==
    /\ stream # <<>> /\ mcu = MCUs /\ scan < Len(photo.script)
    /\ scan' = scan + 1 /\ mcu' = 0 /\ stream' = <<>>
    /\ enc' = ResetEncoder(<<>>, photo.interval, 0)
    /\ UNCHANGED <<photo, dec, decoded>>

Init ==
    /\ PhotoInit
    /\ enc = ResetEncoder(<<>>, photo.interval, 0)
    /\ dec = ResetDecoder(1, 0, 0)

Next ==
    \/ encode_mcu_DC_first \/ encode_mcu_AC_first \/ encode_mcu_DC_refine \/ encode_mcu_AC_refine
    \/ encode_mcu \/ arith_encode \/ finish_pass
    \/ decode_mcu_DC_first \/ decode_mcu_AC_first \/ decode_mcu_DC_refine \/ decode_mcu_AC_refine
    \/ decode_mcu \/ start_pass

Spec == Init /\ [][Next]_vars

(***************************************************************************)
(* What the decoder has of a coefficient is what was encoded, to the bits  *)
(* of the scans that it has decoded, MCU by MCU; it finds the restart      *)
(* markers that are due, and no error.                                     *)
(***************************************************************************)
RoundTrip ==
    /\ ~Failed(dec) /\ ~dec.lost
    /\ \A m \in 1..MCUs, ci \in Components :
          \A k \in DOMAIN decoded[m][ci] : decoded[m][ci][k] = Known(m, ci, k)

(***************************************************************************)
(* What the comment of arith_encode promises: no trailing zero bytes in    *)
(* the data before a marker, except for a stuffed one. And no byte in the  *)
(* buffer that an overflow could make 0x100.                               *)
(***************************************************************************)
Compact ==
    /\ enc.buffer < 255
    /\ \A i \in 2..(Len(stream) - 1) :
          stream[i] = 255 /\ stream[i + 1] # 0 /\ stream[i - 1] = 0 => i > 2 /\ stream[i - 2] = 255

ArithmeticExact == RoundTrip /\ Compact
=============================================================================
