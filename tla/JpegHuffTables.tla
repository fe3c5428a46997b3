--------------------------- MODULE JpegHuffTables ---------------------------
(***************************************************************************)
(* Huffman tables: how jchuff.c makes the best one for the counts of the   *)
(* symbols, and what it and jdhuff.c derive from one. A table is the       *)
(* number of codes of each length and the symbols in the order of their    *)
(* codes.                                                                  *)
(***************************************************************************)
EXTENDS Integers, Sequences, FiniteSetsExt, SequencesExt, TLC

CONSTANTS MaxLength,        \* bits of a code at most (16 in the code)
          HUFF_LOOKAHEAD    \* bits that are looked up at once (8 in the code)

MAX_CLEN == 32
Pseudo == 256               \* the symbol that nothing is

(***************************************************************************)
(* jpeg_gen_optimal_table                                                  *)
(***************************************************************************)
\* In case of ties, the larger symbol.
Rarest(freq, symbols) ==
    CHOOSE c \in symbols : \A d \in symbols : freq[c] < freq[d] \/ (freq[c] = freq[d] /\ c >= d)

\* The two rarest trees become branches of one: the codes of their symbols are a bit longer.
RECURSIVE CodeSizes(_, _, _)
CodeSizes(freq, branch, codesize) ==
    LET c1 == Rarest(freq, DOMAIN freq)
        c2 == Rarest(freq, DOMAIN freq \ {c1})
        both == branch[c1] \cup branch[c2]
    IN IF DOMAIN freq = {c1} THEN codesize
       ELSE CodeSizes([c \in DOMAIN freq \ {c2} |-> IF c = c1 THEN freq[c1] + freq[c2] ELSE freq[c]],
                      [branch EXCEPT ![c1] = both],
                      [c \in DOMAIN codesize |-> IF c \in both THEN codesize[c] + 1 ELSE codesize[c]])

\* Two symbols of the longest length: one takes the prefix of both, the other half of a
\* shorter code, whose symbol takes the other half.
RECURSIVE Limited(_, _)
Limited(bits, i) ==
    LET j == Max({l \in 1..(i - 2) : bits[l] > 0})
        moved == [bits EXCEPT ![i] = @ - 2, ![i - 1] = @ + 1]
    IN IF i <= MaxLength THEN bits
       ELSE IF bits[i] = 0 THEN Limited(bits, i - 1)
       ELSE Limited([moved EXCEPT ![j + 1] = @ + 2, ![j] = @ - 1], i)

Sorted(symbols, Before(_, _)) ==
    [i \in 1..Cardinality(symbols) |->
        CHOOSE c \in symbols : Cardinality({d \in symbols : Before(d, c)}) = i - 1]

\* counts has the symbols that are used.
GenOptimalTable(counts) ==
    LET freq == (Pseudo :> 1) @@ counts
        codesize == CodeSizes(freq, [c \in DOMAIN freq |-> {c}], [c \in DOMAIN freq |-> 0])
        bits == Limited([l \in 1..MAX_CLEN |-> Cardinality({c \in DOMAIN freq : codesize[c] = l})],
                        MAX_CLEN)
        longest == Max({l \in 1..MaxLength : bits[l] > 0})
    IN [bits |-> [l \in 1..MaxLength |-> IF l = longest THEN bits[l] - 1 ELSE bits[l]],
        huffval |-> Sorted(DOMAIN counts, LAMBDA c, d : \/ codesize[c] < codesize[d]
                                                        \/ codesize[c] = codesize[d] /\ c < d)]

(***************************************************************************)
(* jpeg_make_c_derived_tbl, jpeg_make_d_derived_tbl                        *)
(***************************************************************************)
\* The symbols with shorter codes, and the first code of a length.
Shorter(table, l) == MapThenSumSet(LAMBDA i : table.bits[i], 1..(l - 1))
FirstCode(table, l) == MapThenSumSet(LAMBDA i : table.bits[i] * 2^(l - i), 1..(l - 1))

SizeOf(table, p) == CHOOSE l \in 1..MaxLength : p \in (Shorter(table, l) + 1)..(Shorter(table, l) + table.bits[l])
CodeOf(table, p) ==
    LET l == SizeOf(table, p) IN FirstCode(table, l) + p - Shorter(table, l) - 1

\* No code is all ones.
LegalTable(table) ==
    \A l \in 1..MaxLength : table.bits[l] > 0 => FirstCode(table, l) + table.bits[l] < 2^l

\* By symbol, the bits of its code.
CDerived(table) ==
    [c \in ToSet(table.huffval) |->
        LET p == CHOOSE p \in DOMAIN table.huffval : table.huffval[p] = c
            size == SizeOf(table, p)
        IN [i \in 1..size |-> (CodeOf(table, p) \div 2^(size - i)) % 2]]

DDerived(table) ==
    [huffval |-> table.huffval,
     maxcode |-> [l \in 1..(MaxLength + 1) |->
                     IF l > MaxLength THEN 2^20
                     ELSE IF table.bits[l] = 0 THEN -1 ELSE FirstCode(table, l) + table.bits[l] - 1],
     valoffset |-> [l \in 1..MaxLength |-> Shorter(table, l) - FirstCode(table, l)],
     look |-> [look \in 0..(2^HUFF_LOOKAHEAD - 1) |->
                  LET found == {p \in DOMAIN table.huffval :
                                   /\ SizeOf(table, p) <= HUFF_LOOKAHEAD
                                   /\ look \div 2^(HUFF_LOOKAHEAD - SizeOf(table, p)) = CodeOf(table, p)}
                  IN IF found = {} THEN <<0, 0>>
                     ELSE LET p == CHOOSE p \in found : TRUE
                          IN <<SizeOf(table, p), table.huffval[p]>>]]
=============================================================================
