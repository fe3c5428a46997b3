-------------------------- MODULE JpegVirtualArray --------------------------
(***************************************************************************)
(* A virtual array of coefficient rows of jmemmgr.c: a buffer of           *)
(* rows_in_mem rows is a window on an array of RowsInArray rows, the rest  *)
(* of which is in the backing store. consume_data and decompress_data ask  *)
(* for a few rows at a time. In the Android build (jmemnobs.c) the whole   *)
(* array always fits.                                                      *)
(*                                                                         *)
(* A row is one value. Arrays are pre-zeroed, as jdcoefct.c requests them. *)
(***************************************************************************)
EXTENDS Integers

CONSTANTS RowsInArray,  \* height of the array
          MaxAccess,    \* rows that are asked for at most
          Values,       \* what a row may hold
          Zero          \* a row of zeroes

ASSUME VirtualArrayAssumption ==
    /\ RowsInArray \in Nat \ {0} /\ MaxAccess \in Nat \ {0}
    /\ Zero \in Values

Row == 0..(RowsInArray - 1)

VARIABLES
    array,            \* the array that the caller means to have
    accessed,         \* the rows it may use: [from, to, writable], up to to - 1
    rows_in_mem,      \* height of the buffer
    b_s_open,         \* is there a backing store?
    mem_buffer,       \* the buffer: row r of the array is at r - cur_start_row
    cur_start_row,    \* the first row in the buffer
    first_undef_row,  \* the rows from here on were never written
    dirty,            \* was the buffer written to since it was read?
    backing_store,    \* the rows of the array in the backing store
    failed            \* an error exit was taken

arrayVars == <<array, accessed, rows_in_mem, b_s_open, mem_buffer, cur_start_row, first_undef_row,
          dirty, backing_store, failed>>

Nothing == [from |-> 0, to |-> 0, writable |-> FALSE]

TypeOK ==
    /\ array \in [Row -> Values]
    /\ accessed \in [from : 0..RowsInArray, to : 0..RowsInArray, writable : BOOLEAN]
    /\ rows_in_mem \in 1..RowsInArray
    /\ b_s_open \in BOOLEAN
    /\ mem_buffer \in [0..(rows_in_mem - 1) -> Values]
    /\ cur_start_row \in Row
    /\ first_undef_row \in 0..RowsInArray
    /\ dirty \in BOOLEAN
    /\ backing_store \in [Row -> Values]
    /\ failed \in BOOLEAN

\* realize_virt_arrays: as many rows as fit, a multiple of MaxAccess unless all fit. Neither
\* the buffer nor the store is initialised.
Realize(max_minheights) ==
    LET minheights == (RowsInArray - 1) \div MaxAccess + 1
    IN /\ b_s_open = (minheights > max_minheights)
       /\ rows_in_mem = IF minheights <= max_minheights THEN RowsInArray
                        ELSE max_minheights * MaxAccess

ArrayInit ==
    /\ array = [r \in Row |-> Zero] /\ accessed = Nothing
    /\ \E max_minheights \in 1..RowsInArray : Realize(max_minheights)
    /\ mem_buffer \in [0..(rows_in_mem - 1) -> Values]
    /\ backing_store \in [Row -> Values]
    /\ cur_start_row = 0 /\ first_undef_row = 0
    /\ dirty = FALSE /\ failed = FALSE

----------------------------------------------------------------------------

\* do_barray_io: the defined rows of the window that starts at a row.
Window(start) == {r \in Row : start <= r /\ r < start + rows_in_mem /\ r < first_undef_row}

FaultStored == backing_store   \* seeded bug: a dirty buffer is not written back

\* The backing store after the buffer was flushed, if it had to be.
Stored ==
    IF dirty
    THEN [r \in Row |-> IF r \in Window(cur_start_row) THEN mem_buffer[r - cur_start_row]
                        ELSE backing_store[r]]
    ELSE backing_store

\* Where the window goes: forward to the rows that are asked for, backward so that they
\* are its last.
NewStart(from, to) ==
    IF from > cur_start_row THEN from
    ELSE IF to - rows_in_mem < 0 THEN 0 ELSE to - rows_in_mem

\* The buffer after the window moved: rows that are not defined keep what was there.
Loaded(start) ==
    [i \in 0..(rows_in_mem - 1) |->
        IF start + i \in Window(start) THEN Stored[start + i] ELSE mem_buffer[i]]

\* The rows that are asked for and were never written are zeroed.
Zeroed(buffer, start, from, to) ==
    [i \in 0..(rows_in_mem - 1) |->
        IF first_undef_row <= start + i /\ from <= start + i /\ start + i < to
        THEN Zero ELSE buffer[i]]

InWindow(from, to) == cur_start_row <= from /\ to <= cur_start_row + rows_in_mem

\* access_virt_barray. A writer must not skip rows. After an error exit the decompressor is
\* destroyed: what the access did before it is left out.
Access(from, to, writable) ==
    /\ ~failed /\ to > from /\ to - from <= MaxAccess
    /\ IF (~InWindow(from, to) /\ ~b_s_open) \/ (writable /\ first_undef_row < from)
       THEN failed' = TRUE /\ accessed' = Nothing
            /\ UNCHANGED <<mem_buffer, cur_start_row, first_undef_row, dirty, backing_store>>
       ELSE LET start == IF InWindow(from, to) THEN cur_start_row ELSE NewStart(from, to)
                buffer == IF InWindow(from, to) THEN mem_buffer ELSE Loaded(start)
            IN /\ cur_start_row' = start
               /\ backing_store' = IF InWindow(from, to) THEN backing_store ELSE Stored
               /\ mem_buffer' = Zeroed(buffer, start, from, to)
               /\ first_undef_row' = IF writable /\ first_undef_row < to THEN to
                                     ELSE first_undef_row
               /\ dirty' = (writable \/ (InWindow(from, to) /\ dirty))
               /\ accessed' = [from |-> from, to |-> to, writable |-> writable]
               /\ UNCHANGED failed
    /\ UNCHANGED <<array, rows_in_mem, b_s_open>>

\* The caller writes one of the rows it was given, as decode_mcu does in consume_data.
Write(r, v) ==
    /\ ~failed /\ accessed.writable /\ accessed.from <= r /\ r < accessed.to
    /\ mem_buffer' = [mem_buffer EXCEPT ![r - cur_start_row] = v]
    /\ array' = [array EXCEPT ![r] = v]
    /\ UNCHANGED <<accessed, rows_in_mem, b_s_open, cur_start_row, first_undef_row, dirty,
                   backing_store, failed>>

ArrayNext ==
    \/ \E from \in Row, to \in 1..RowsInArray, writable \in BOOLEAN : Access(from, to, writable)
    \/ \E r \in Row, v \in Values : Write(r, v)

ArraySpec == ArrayInit /\ [][ArrayNext]_arrayVars

----------------------------------------------------------------------------
(* Properties *)

Accessible == {r \in Row : accessed.from <= r /\ r < accessed.to}

\* The rows that a caller was given hold what was last written to them, or zeroes, however
\* the window was moved meanwhile.
Coherent == \A r \in Accessible : mem_buffer[r - cur_start_row] = array[r]

\* The induction: a defined row is in the buffer or, outside of it, in the store; a buffer
\* that is not dirty agrees with the store; rows never written are zero; the rows that were
\* given lie in the window, which is high enough for any access.
InBuffer(r) == cur_start_row <= r /\ r < cur_start_row + rows_in_mem
DefinedRows ==
    \A r \in Row : r < first_undef_row =>
        /\ InBuffer(r) => mem_buffer[r - cur_start_row] = array[r]
        /\ ~InBuffer(r) \/ (~dirty /\ b_s_open) => backing_store[r] = array[r]
UndefinedRows == \A r \in Row : r >= first_undef_row => array[r] = Zero
GivenRows ==
    /\ accessed.from <= accessed.to
    /\ accessed.from < accessed.to =>
          cur_start_row <= accessed.from /\ accessed.to <= cur_start_row + rows_in_mem
    /\ accessed.writable => dirty /\ accessed.to <= first_undef_row
EnoughRows == rows_in_mem >= MaxAccess \/ rows_in_mem = RowsInArray
IInv == TypeOK /\ EnoughRows /\ Coherent /\ DefinedRows /\ UndefinedRows /\ GivenRows
=============================================================================
