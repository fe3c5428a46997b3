------------------------------ MODULE JpegCoef ------------------------------
(***************************************************************************)
(* The coefficient controller of jdcoefct.c keeps the whole image in       *)
(* virtual arrays if there is more than one scan, and no more than one MCU *)
(* otherwise. Of the first way there is the array of a component, under    *)
(* any calls of consume_data and decompress_data; of the second, the way   *)
(* from the scan to the lines.                                             *)
(***************************************************************************)
EXTENDS JpegVirtualArray, JpegScan

VARIABLES need_full_buffer

\* What is not used.
NoArray ==
    /\ array = [r \in Row |-> Zero] /\ accessed = Nothing
    /\ Realize(RowsInArray)
    /\ mem_buffer = array /\ backing_store = array
    /\ cur_start_row = 0 /\ first_undef_row = 0 /\ dirty = FALSE /\ failed = FALSE
NoScan ==
    /\ v_samp_factor = <<>> /\ image_height = 0 /\ damaged = {} /\ data = <<EOI>>
    /\ restart_interval = 0 /\ entropy = StartPass(0) /\ input_iMCU_row = 0 /\ MCU_vert_offset = 0
    /\ MCU_ctr = 0 /\ buffer = <<>> /\ buffer_full = FALSE /\ rowgroup_ctr = 0
    /\ color_buf = <<>> /\ next_row_out = 0 /\ lines = <<>>

\* jinit_d_coef_controller
CoefInit ==
    \/ need_full_buffer = TRUE  /\ ArrayInit /\ NoScan
    \/ need_full_buffer = FALSE /\ ScanInit /\ NoArray

CoefNext ==
    \/ need_full_buffer /\ ArrayNext /\ UNCHANGED <<scanVars, need_full_buffer>>
    \/ ~need_full_buffer /\ ScanNext /\ UNCHANGED <<arrayVars, need_full_buffer>>

CoefSpec == CoefInit /\ [][CoefNext]_<<arrayVars, scanVars, need_full_buffer>>
=============================================================================
