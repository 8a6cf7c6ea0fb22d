----------------------------- MODULE PageCounts -----------------------------
(***************************************************************************)
(* The page pools whose counts fit compound_page_cnt, an int16_t: those of *)
(* regions with at most 32767 pages.  The regions of a small build         *)
(* (MEM_SMALL: 10 MB, 2473 pages of 4 kB) are such, the regions of 1 GB of *)
(* a normal build are not.                                                 *)
(***************************************************************************)
EXTENDS PagePool

ASSUME CountsFit == pages_per_region <= INT16_MAX

=============================================================================
