-------------------------------- MODULE MCOS -------------------------------
(***************************************************************************)
(* Instances of the operating system model for TLC.                        *)
(*                                                                         *)
(* A word is 2 bytes, a small page one word and a large page three, which  *)
(* at address 0 covers the small pages at 0 and 2.  In MCOS_tlb the        *)
(* address space ends at 10: with a frame apart from the large one, a      *)
(* small page is mapped, or being mapped or unmapped, beside the large     *)
(* page, at 6, and in the way of it, at 0 and 2.  In MCOS_refine it ends   *)
(* at 8, a small page is in the way of the large one or not mapped with    *)
(* it, and address 1 is aligned to nothing.                                *)
(***************************************************************************)
EXTENDS OSRefinement

CONSTANTS c1, c2, u1, u2, u3

MCULT2core == [u \in ULT |-> IF u = u1 THEN c1 ELSE c2]

Entry(base, size, w, s, x) ==
  [frame |-> Region(base, size),
   flags |-> [is_writable |-> w, is_supervisor |-> s, disable_execute |-> x]]

(* Two small frames, a large one over both, and a small one apart from it. *)
PTEOverlapping ==
  {Entry(0, 2, TRUE, FALSE, TRUE), Entry(2, 2, TRUE, FALSE, TRUE),
   Entry(0, 6, TRUE, FALSE, TRUE), Entry(6, 2, TRUE, FALSE, TRUE)}

(* A writable small frame, a large one over it, whose third word lies      *)
(* beyond the end of memory, and a small frame apart from both, beyond the *)
(* end of memory, that only the supervisor may use.                        *)
PTEMix ==
  {Entry(0, 2, TRUE, FALSE, TRUE), Entry(0, 6, TRUE, FALSE, FALSE), Entry(6, 2, TRUE, TRUE, FALSE)}
=============================================================================
