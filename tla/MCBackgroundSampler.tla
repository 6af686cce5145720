------------------------- MODULE MCBackgroundSampler -------------------------
(***************************************************************************)
(* A sampler with an interval of zero (it never sleeps), one shorter than  *)
(* a chunk, and one of two chunks and a remainder.                         *)
(***************************************************************************)
EXTENDS BackgroundSampler

MCIntervals == {0, 1, 5}
==============================================================================
