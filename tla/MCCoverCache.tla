---------------------------- MODULE MCCoverCache ----------------------------
(* CoverCache with few tracks, covers and sizes, for TLC. *)
EXTENDS CoverCache

CONSTANTS t1, t2, t3, a, b, x

ThreeTracks == { t1, t2, t3 }
TwoTracks == { t1, t2 }

(* Two covers that are recognized and one that is not. *)
ThreeCovers == { a, b, x }
TwoKeyed == { a, b }

(* Full size, a width with its height in proportion, and both. *)
SomeSizes == { << 0, 0 >>, << 100, 0 >>, << 64, 64 >> }
TwoSizes == { << 0, 0 >>, << 100, 0 >> }

=============================================================================
