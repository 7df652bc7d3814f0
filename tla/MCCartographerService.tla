----------------------- MODULE MCCartographerService -----------------------
(* Two services of one process and two imports, of one service or of both.  *)
EXTENDS CartographerService

ASSUME ServiceAssumption
=============================================================================
