--------------------------- MODULE MCIOReadEngine ---------------------------
(* A small instance of the read engine: two workers, one extra permit and *)
(* five reads, so that results can pile up beyond the permit count, a     *)
(* worker can block in acquire() and close() can meet every future state. *)
EXTENDS IOReadEngine

MCSimultaneousReads == 2
MCReadQueueLength == 1
MCMaxReads == 5
=============================================================================
