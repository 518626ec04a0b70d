----------------------------- MODULE MCLogWriter -----------------------------
(***************************************************************************)
(* LogWriter on small blocks: 8 bytes, headers of 3.                       *)
(***************************************************************************)
EXTENDS LogWriter

(* An empty record; one that leaves a trailer of 1 byte behind it in an    *)
(* empty block; one that fills a block; one of several blocks.  Two        *)
(* records of 1 byte also leave a block without a trailer.                 *)
MCRecords == {<< >>, <<1>>, <<1, 2, 3, 4>>, <<1, 2, 3, 4, 5>>,
              <<1, 2, 3, 4, 5, 6, 7, 8, 9, 10, 11, 12>>}

MCByte == 1..12
==============================================================================
