----------------------------- MODULE MCLogSystem -----------------------------
(***************************************************************************)
(* LogSystem on small blocks: 8 bytes, headers of 3.                       *)
(***************************************************************************)
EXTENDS LogSystem

MCByte == 1..14

(* An empty record; a record of 2 bytes (three bytes are left in the block *)
(* behind it, exactly a header, so what follows starts with an empty first *)
(* fragment); one that fills a block; two of several blocks, whose bytes   *)
(* differ so that mixed fragments would show.                              *)
MCRecords == {<< >>, <<1, 2>>, <<1, 2, 3, 4, 5>>,
              <<1, 2, 3, 4, 5, 6, 7>>, <<8, 9, 10, 11, 12, 13, 14>>}

(* For damage: a short record, one that leaves a trailer behind it, and    *)
(* one of several blocks.                                                  *)
MCDamageRecords == {<<1, 2>>, <<3, 4, 5, 6>>, <<8, 9, 10, 11, 12, 13>>}
==============================================================================
