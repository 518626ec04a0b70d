------------------------------ MODULE RecordLog ------------------------------
(***************************************************************************)
(* What the log promises: a writer appends records and makes them durable; *)
(* when it stops, for whatever reason, the records that survive are a      *)
(* prefix that holds every durable one; a reader then starts at one of     *)
(* them, gets exactly those from there on, in order, and is told that      *)
(* there are no more.                                                      *)
(***************************************************************************)
EXTENDS Integers, Sequences

CONSTANT Records

VARIABLES
  phase,     (* "writing", "stopped", "reading" or "done"                  *)
  written,   (* the records in the log                                     *)
  durable,   (* how many of them must survive                              *)
  read       (* the records the reader has passed over or got              *)

vars == <<phase, written, durable, read>>

Init ==
  /\ phase = "writing"
  /\ written = << >>
  /\ durable = 0
  /\ read = << >>

Write(r) ==
  /\ phase = "writing"
  /\ written' = Append(written, r)
  /\ UNCHANGED <<phase, durable, read>>

MakeDurable ==
  /\ phase = "writing"
  /\ durable' = Len(written)
  /\ UNCHANGED <<phase, written, read>>

Stop ==
  /\ phase \in {"writing", "stopped"}
  /\ \E n \in durable..Len(written) : written' = SubSeq(written, 1, n)
  /\ phase' = "stopped"
  /\ UNCHANGED <<durable, read>>

StartReading ==
  /\ phase = "stopped"
  /\ phase' = "reading"
  /\ \E n \in 0..Len(written) : read' = SubSeq(written, 1, n)
  /\ UNCHANGED <<written, durable>>

Read ==
  /\ phase = "reading"
  /\ Len(read) < Len(written)
  /\ read' = Append(read, written[Len(read) + 1])
  /\ UNCHANGED <<phase, written, durable>>

Finish ==
  /\ phase = "reading"
  /\ read = written
  /\ phase' = "done"
  /\ UNCHANGED <<written, durable, read>>

Next ==
  \/ \E r \in Records : Write(r)
  \/ MakeDurable
  \/ Stop
  \/ StartReading
  \/ Read
  \/ Finish

Spec == Init /\ [][Next]_vars
==============================================================================
