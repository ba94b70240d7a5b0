---------------------------- MODULE MCTagTables -----------------------------
(* An instance of TagTables for TLC.                                         *)
EXTENDS TagTables

\* 0x801 and 0xFF0: the second has low bits 0, as an empty slot has.
MCTags == {2049, 4080}

\* Bucket 0 holds tags of both kinds, its neighbour of one.
MCCalls == {<<0, 2049>>, <<0, 4080>>, <<1, 4080>>}

==============================================================================
