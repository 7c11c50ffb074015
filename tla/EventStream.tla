----------------------------- MODULE EventStream ----------------------------
(***************************************************************************)
(* The Redis stream of core/streams.py that the outbox relays write and a  *)
(* consumer group reads: the state that OrderOutbox and EventConsumer      *)
(* share when they run together.                                           *)
(***************************************************************************)
EXTENDS Integers, Sequences

VARIABLE stream     \* events of the messages published so far

len == Len(stream)
=============================================================================
