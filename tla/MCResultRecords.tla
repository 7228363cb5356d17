-------------------------- MODULE MCResultRecords --------------------------
(***************************************************************************)
(* A small instance of ResultRecords: u64 shrunk to 2 bits, so that gas    *)
(* amounts are 0..3 and a refund can equal, exceed or fall short of a gas  *)
(* limit of 2 or 3; a gas limit of 4 lies above u64::MAX, so that as_u64() *)
(* panics; one value of each outcome payload; up to two leaf calls, so a   *)
(* trace can be empty, single or ordered.                                  *)
(***************************************************************************)
EXTENDS ResultRecords
CONSTANTS O1, R1, H1, C1, C2
====
