----------------------------- MODULE PackLedger -----------------------------
(***************************************************************************)
(* What receiving a file list promises: the set of packs received is known *)
(* exactly, and the list is handed over, whole and in order, when its last *)
(* pack arrives and all the others have arrived before it.                 *)
(***************************************************************************)
EXTENDS Naturals, Sequences

CONSTANTS MaxTotal,  (* packs in a list, at most                            *)
          Room       (* packs that can be kept                              *)

VARIABLES receiving, (* whether a list is being received                    *)
          total,     (* the number of its packs                             *)
          got,       (* the packs received                                  *)
          handed     (* the packs of the list handed over last              *)

ledgerVars == <<receiving, total, got, handed>>

LedgerInit == receiving = FALSE /\ total = 0 /\ got = {} /\ handed = <<>>

Begin ==
  /\ ~receiving
  /\ receiving' = TRUE
  /\ total' \in 1 .. MaxTotal
  /\ got' = {} /\ handed' = <<>>

Arrive(n) ==
  /\ receiving
  /\ got' = IF n < Room THEN got \cup {n} ELSE got
  /\ IF n = total - 1 /\ got' = 0 .. total - 1
     THEN receiving' = FALSE /\ handed' = [i \in 1 .. total |-> i - 1]
     ELSE UNCHANGED <<receiving, handed>>
  /\ UNCHANGED total

GiveUp ==
  /\ receiving /\ receiving' = FALSE
  /\ UNCHANGED <<total, got, handed>>

LedgerNext == Begin \/ (\E n \in 0 .. total - 1 : Arrive(n)) \/ GiveUp

LedgerSpec == LedgerInit /\ [][LedgerNext]_ledgerVars

=============================================================================
