------------------------ MODULE TransactionAggregate ------------------------
(***************************************************************************)
(* One Transaction in memory (src/domain/entities/transaction.py): every   *)
(* public method, called in any order, with a reload from its row at any   *)
(* time.  A call that raises changes nothing, and is no step here.         *)
(***************************************************************************)
EXTENDS Naturals, Sequences

CONSTANT
    MaxRollbacks      \* bound: the TransactionRolledBack events recorded

VARIABLES
    tx,               \* the aggregate: status and rollback_required
    story             \* the events it has recorded, collected or not

transactionVars == <<tx, story>>

TransactionStatus == {"pending", "processing", "completed", "failed"}

(* initiate().                                                             *)
TransactionInit ==
    /\ tx = [status |-> "pending", rollback_required |-> FALSE]
    /\ story = <<[type |-> "TransactionInitiated"]>>

-----------------------------------------------------------------------------
(* Mutant of CanFail: any transaction can fail.                            *)
CanAlwaysFail == TRUE

(* TransactionStatus.can_fail.                                             *)
CanFail == tx.status \in {"pending", "processing"}

Tell(event) == story' = Append(story, event)

(* can_process(): PENDING.                                                 *)
MarkProcessing ==
    /\ tx.status = "pending"
    /\ tx' = [tx EXCEPT !.status = "processing"]
    /\ Tell([type |-> "TransactionProcessing"])

(* can_complete(): PROCESSING.                                             *)
Complete ==
    /\ tx.status = "processing"
    /\ tx' = [tx EXCEPT !.status = "completed"]
    /\ Tell([type |-> "TransactionCompleted"])

Fail ==
    LET required == tx.status = "processing"
    IN  /\ CanFail
        /\ tx' = [status |-> "failed", rollback_required |-> required]
        /\ Tell([type |-> "TransactionFailed", rollback_required |-> required])

Rollbacks == SelectSeq(story, LAMBDA e : e.type = "TransactionRolledBack")

(* mark_rolled_back(): FAILED is all it asks, and it changes no field.     *)
MarkRolledBack ==
    /\ tx.status = "failed"
    /\ Len(Rollbacks) < MaxRollbacks
    /\ Tell([type |-> "TransactionRolledBack"])
    /\ UNCHANGED tx

(* Saved and loaded again: TransactionORM has no rollback_required, so     *)
(* reconstitute() leaves it at its default.                                *)
Reload ==
    /\ tx' = [tx EXCEPT !.rollback_required = FALSE]
    /\ UNCHANGED story

TransactionStep ==
    \/ MarkProcessing
    \/ Complete
    \/ Fail
    \/ MarkRolledBack
    \/ Reload
=============================================================================
