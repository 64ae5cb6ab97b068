-------------------------- MODULE ExceptionHandlers --------------------------
(***************************************************************************)
(* exception_handlers.py: the HTTP status that an outcome of a service     *)
(* becomes.  Only the exact class of a DomainException is looked up;       *)
(* everything else, the errors of Postgres and Redis included, is 500.     *)
(***************************************************************************)
EXTENDS Domain

BadRequest == CommandErrors \cup {"CurrencyMismatchError"}
NotFound == {"ResourceNotFoundError"}
Conflict == {"ConcurrencyConflictError"}
Unprocessable == {"InsufficientFundsError", "AccountFrozenError",
                  "AccountClosedError"}

(* Mutant of StatusCode: a refused transfer is reported as a conflict.     *)
RefusalAsConflict(outcome) ==
    CASE outcome \in {"completed", "failed"} -> 202
      [] outcome \in BadRequest -> 400
      [] outcome \in NotFound -> 404
      [] outcome \in Conflict \cup Unprocessable -> 409
      [] OTHER -> 500

(* _STATUS_MAP, for what TransferService.initiate raises; 202 is the       *)
(* status of the route when it returns.                                    *)
StatusCode(outcome) ==
    CASE outcome \in {"completed", "failed"} -> 202
      [] outcome \in BadRequest -> 400
      [] outcome \in NotFound -> 404
      [] outcome \in Conflict -> 409
      [] outcome \in Unprocessable -> 422
      [] OTHER -> 500
=============================================================================
