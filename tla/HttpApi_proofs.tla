--------------------------- MODULE HttpApi_proofs ---------------------------
(***************************************************************************)
(* Theorems about the HTTP adapter, for any number of calls, accounts and  *)
(* users, any requests and any failures.                                   *)
(***************************************************************************)
EXTENDS HttpApi, TLAPS

Answers == {200, 201, 400, 401, 403, 404, 422, 500}

(***************************************************************************)
(* What a call has done, by the stage it is in.  A call that is not        *)
(* answered has no response, one that is still to be handled has opened    *)
(* nothing; and an account has the owner and the balance of its call.      *)
(***************************************************************************)
EffectOf(c) ==
    /\ stage[c] = "sent" => c \notin opened
    /\ stage[c] # "answered" => response[c] = NoResponse
    /\ c \in opened =>
         /\ request[c].route = "create_account"
         /\ owner[c] = Caller(c) /\ Caller(c) # Nobody
         /\ response[c].status \in {201, 500} \/ stage[c] = "lost"
    /\ response[c].status = 201 =>
         c \in opened /\ balance[c] = response[c].balance

ApiInv ==
    /\ ApiTypeOK
    /\ ClosedOutsideDevelopment
    /\ \A c \in Call : EffectOf(c)

-----------------------------------------------------------------------------
(* An opening balance is rounded to a natural number of cents.             *)
LEMMA OpeningType == \A a \in AccountId : Quantize(OpeningBalance[a]) \in Nat
BY DomainAssumption DEF DomainAssumption, Quantize

(* A missing resource is reported as 404.                                  *)
LEMMA MissingIs404 == StatusCode("ResourceNotFoundError") = 404
BY DEF StatusCode, BadRequest, NotFound, Conflict, Unprocessable, CommandErrors

(* A caller is a user, or nobody; outside development, nobody.             *)
LEMMA CallerType ==
    \A c \in Call : /\ Caller(c) \in User \cup {Nobody}
                    /\ env # "development" => Caller(c) = Nobody
BY DEF Caller

(* No call has done anything at the start.                                 *)
LEMMA ApiInit == Init => ApiInv
<1> SUFFICES ASSUME Init PROVE ApiInv
  OBVIOUS
<1>1. /\ opened \subseteq AccountId
      /\ \A c \in Call : c \notin opened
  BY HttpAssumption DEF HttpAssumption, Init
<1>2. balance \in [AccountId -> Nat]
  BY OpeningType DEF Init
<1>3. owner \in [AccountId -> User \cup {Nobody}]
  BY HttpAssumption DEF HttpAssumption, Init
<1>4. \A c \in Call : response[c] = NoResponse /\ stage[c] = "sent"
  BY DEF Init
<1>5. ApiTypeOK
  BY <1>1, <1>2, <1>3 DEF ApiTypeOK, Init, NoResponse
<1>6. ASSUME NEW c \in Call PROVE EffectOf(c)
  <2>1. response[c].status = 0
    BY <1>4 DEF NoResponse
  <2> QED
    BY <2>1, <1>1, <1>4 DEF EffectOf
<1>7. ClosedOutsideDevelopment
  BY <1>4 DEF ClosedOutsideDevelopment, Init, NoResponse
<1> QED
  BY <1>5, <1>6, <1>7 DEF ApiInv

-----------------------------------------------------------------------------
(* A response is one call's alone.                                         *)
LEMMA RespondFacts ==
    ASSUME ApiInv, NEW c \in Call, NEW status \in Answers, NEW funds \in Nat,
           Respond(c, status, funds)
    PROVE  /\ stage' \in [Call -> {"sent", "answered", "lost"}]
           /\ response' \in [Call -> [status : {0} \cup Answers, balance : Nat]]
           /\ stage'[c] = "answered"
           /\ response'[c] = [status |-> status, balance |-> funds]
           /\ \A d \in Call \ {c} :
                 stage'[d] = stage[d] /\ response'[d] = response[d]
           /\ env' = env /\ request' = request
<1>1. /\ stage \in [Call -> {"sent", "answered", "lost"}]
      /\ response \in [Call -> [status : {0} \cup Answers, balance : Nat]]
  BY DEF ApiInv, ApiTypeOK, Answers
<1>2. /\ stage' = [stage EXCEPT ![c] = "answered"]
      /\ response' = [response EXCEPT ![c] = [status |-> status, balance |-> funds]]
      /\ env' = env /\ request' = request
  BY DEF Respond
<1>3. [status |-> status, balance |-> funds]
        \in [status : {0} \cup Answers, balance : Nat]
  OBVIOUS
<1> QED
  BY <1>1, <1>2, <1>3

(* A call that touches no account may be answered with anything but 201,   *)
(* and with nothing but 401, or 422 if its body is not JSON, if it needed  *)
(* a user and came outside development.                                    *)
LEMMA ReadStep ==
    ASSUME ApiInv, NEW c \in Call, stage[c] = "sent",
           NEW status \in Answers \ {201}, NEW funds \in Nat,
           \/ env = "development"
           \/ status = IF request[c].form = "garbled" THEN 422 ELSE 401
           \/ request[c].route \notin Protected,
           Respond(c, status, funds), UNCHANGED <<owner, dbVars>>
    PROVE  ApiInv'
<1> status \in Answers
  OBVIOUS
<1>1. /\ stage' \in [Call -> {"sent", "answered", "lost"}]
      /\ response' \in [Call -> [status : {0} \cup Answers, balance : Nat]]
      /\ stage'[c] = "answered"
      /\ response'[c] = [status |-> status, balance |-> funds]
      /\ \A d \in Call \ {c} : stage'[d] = stage[d] /\ response'[d] = response[d]
      /\ env' = env /\ request' = request
  BY RespondFacts
<1>2. opened' = opened /\ balance' = balance /\ owner' = owner
  BY DEF dbVars
<1>3. ApiTypeOK'
  BY <1>1, <1>2 DEF ApiInv, ApiTypeOK, Answers
<1>4. \A d \in Call : Caller(d)' = Caller(d)
  BY <1>1 DEF Caller
<1>5. EffectOf(c)'
  <2>1. c \notin opened
    BY DEF ApiInv, EffectOf
  <2> QED
    BY <2>1, <1>1, <1>2 DEF EffectOf
<1>6. ASSUME NEW d \in Call \ {c} PROVE EffectOf(d)'
  <2>1. EffectOf(d)
    BY DEF ApiInv
  <2> QED
    BY <2>1, <1>1, <1>2, <1>4 DEF EffectOf
<1>7. ClosedOutsideDevelopment'
  BY <1>1, <1>2 DEF ApiInv, ClosedOutsideDevelopment
<1>8. (\A d \in Call : EffectOf(d))'
  BY <1>5, <1>6
<1> QED
  BY <1>3, <1>7, <1>8 DEF ApiInv

(* A refusal is such an answer.                                            *)
LEMMA RefuseStep ==
    ASSUME ApiInv, NEW c \in Call, stage[c] = "sent",
           NEW status \in Answers \ {201},
           \/ env = "development"
           \/ status = IF request[c].form = "garbled" THEN 422 ELSE 401
           \/ request[c].route \notin Protected,
           Refuse(c, status)
    PROVE  ApiInv'
BY ReadStep DEF Refuse

(* Opening an account for the caller of an accepted call.                  *)
LEMMA OpenFacts ==
    ASSUME ApiInv, NEW c \in Call, Accepted(c, "create_account"), OpenAccount(c)
    PROVE  /\ env = "development" /\ Caller(c) # Nobody
           /\ stage[c] = "sent" /\ request[c].route = "create_account"
           /\ opened' = opened \cup {c} /\ opened' \subseteq AccountId
           /\ balance' \in [AccountId -> Nat]
           /\ balance'[c] = Quantize(OpeningBalance[c])
           /\ owner' \in [AccountId -> User \cup {Nobody}]
           /\ owner'[c] = Caller(c)
           /\ \A a \in AccountId \ {c} :
                 balance'[a] = balance[a] /\ owner'[a] = owner[a]
<1>1. c \in AccountId /\ Quantize(OpeningBalance[c]) \in Nat
  BY HttpAssumption, OpeningType DEF HttpAssumption
<1>2. /\ opened \subseteq AccountId
      /\ balance \in [AccountId -> Nat]
      /\ owner \in [AccountId -> User \cup {Nobody}]
  BY DEF ApiInv, ApiTypeOK
<1>3. /\ opened' = opened \cup {c}
      /\ balance' = [balance EXCEPT ![c] = Quantize(OpeningBalance[c])]
      /\ owner' = [owner EXCEPT ![c] = Caller(c)]
  BY DEF OpenAccount, CreateAccount
<1>4. /\ stage[c] = "sent" /\ request[c].route = "create_account"
      /\ Caller(c) # Nobody
  BY DEF Accepted, Authenticated, Protected
<1>5. env = "development" /\ Caller(c) \in User \cup {Nobody}
  BY <1>4, CallerType
<1> QED
  BY <1>1, <1>2, <1>3, <1>4, <1>5

(* It keeps the invariant if the call is answered 201, with that balance,  *)
(* or 500, or is lost.                                                     *)
LEMMA OpenStep ==
    ASSUME ApiInv, NEW c \in Call, Accepted(c, "create_account"), OpenAccount(c),
           stage' \in [Call -> {"sent", "answered", "lost"}],
           response' \in [Call -> [status : {0} \cup Answers, balance : Nat]],
           \/ /\ stage'[c] = "answered"
              /\ \/ response'[c].status = 500
                 \/ /\ response'[c].status = 201
                    /\ response'[c].balance = Quantize(OpeningBalance[c])
           \/ stage'[c] = "lost" /\ response'[c] = NoResponse,
           \A d \in Call \ {c} : stage'[d] = stage[d] /\ response'[d] = response[d],
           env' = env, request' = request
    PROVE  ApiInv'
<1>1. /\ env = "development" /\ Caller(c) # Nobody
      /\ request[c].route = "create_account"
      /\ opened' = opened \cup {c} /\ opened' \subseteq AccountId
      /\ balance' \in [AccountId -> Nat]
      /\ balance'[c] = Quantize(OpeningBalance[c])
      /\ owner' \in [AccountId -> User \cup {Nobody}]
      /\ owner'[c] = Caller(c)
      /\ \A a \in AccountId \ {c} : balance'[a] = balance[a] /\ owner'[a] = owner[a]
  BY OpenFacts
<1>2. ApiTypeOK'
  BY <1>1 DEF ApiInv, ApiTypeOK, Answers
<1>3. \A d \in Call : Caller(d)' = Caller(d)
  BY DEF Caller
<1>4. EffectOf(c)'
  BY <1>1, <1>3 DEF EffectOf, NoResponse
<1>5. ASSUME NEW d \in Call \ {c} PROVE EffectOf(d)'
  <2>1. EffectOf(d) /\ d \in AccountId \ {c}
    BY HttpAssumption DEF ApiInv, HttpAssumption
  <2> QED
    BY <2>1, <1>1, <1>3 DEF EffectOf
<1>6. ClosedOutsideDevelopment'
  BY <1>1 DEF ClosedOutsideDevelopment
<1>7. (\A d \in Call : EffectOf(d))'
  BY <1>4, <1>5
<1> QED
  BY <1>2, <1>6, <1>7 DEF ApiInv

(* A call that dies undone leaves nothing behind.                          *)
LEMMA CrashStep == ASSUME ApiInv, NEW c \in Call, Crash(c) PROVE ApiInv'
<1>1. /\ stage[c] = "sent" /\ stage' = [stage EXCEPT ![c] = "lost"]
      /\ opened' = opened /\ balance' = balance /\ owner' = owner
      /\ env' = env /\ request' = request /\ response' = response
  BY DEF Crash, dbVars
<1>2. ApiTypeOK'
  BY <1>1 DEF ApiInv, ApiTypeOK
<1>3. \A d \in Call : Caller(d)' = Caller(d)
  BY <1>1 DEF Caller
<1>4. ASSUME NEW d \in Call PROVE EffectOf(d)'
  <2>1. EffectOf(d) /\ (d = c => c \notin opened)
    BY <1>1 DEF ApiInv, EffectOf
  <2>2. stage \in [Call -> {"sent", "answered", "lost"}]
    BY DEF ApiInv, ApiTypeOK
  <2>3. /\ d # c => stage'[d] = stage[d]
        /\ d = c => stage'[d] = "lost" /\ stage[d] = "sent"
    BY <1>1, <2>2
  <2> QED
    BY <2>1, <2>3, <1>1, <1>3 DEF EffectOf
<1>5. ClosedOutsideDevelopment'
  BY <1>1 DEF ApiInv, ClosedOutsideDevelopment
<1>6. (\A d \in Call : EffectOf(d))'
  BY <1>4
<1> QED
  BY <1>2, <1>5, <1>6 DEF ApiInv

-----------------------------------------------------------------------------
(* Whoever gets past get_current_user on a protected route does so in      *)
(* development.                                                            *)
LEMMA PastAuthentication ==
    \A c \in Call : Authenticated(c) =>
        env = "development" \/ request[c].route \notin Protected
BY CallerType DEF Authenticated

(* Every handler keeps the invariant.                                      *)
LEMMA HandleStep == ASSUME ApiInv, NEW c \in Call, Handle(c) PROVE ApiInv'
<1>0. CASE Unparsable(c)
  <2>1. 422 \in Answers \ {201}
    BY DEF Answers
  <2>2. stage[c] = "sent" /\ request[c].form = "garbled"
    BY <1>0 DEF Unparsable
  <2> QED
    BY <1>0, <2>1, <2>2, RefuseStep DEF Unparsable
<1>1. CASE Unauthenticated(c)
  <2>1. /\ AuthError(c) \in Answers \ {201}
        /\ env = "development" \/ AuthError(c) = 401
    BY DEF AuthError, Answers
  <2> QED
    BY <1>1, <2>1, RefuseStep DEF Unauthenticated
<1>2. CASE Invalid(c)
  <2>1. 422 \in Answers \ {201}
    BY DEF Answers
  <2> QED
    BY <1>2, <2>1, PastAuthentication, RefuseStep DEF Invalid
<1>3. CASE PostAccount(c)
  <2>1. 201 \in Answers /\ Quantize(OpeningBalance[c]) \in Nat
    BY HttpAssumption, OpeningType DEF HttpAssumption, Answers
  <2> DEFINE funds == Quantize(OpeningBalance[c])
  <2>2. Respond(c, 201, funds)
    BY <1>3 DEF PostAccount
  <2>3. /\ stage' \in [Call -> {"sent", "answered", "lost"}]
        /\ response' \in [Call -> [status : {0} \cup Answers, balance : Nat]]
        /\ stage'[c] = "answered"
        /\ response'[c] = [status |-> 201, balance |-> funds]
        /\ \A d \in Call \ {c} : stage'[d] = stage[d] /\ response'[d] = response[d]
        /\ env' = env /\ request' = request
    BY <2>1, <2>2, RespondFacts
  <2> QED
    BY <1>3, <2>3, OpenStep DEF PostAccount
<1>4. CASE PostAccountOutOfRange(c)
  <2>1. 500 \in Answers \ {201}
    BY DEF Answers
  <2> QED
    BY <1>4, <2>1, PastAuthentication, RefuseStep DEF PostAccountOutOfRange, Accepted
<1>5. CASE PostAccountUnacknowledged(c)
  <2>1. 500 \in Answers
    BY DEF Answers
  <2>2. Respond(c, 500, 0)
    BY <1>5 DEF PostAccountUnacknowledged
  <2>3. /\ stage' \in [Call -> {"sent", "answered", "lost"}]
        /\ response' \in [Call -> [status : {0} \cup Answers, balance : Nat]]
        /\ stage'[c] = "answered"
        /\ response'[c] = [status |-> 500, balance |-> 0]
        /\ \A d \in Call \ {c} : stage'[d] = stage[d] /\ response'[d] = response[d]
        /\ env' = env /\ request' = request
    BY <2>1, <2>2, RespondFacts
  <2> QED
    BY <1>5, <2>3, OpenStep DEF PostAccountUnacknowledged
<1>6. CASE CrashAfterCommit(c)
  <2>1. /\ stage' = [stage EXCEPT ![c] = "lost"] /\ response' = response
        /\ env' = env /\ request' = request
    BY <1>6 DEF CrashAfterCommit
  <2>2. /\ stage \in [Call -> {"sent", "answered", "lost"}]
        /\ response \in [Call -> [status : {0} \cup Answers, balance : Nat]]
    BY DEF ApiInv, ApiTypeOK, Answers
  <2>3. response[c] = NoResponse
    BY <1>6 DEF ApiInv, EffectOf, CrashAfterCommit, Accepted
  <2>4. /\ stage' \in [Call -> {"sent", "answered", "lost"}]
        /\ stage'[c] = "lost"
        /\ \A d \in Call \ {c} : stage'[d] = stage[d]
    BY <2>1, <2>2
  <2> QED
    BY <1>6, <2>1, <2>2, <2>3, <2>4, OpenStep DEF CrashAfterCommit
<1>7. CASE GetAccount(c)
  <2>1. /\ {200, 403, StatusCode("ResourceNotFoundError")} \subseteq Answers \ {201}
    BY MissingIs404 DEF Answers
  <2>2. /\ stage[c] = "sent"
        /\ env = "development" \/ request[c].route \notin Protected
    BY <1>7, PastAuthentication DEF GetAccount, Accepted
  <2>3. CASE Refuse(c, StatusCode("ResourceNotFoundError")) \/ Refuse(c, 403)
    BY <2>1, <2>2, <2>3, RefuseStep
  <2>4. CASE /\ request[c].target \in opened
             /\ Respond(c, 200, balance[request[c].target])
             /\ UNCHANGED <<owner, dbVars>>
    <3>1. balance[request[c].target] \in Nat
      BY <2>4 DEF ApiInv, ApiTypeOK
    <3> QED
      BY <3>1, <2>1, <2>2, <2>4, ReadStep
  <2> QED
    BY <1>7, <2>3, <2>4 DEF GetAccount
<1>8. CASE GetTransaction(c)
  <2>1. 200 \in Answers \ {201} /\ StatusCode("ResourceNotFoundError") \in Answers \ {201}
    BY MissingIs404 DEF Answers
  <2>2. stage[c] = "sent" /\ request[c].route \notin Protected
    BY <1>8 DEF GetTransaction, Accepted, Protected
  <2>3. PICK status \in Answers \ {201} : Refuse(c, status)
    BY <1>8, <2>1 DEF GetTransaction
  <2> QED
    BY <2>2, <2>3, RefuseStep
<1>9. CASE PostTransfer(c)
  <2>1. 500 \in Answers \ {201}
    BY DEF Answers
  <2> QED
    BY <1>9, <2>1, PastAuthentication, RefuseStep DEF PostTransfer, Accepted
<1>10. CASE DevToken(c)
  <2>1. 200 \in Answers \ {201} /\ 403 \in Answers \ {201}
    BY DEF Answers
  <2>2. stage[c] = "sent" /\ request[c].route \notin Protected
    BY <1>10 DEF DevToken, Accepted, Protected
  <2>3. PICK status \in Answers \ {201} : Refuse(c, status)
    BY <1>10, <2>1 DEF DevToken
  <2> QED
    BY <2>2, <2>3, RefuseStep
<1>11. CASE ServiceFails(c)
  <2>1. 500 \in Answers \ {201}
    BY DEF Answers
  <2>2. stage[c] = "sent" /\ Authenticated(c)
    BY <1>11 DEF ServiceFails, Accepted
  <2> QED
    BY <1>11, <2>1, <2>2, PastAuthentication, RefuseStep DEF ServiceFails
<1>12. CASE Crash(c)
  BY <1>12, CrashStep
<1> QED
  BY <1>1, <1>2, <1>3, <1>4, <1>5, <1>6, <1>7, <1>8, <1>9, <1>10, <1>11, <1>12,
     <1>0 DEF Handle

(* The invariant is inductive.                                             *)
LEMMA ApiNext == ApiInv /\ [Next]_vars => ApiInv'
<1> SUFFICES ASSUME ApiInv, [Next]_vars PROVE ApiInv'
  OBVIOUS
<1>1. CASE \E c \in Call : Handle(c)
  BY <1>1, HandleStep
<1>2. CASE UNCHANGED vars
  <2>1. \A c \in Call : EffectOf(c)' = EffectOf(c)
    BY <1>2 DEF vars, dbVars, apiVars, EffectOf, Caller
  <2> QED
    BY <1>2, <2>1
       DEF vars, dbVars, apiVars, ApiInv, ApiTypeOK, ClosedOutsideDevelopment
<1> QED
  BY <1>1, <1>2 DEF Next, Idle

(* It holds throughout.                                                    *)
LEMMA ApiInvariant == Spec => []ApiInv
BY ApiInit, ApiNext, PTL DEF Spec

(* ApiTypeOK: what the API stores and answers has its type, whatever the   *)
(* clients send.                                                           *)
THEOREM ApiTypeCorrect == Spec => []ApiTypeOK
<1>1. ApiInv => ApiTypeOK
  BY DEF ApiInv
<1> QED
  BY <1>1, ApiInvariant, PTL

(* AnswersTellEffect: 201 and an account of the caller's come together,    *)
(* and any 4xx means that the call opened none.                            *)
THEOREM EffectsAreTold == Spec => []AnswersTellEffect
<1>1. ApiInv => AnswersTellEffect
  BY DEF ApiInv, EffectOf, AnswersTellEffect
<1> QED
  BY <1>1, ApiInvariant, PTL

(* ClosedOutsideDevelopment: without JWT validation, get_current_user lets *)
(* nobody past but in development, and what depends on it stays closed.    *)
THEOREM Closed == Spec => []ClosedOutsideDevelopment
<1>1. ApiInv => ClosedOutsideDevelopment
  BY DEF ApiInv
<1> QED
  BY <1>1, ApiInvariant, PTL

-----------------------------------------------------------------------------
(* What GET answers the user to whom 201 was reported.                     *)
LEMMA ReadAnswer ==
    ASSUME ApiInv, NEW c \in Call, NEW d \in Call, Handle(d),
           response[c].status = 201,
           request[d].route = "get_account", request[d].target = c,
           request[d].form = "valid", Caller(d) = Caller(c), stage'[d] = "answered"
    PROVE  \/ response'[d].status = 500
           \/ response'[d] = [status |-> 200, balance |-> response[c].balance]
<1>1. /\ c \in opened /\ owner[c] = Caller(d) /\ Caller(d) # Nobody
      /\ balance[c] = response[c].balance /\ balance[c] \in Nat
  BY DEF ApiInv, EffectOf, ApiTypeOK
<1>2. Authenticated(d)
  BY <1>1 DEF Authenticated
<1>3. CASE GetAccount(d)
  <2>1. Respond(d, 200, balance[c])
    BY <1>1, <1>3 DEF GetAccount, CanAccess
  <2>2. 200 \in Answers
    BY DEF Answers
  <2> QED
    BY <1>1, <2>1, <2>2, RespondFacts
<1>4. CASE ServiceFails(d)
  <2>1. Respond(d, 500, 0) /\ 500 \in Answers
    BY <1>4 DEF ServiceFails, Refuse, Answers
  <2>2. response'[d] = [status |-> 500, balance |-> 0]
    BY <2>1, RespondFacts
  <2> QED
    BY <2>2
<1>5. CASE Crash(d)
  BY <1>5 DEF Crash, ApiInv, ApiTypeOK
<1> QED
  BY <1>2, <1>3, <1>4, <1>5
     DEF Handle, Unparsable, Unauthenticated, Invalid, PostAccount,
         PostAccountOutOfRange, PostAccountUnacknowledged, CrashAfterCommit,
         GetTransaction, PostTransfer, DevToken, Accepted

(* A step that handles one call answers no other.                          *)
LEMMA OthersWait ==
    ASSUME ApiInv, NEW e \in Call, Handle(e), NEW d \in Call, d # e
    PROVE  stage'[d] = stage[d]
<1>1. stage' \in {[stage EXCEPT ![e] = "answered"], [stage EXCEPT ![e] = "lost"]}
  BY DEF Handle, Unparsable, Unauthenticated, Invalid, PostAccount,
         PostAccountOutOfRange, PostAccountUnacknowledged, CrashAfterCommit,
         GetAccount, GetTransaction, PostTransfer, DevToken, ServiceFails, Crash,
         Refuse, Respond
<1>2. stage \in [Call -> {"sent", "answered", "lost"}]
  BY DEF ApiInv, ApiTypeOK
<1> QED
  BY <1>1, <1>2

(* ReadYourAccount: the user who was told 201 is never told 403 or 404 of  *)
(* that account, nor another balance.                                      *)
THEOREM ReadYourWrites == Spec => ReadYourAccount
<1> DEFINE Reads ==
      \A c, d \in Call :
          /\ response[c].status = 201
          /\ request[d].route = "get_account" /\ request[d].target = c
          /\ request[d].form = "valid"
          /\ Caller(d) = Caller(c)
          /\ stage[d] = "sent" /\ stage'[d] = "answered"
          => \/ response'[d].status = 500
             \/ response'[d] = [status |-> 200, balance |-> response[c].balance]
<1>1. ApiInv /\ [Next]_vars => [Reads]_vars
  <2> SUFFICES ASSUME ApiInv, Next PROVE Reads
    BY DEF Idle
  <2> SUFFICES ASSUME NEW c \in Call, NEW d \in Call, response[c].status = 201,
                      request[d].route = "get_account", request[d].target = c,
                      request[d].form = "valid", Caller(d) = Caller(c),
                      stage[d] = "sent", stage'[d] = "answered"
               PROVE  \/ response'[d].status = 500
                      \/ response'[d] = [status |-> 200,
                                         balance |-> response[c].balance]
    BY DEF Reads
  <2>1. stage' # stage
    OBVIOUS
  <2>2. PICK e \in Call : Handle(e)
    BY <2>1 DEF Next, Idle, vars, apiVars
  <2>3. e = d
    BY <2>2, OthersWait
  <2> QED
    BY <2>2, <2>3, ReadAnswer
<1> QED
  BY <1>1, ApiInvariant, PTL DEF Spec, ReadYourAccount, Reads
=============================================================================
