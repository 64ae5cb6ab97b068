------------------------------- MODULE HttpApi -------------------------------
(***************************************************************************)
(* The HTTP adapter: the routes of accounts, transactions and auth, with   *)
(* get_current_user and the exception handlers, over the account service.  *)
(* Calls are handled concurrently.  Every handler reaches the database in  *)
(* one statement or one COMMIT at the most, and is one step.               *)
(*                                                                         *)
(* A fresh account id (uuid4) is the id of the call that opens it, and the *)
(* body of that call is CurrencyOf and OpeningBalance of the account.      *)
(***************************************************************************)
EXTENDS AccountService, ExceptionHandlers

CONSTANTS
    User,             \* the user ids
    Call,             \* the HTTP calls
    ClientRequest,    \* the requests a client may make
    ExistingAccount,  \* the accounts that exist from the start
    ExistingOwner,    \* and who owns them
    PastTransfer,     \* the rows of transactions
    Faults            \* the failures the environment may inject

Environment == {"development", "staging", "production"}

(* The handlers that depend on get_current_user, and the others.           *)
Protected == {"create_account", "get_account", "initiate_transfer"}
Route == Protected \cup {"get_transaction", "get_dev_token"}

(* The routes that take a JSON body.                                       *)
WithBody == {"create_account", "initiate_transfer", "get_dev_token"}

(* X-Dev-User-Id is a user id or not a UUID; a bearer token is "dev:" and  *)
(* a user id, or anything else.                                            *)
Credential == [header : User \cup {"absent", "malformed"},
               bearer : User \cup {"absent", "other"}]

(* What a client sends: target is the id in the path, or from_account_id;  *)
(* form, whether path and body meet their schema, or the body is not even  *)
(* JSON.                                                                   *)
HttpRequest == [route : Route, cred : Credential,
                target : AccountId \cup Request,
                form : {"valid", "invalid", "garbled"}]

Nobody == "nobody"

ASSUME HttpAssumption ==
    /\ User \cap {"absent", "malformed", "other", Nobody} = {}
    /\ ClientRequest \subseteq HttpRequest
    /\ \A q \in ClientRequest : q.form = "garbled" => q.route \in WithBody
    /\ Call \subseteq AccountId
    /\ ExistingAccount \subseteq AccountId \ Call
    /\ ExistingOwner \in [ExistingAccount -> User]
    /\ PastTransfer \subseteq TxRow
    /\ Faults \subseteq {"database", "crash"}

VARIABLES
    env,              \* app_env; never changes
    request,          \* what each call was made with; never changes
    stage,            \* where each call is: sent, answered or lost
    response,         \* the response to each call, once it is made
    owner             \* the owner_id column

apiVars == <<env, request, stage, response, owner>>
vars == <<dbVars, apiVars>>

NoResponse == [status |-> 0, balance |-> 0]

Init ==
    /\ opened = ExistingAccount
    /\ balance = [a \in AccountId |->
                    IF a \in ExistingAccount THEN Quantize(OpeningBalance[a]) ELSE 0]
    /\ owner = [a \in AccountId |->
                    IF a \in ExistingAccount THEN ExistingOwner[a] ELSE Nobody]
    /\ txs = PastTransfer
    /\ outbox = {}
    /\ rowLocks = [r \in Request |-> {}]
    /\ copy = [r \in Request |-> NoCopy]
    /\ env \in Environment
    /\ request \in [Call -> ClientRequest]
    /\ stage = [c \in Call |-> "sent"]
    /\ response = [c \in Call |-> NoResponse]

-----------------------------------------------------------------------------
(* get_current_user in development: the header, if there is one, else the  *)
(* bearer token.                                                           *)
DevUser(cred) == IF cred.header # "absent" THEN cred.header ELSE cred.bearer

(* Mutant of Caller: dev credentials are accepted in every environment.    *)
CallerAnywhere(c) ==
    LET user == DevUser(request[c].cred)
    IN  IF user \in User THEN user ELSE Nobody

(* Who makes the call; elsewhere _validate_jwt accepts nothing.            *)
Caller(c) ==
    LET user == DevUser(request[c].cred)
    IN  IF env = "development" /\ user \in User THEN user ELSE Nobody

AuthError(c) ==
    IF env = "development" /\ request[c].cred.header = "malformed" THEN 400 ELSE 401

Authenticated(c) == request[c].route \in Protected => Caller(c) # Nobody

(* The request reaches the body of its handler.                            *)
Accepted(c, route) ==
    /\ stage[c] = "sent"
    /\ request[c].route = route
    /\ Authenticated(c)
    /\ request[c].form = "valid"

Respond(c, status, funds) ==
    /\ stage' = [stage EXCEPT ![c] = "answered"]
    /\ response' = [response EXCEPT ![c] = [status |-> status, balance |-> funds]]
    /\ UNCHANGED <<env, request>>

Refuse(c, status) == Respond(c, status, 0) /\ UNCHANGED <<owner, dbVars>>

(* FastAPI reads the body before anything else.                            *)
Unparsable(c) ==
    /\ stage[c] = "sent"
    /\ request[c].form = "garbled"
    /\ Refuse(c, 422)

(* The dependencies come next, get_current_user among them.                *)
Unauthenticated(c) ==
    /\ stage[c] = "sent"
    /\ request[c].form # "garbled"
    /\ ~Authenticated(c)
    /\ Refuse(c, AuthError(c))

(* The schema is checked last.                                             *)
Invalid(c) ==
    /\ stage[c] = "sent"
    /\ Authenticated(c)
    /\ request[c].form = "invalid"
    /\ Refuse(c, 422)

-----------------------------------------------------------------------------
(* Mutant of OpenAccount: owner_id is not taken from the credentials.      *)
OpenUnowned(c) == CreateAccount(c) /\ UNCHANGED owner

(* Mutant of OpenAccount: owner_id is taken from the header alone.         *)
OpenForHeader(c) ==
    CreateAccount(c) /\ owner' = [owner EXCEPT ![c] = request[c].cred.header]

(* AccountService.create for the caller.                                   *)
OpenAccount(c) == CreateAccount(c) /\ owner' = [owner EXCEPT ![c] = Caller(c)]

(* Mutant of PostAccount: it answers with the body's balance, unrounded.   *)
PostAccountEcho(c) ==
    /\ Accepted(c, "create_account")
    /\ OpenAccount(c)
    /\ Respond(c, 201, OpeningBalance[c])

PostAccount(c) ==
    /\ Accepted(c, "create_account")
    /\ OpenAccount(c)
    /\ Respond(c, 201, Quantize(OpeningBalance[c]))

(* The schema bounds initial_balance from below only.                      *)
PostAccountOutOfRange(c) ==
    /\ Accepted(c, "create_account")
    /\ ~Fits(Quantize(OpeningBalance[c]))
    /\ Refuse(c, 500)

(* The COMMIT is carried out but its reply is lost, or the process dies    *)
(* before it answers.                                                      *)
PostAccountUnacknowledged(c) ==
    /\ "database" \in Faults
    /\ Accepted(c, "create_account")
    /\ OpenAccount(c)
    /\ Respond(c, 500, 0)

CrashAfterCommit(c) ==
    /\ "crash" \in Faults
    /\ Accepted(c, "create_account")
    /\ OpenAccount(c)
    /\ stage' = [stage EXCEPT ![c] = "lost"]
    /\ UNCHANGED <<env, request, response>>

(* can_access_account; every user's only role is "user".                   *)
CanAccess(c, a) == owner[a] = Caller(c)

GetAccount(c) ==
    LET a == request[c].target
    IN  /\ Accepted(c, "get_account")
        /\ \/ a \notin opened /\ Refuse(c, StatusCode("ResourceNotFoundError"))
           \/ a \in opened /\ ~CanAccess(c, a) /\ Refuse(c, 403)
           \/ /\ a \in opened /\ CanAccess(c, a)
              /\ Respond(c, 200, balance[a])
              /\ UNCHANGED <<owner, dbVars>>

GetTransaction(c) ==
    /\ Accepted(c, "get_transaction")
    /\ Refuse(c, IF \E t \in txs : t.id = request[c].target
                   THEN 200 ELSE StatusCode("ResourceNotFoundError"))

(* _get_account_or_403 takes two arguments and is called with three: the   *)
(* TypeError leaves the handler before any account is looked up.           *)
PostTransfer(c) ==
    /\ Accepted(c, "initiate_transfer")
    /\ Refuse(c, 500)

DevToken(c) ==
    /\ Accepted(c, "get_dev_token")
    /\ Refuse(c, IF env = "production" THEN 403 ELSE 200)

(* The session fails before its COMMIT, or the random account_number is    *)
(* taken.                                                                  *)
ServiceFails(c) ==
    /\ "database" \in Faults
    /\ \E route \in {"create_account", "get_account", "get_transaction"} :
          Accepted(c, route)
    /\ Refuse(c, 500)

(* The process dies before the handler has done anything.                  *)
Crash(c) ==
    /\ "crash" \in Faults
    /\ stage[c] = "sent"
    /\ stage' = [stage EXCEPT ![c] = "lost"]
    /\ UNCHANGED <<env, request, response, owner, dbVars>>

Handle(c) ==
    \/ Unparsable(c)
    \/ Unauthenticated(c)
    \/ Invalid(c)
    \/ PostAccount(c)
    \/ PostAccountOutOfRange(c)
    \/ PostAccountUnacknowledged(c)
    \/ CrashAfterCommit(c)
    \/ GetAccount(c)
    \/ GetTransaction(c)
    \/ PostTransfer(c)
    \/ DevToken(c)
    \/ ServiceFails(c)
    \/ Crash(c)

Idle == (\A c \in Call : stage[c] # "sent") /\ UNCHANGED vars

Next == (\E c \in Call : Handle(c)) \/ Idle

Spec == Init /\ [][Next]_vars

-----------------------------------------------------------------------------
(* Every variable the API adds or changes has values of its type.          *)
ApiTypeOK ==
    /\ opened \subseteq AccountId
    /\ balance \in [AccountId -> Nat]
    /\ owner \in [AccountId -> User \cup {Nobody}]
    /\ env \in Environment
    /\ request \in [Call -> ClientRequest]
    /\ stage \in [Call -> {"sent", "answered", "lost"}]
    /\ response \in [Call -> [status : {0, 200, 201, 400, 401, 403, 404, 422, 500},
                              balance : Nat]]

(***************************************************************************)
(* What a call to POST /accounts leaves behind can be read off its         *)
(* response: 201, one account of the caller's, with the balance that the   *)
(* response shows; any 4xx, none.  Only a 500 or a missing answer leaves   *)
(* it open, and as there is no idempotency key, a client that then asks    *)
(* again may get a second account.  No other call opens one.               *)
(***************************************************************************)
AnswersTellEffect ==
    \A c \in Call :
        LET status == response[c].status
        IN  /\ c \in opened =>
                 /\ request[c].route = "create_account" /\ owner[c] = Caller(c)
                 /\ status \in {201, 500} \/ stage[c] = "lost"
            /\ status = 201 =>
                 c \in opened /\ balance[c] = response[c].balance

(* Of an account that its owner was told of, by 201, every later GET of    *)
(* the same user tells the same; it never says 403 or 404, whichever of    *)
(* the two dev credentials is used (routers/accounts.py: "users can only   *)
(* retrieve their own accounts").                                          *)
ReadYourAccount ==
    [][\A c, d \in Call :
          /\ response[c].status = 201
          /\ request[d].route = "get_account" /\ request[d].target = c
          /\ request[d].form = "valid"
          /\ Caller(d) = Caller(c)
          /\ stage[d] = "sent" /\ stage'[d] = "answered"
          => \/ response'[d].status = 500
             \/ response'[d] = [status |-> 200, balance |-> response[c].balance]]_vars

(* Outside development no credential gets past get_current_user, as there  *)
(* is no JWT validation yet (_validate_jwt): no account is opened, and the *)
(* three handlers that depend on it answer 401 whatever they are sent, dev *)
(* tokens of get_dev_token included, and 422 if the body is not JSON.  The *)
(* two handlers that do not depend on it are open: see below.              *)
ClosedOutsideDevelopment ==
    env # "development" =>
        /\ opened = ExistingAccount
        /\ \A c \in Call :
              request[c].route \in Protected =>
                 response[c].status \in
                    IF request[c].form = "garbled" THEN {0, 422} ELSE {0, 401}

-----------------------------------------------------------------------------
(* A valid request to transfer from an account the caller owns gets past   *)
(* the ownership check to the service (POST /transfer: "The service        *)
(* validates balance and business rules after this check").                *)
TransferReachesService ==
    \A c \in Call :
        LET a == request[c].target
        IN  /\ request[c].route = "initiate_transfer"
            /\ request[c].form = "valid"
            /\ a \in opened /\ owner[a] = Caller(c)
            => response[c].status # 500

(* Whoever is shown a transaction is a user (GET /transactions/{id}:       *)
(* "authenticated users can view their transactions").  The handler does   *)
(* not depend on get_current_user.                                         *)
TransactionsNeedUser ==
    \A c \in Call :
        request[c].route = "get_transaction" /\ response[c].status = 200
            => Caller(c) # Nobody

(* A dev token is handed out in development alone (POST /auth/dev-token:   *)
(* "This endpoint ONLY works when ENV=development").  The handler refuses  *)
(* in production alone.                                                    *)
DevTokenOnlyInDevelopment ==
    \A c \in Call :
        request[c].route = "get_dev_token" /\ response[c].status = 200
            => env = "development"
=============================================================================
