------------------------------- MODULE AiCredits -------------------------------
(***************************************************************************)
(* One workspace's AI credits (ai_credits.py) under concurrent requests.    *)
(*                                                                          *)
(* A request is one READ COMMITTED transaction that stays open during the   *)
(* model call: the account row it has updated stays locked until it         *)
(* answers, and a request that fails is rolled back with its charge.        *)
(***************************************************************************)
EXTENDS Integers

CONSTANTS Payers,         \* requests that may be open at once
          Costs,          \* what a model call may cost
          Allowances, DefaultAllowance,
          Grants,         \* what an owner may add
          MaxMonth, MaxPays   \* bounds

ASSUME CreditsAssumption ==
    /\ Costs \subseteq Nat \ {0} /\ Grants \subseteq Nat
    /\ DefaultAllowance \in Allowances /\ Allowances \subseteq Nat
    /\ MaxMonth \in Nat \ {0} /\ MaxPays \in Nat

VARIABLES
    month,       \* the current month
    acct,        \* the committed account: balance, allowance, period (0: no row)
    ledger,      \* sum of the committed events
    payStep,     \* per request: its next step
    row,         \* per request: the account as its session knows it
    held,        \* per request: the row it has written, not committed
    logged,      \* per request: sum of the events it has written
    cost,        \* per request: what its model call costs (0: none, a grant)
    pays,
    raced        \* a refill has overwritten a row that changed since it was read

payRequests == <<payStep, row, held, logged, cost>>
creditVars == <<month, acct, ledger, payRequests, pays, raced>>

Account == [balance : Int, allowance : Nat, period : 0..MaxMonth]
NoAccount == [balance |-> 0, allowance |-> 0, period |-> 0]
PayStep == {"rest", "create", "refill", "take", "grant", "answer"}

CreditTypeOK ==
    /\ month \in 1..MaxMonth /\ acct \in Account /\ ledger \in Int
    /\ payStep \in [Payers -> PayStep]
    /\ row \in [Payers -> Account] /\ held \in [Payers -> Account]
    /\ logged \in [Payers -> Int] /\ cost \in [Payers -> Costs \cup {0}]
    /\ pays \in 0..MaxPays /\ raced \in BOOLEAN

--------------------------------------------------------------------------------

\* The row's lock is free, or this request's own.
Unlocked(p) == \A q \in Payers \ {p} : held[q] = NoAccount

\* The row an UPDATE of this request works on.
Current(p) == IF held[p] # NoAccount THEN held[p] ELSE acct

AfterAccount(p) == IF cost[p] = 0 THEN "grant" ELSE "take"
PayTo(p, step) == payStep' = [payStep EXCEPT ![p] = step]

\* A flushed row: locked, known to the session, with its event.
Write(p, r, event) ==
    /\ held' = [held EXCEPT ![p] = r]
    /\ row' = [row EXCEPT ![p] = r]
    /\ logged' = [logged EXCEPT ![p] = @ + event]

EndPay(p) ==
    /\ PayTo(p, "rest")
    /\ row' = [row EXCEPT ![p] = NoAccount]
    /\ held' = [held EXCEPT ![p] = NoAccount]
    /\ logged' = [logged EXCEPT ![p] = 0]
    /\ cost' = [cost EXCEPT ![p] = 0]

\* What account() does with the row it has read.
AccountStep(p, r) ==
    IF r.period = 0 THEN "create" ELSE IF r.period # month THEN "refill" ELSE IF cost'[p] = 0 THEN "grant" ELSE "take"

--------------------------------------------------------------------------------

\* A request reads the account.
OpenPay(p) ==
    /\ payStep[p] = "rest" /\ pays < MaxPays
    /\ pays' = pays + 1
    /\ \E c \in Costs \cup {0} : cost' = [cost EXCEPT ![p] = c]
    /\ row' = [row EXCEPT ![p] = acct]
    /\ PayTo(p, AccountStep(p, acct))
    /\ UNCHANGED <<month, acct, ledger, held, logged, raced>>

\* The account is created with the default allowance, unless another request has
\* committed it meanwhile.
CreateAccount(p) ==
    /\ payStep[p] = "create" /\ Unlocked(p)
    /\ IF acct = NoAccount
       THEN Write(p, [balance |-> DefaultAllowance, allowance |-> DefaultAllowance, period |-> month],
                  DefaultAllowance)
       ELSE row' = [row EXCEPT ![p] = acct] /\ UNCHANGED <<held, logged>>
    /\ PayTo(p, AfterAccount(p))
    /\ UNCHANGED <<month, acct, ledger, cost, pays, raced>>

\* The month's refill, when the account is read first or asked for its balance at
\* the end (a rewrite of slides does not ask): the balance is computed from the
\* row as the session knows it and written unconditionally.
RefillLogging(p, event) ==
    LET topped == IF row[p].balance >= row[p].allowance THEN row[p].balance ELSE row[p].allowance IN
    /\ \/ payStep[p] = "refill" /\ PayTo(p, AfterAccount(p))
       \/ payStep[p] = "answer" /\ row[p].period \notin {0, month} /\ UNCHANGED payStep
    /\ Unlocked(p)
    /\ Write(p, [balance |-> topped, allowance |-> Current(p).allowance, period |-> month], event)
    /\ raced' = (raced \/ Current(p) # row[p])
    /\ UNCHANGED <<month, acct, ledger, cost, pays>>

\* Mutant of Refill: the whole allowance is recorded.
RefillWhole(p) == RefillLogging(p, row[p].allowance)
Refill(p) == RefillLogging(p,
    IF row[p].balance >= row[p].allowance THEN 0 ELSE row[p].allowance - row[p].balance)

\* charge: one conditional UPDATE, or 402.
TakeIf(p, enough) ==
    /\ payStep[p] = "take" /\ Unlocked(p)
    /\ IF enough
       THEN /\ Write(p, [Current(p) EXCEPT !.balance = @ - cost[p]], -cost[p])
            /\ PayTo(p, "answer") /\ UNCHANGED cost
       ELSE EndPay(p)
    /\ UNCHANGED <<month, acct, ledger, pays, raced>>

\* Mutant of Take: the balance is compared as it was read.
TakeFromRead(p) == TakeIf(p, row[p].balance >= cost[p])
Take(p) == TakeIf(p, Current(p).balance >= cost[p])

\* The request's work is done: what it has written is committed.
CommitPay(p) ==
    /\ payStep[p] = "answer"
    /\ acct' = Current(p) /\ ledger' = ledger + logged[p]
    /\ EndPay(p)
    /\ UNCHANGED <<month, pays, raced>>

\* The model or the request fails: everything is rolled back.
FailPay(p) ==
    /\ payStep[p] = "answer"
    /\ EndPay(p)
    /\ UNCHANGED <<month, acct, ledger, pays, raced>>

\* grant: an owner adds credits or sets the allowance; a mere look at the account
\* does neither.
Grant(p) ==
    /\ payStep[p] = "grant" /\ Unlocked(p)
    /\ \E g \in Grants, a \in Allowances \cup {Current(p).allowance} :
          IF g = 0 /\ a = Current(p).allowance THEN UNCHANGED <<held, row, logged>>
          ELSE Write(p, [balance |-> Current(p).balance + g, allowance |-> a, period |-> Current(p).period], g)
    /\ PayTo(p, "answer")
    /\ UNCHANGED <<month, acct, ledger, cost, pays, raced>>

MonthPasses ==
    /\ month < MaxMonth
    /\ month' = month + 1
    /\ UNCHANGED <<acct, ledger, payRequests, pays, raced>>

CreditInit ==
    /\ month = 1 /\ acct = NoAccount /\ ledger = 0
    /\ payStep = [p \in Payers |-> "rest"]
    /\ row = [p \in Payers |-> NoAccount] /\ held = [p \in Payers |-> NoAccount]
    /\ logged = [p \in Payers |-> 0] /\ cost = [p \in Payers |-> 0]
    /\ pays = 0 /\ raced = FALSE

CreditNext ==
    \/ \E p \in Payers : \/ OpenPay(p) \/ CreateAccount(p) \/ Refill(p) \/ Take(p)
                         \/ Grant(p) \/ CommitPay(p) \/ FailPay(p)
    \/ MonthPasses

--------------------------------------------------------------------------------
(* Properties *)

\* "Concurrent requests can never overspend": no request is served from credits
\* another one has taken, even while both are open.
NeverOverdrawn == acct.balance >= 0 /\ \A p \in Payers : held[p].balance >= 0

\* The ledger explains the balance: failed calls, races for the first row and
\* changes of month leave no credit without its event.  Only a refill computed
\* from a row that has changed since it was read breaks it.
LedgerExplains == ~raced => acct.balance = ledger
================================================================================
