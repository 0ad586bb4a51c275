------------------------------ MODULE KeptProofs -------------------------------
(***************************************************************************)
(* Why limits hold, keys stay where they belong, wishes count, faces are the *)
(* agents' own and what is past stays as it was, for every value of the      *)
(* constants: inductive invariants of eight services, kept by each of their  *)
(* steps.  MCServicesProofs draws the theorems from them.                    *)
(*                                                                          *)
(* Each invariant says what a request that is open has read or decided, how *)
(* far that may be behind what is committed, and which requests are named   *)
(* as crossed; the step lemmas take the handlers one action at a time.       *)
(***************************************************************************)
EXTENDS AiCredits, DiagramShares, AiProfile, MailboxAccess, ProviderConnections, HomePilotLinks,
        AgentPortraits, SlackDrafts, TLAPS, FiniteSetTheorems

--------------------------------------------------------------------------------
(* AI credits (AiCredits) *)

\* What a request holds of the account's one row.
HoldsRow(p) ==
    /\ held[p] = NoAccount => logged[p] = 0
    /\ held[p] # NoAccount => held[p].period # 0
    /\ held[p].balance >= 0
    /\ row[p].balance >= 0
    /\ ~raced /\ held[p] # NoAccount => held[p].balance = ledger + logged[p]
    /\ payStep[p] \in {"refill", "take", "grant", "answer"} => acct.period # 0 \/ held[p] # NoAccount
    /\ payStep[p] \in {"rest", "create"} => held[p] = NoAccount

\* The inductive invariant: one request at most has written the row, and what it has
\* logged is what it has changed.
CreditInv ==
    /\ CreditTypeOK
    /\ acct.balance >= 0
    /\ acct.period = 0 => acct = NoAccount
    /\ ~raced => acct.balance = ledger
    /\ \A p \in Payers : HoldsRow(p)
    /\ \A p, q \in Payers : p # q => held[p] = NoAccount \/ held[q] = NoAccount

LEMMA NoneIsAccount == NoAccount \in Account /\ NoAccount.balance = 0 /\ NoAccount.period = 0
<1>1. 0 \in 0..MaxMonth /\ 0 \in Int /\ 0 \in Nat
  BY CreditsAssumption
<1>. QED
  BY <1>1 DEF NoAccount, Account

LEMMA CreditInitInv == CreditInit => CreditInv
<1> SUFFICES ASSUME CreditInit PROVE CreditInv
  OBVIOUS
<1>1. month \in 1..MaxMonth /\ pays \in 0..MaxPays
  BY CreditsAssumption DEF CreditInit
<1>2a. row \in [Payers -> Account] /\ held \in [Payers -> Account] /\ acct \in Account
  BY NoneIsAccount DEF CreditInit
<1>2b. logged \in [Payers -> Int] /\ cost \in [Payers -> Costs \cup {0}] /\ ledger \in Int
  BY DEF CreditInit
<1>2c. payStep \in [Payers -> PayStep] /\ raced \in BOOLEAN
  BY DEF CreditInit, PayStep
<1>2. CreditTypeOK
  BY <1>1, <1>2a, <1>2b, <1>2c DEF CreditTypeOK
<1>3. \A p \in Payers : payStep[p] = "rest" /\ held[p] = NoAccount /\ row[p] = NoAccount /\ logged[p] = 0
  BY DEF CreditInit
<1>. QED
  BY <1>2, <1>3, NoneIsAccount DEF CreditInit, CreditInv, HoldsRow

LEMMA CreditStutters == CreditInv /\ UNCHANGED creditVars => CreditInv'
BY DEF CreditInv, creditVars, payRequests, CreditTypeOK, HoldsRow

LEMMA HoldsAccount == ASSUME CreditInv, NEW p \in Payers PROVE Current(p) \in Account /\ NoAccount \in Account
BY NoneIsAccount DEF CreditInv, CreditTypeOK, Current

LEMMA AccountFields == ASSUME NEW c \in Account
    PROVE c.balance \in Int /\ c.allowance \in Nat /\ c.period \in 0..MaxMonth
BY DEF Account

LEMMA BalanceChanged == ASSUME NEW c \in Account, NEW b \in Int
    PROVE [c EXCEPT !.balance = b] = [balance |-> b, allowance |-> c.allowance, period |-> c.period]
BY DEF Account

LEMMA CostsCount == ASSUME NEW c \in Costs \cup {0} PROVE c \in Nat
BY CreditsAssumption

LEMMA AccountMade == ASSUME NEW b \in Int, NEW a \in Nat, NEW m \in 1..MaxMonth
    PROVE [balance |-> b, allowance |-> a, period |-> m] \in Account
BY CreditsAssumption DEF Account

LEMMA TypeOfSteps ==
    ASSUME CreditTypeOK, NEW p \in Payers, NEW s \in PayStep, payStep' = [payStep EXCEPT ![p] = s]
    PROVE payStep' \in [Payers -> PayStep]
BY DEF CreditTypeOK

LEMMA OpenPayKeeps == ASSUME CreditInv, NEW p \in Payers, OpenPay(p) PROVE CreditInv'
<1>1. AccountStep(p, acct) \in {"create", "refill", "grant", "take"}
  BY DEF AccountStep
<1>2. payStep' \in [Payers -> PayStep] /\ payStep[p] = "rest"
  BY <1>1, TypeOfSteps DEF OpenPay, CreditInv, PayTo, PayStep
<1> PICK c \in Costs \cup {0} : cost' = [cost EXCEPT ![p] = c]
  BY DEF OpenPay
<1>3a. cost' \in [Payers -> Costs \cup {0}] /\ pays' \in 0..MaxPays /\ row' \in [Payers -> Account]
  BY CreditsAssumption DEF OpenPay, CreditInv, CreditTypeOK
<1>3. CreditTypeOK'
  BY <1>2, <1>3a DEF OpenPay, CreditInv, CreditTypeOK
<1>4. AccountStep(p, acct) \in {"refill", "grant", "take"} => acct.period # 0
  BY DEF AccountStep
<1>5. HoldsRow(p)'
  <2>1. payStep'[p] = AccountStep(p, acct) /\ row'[p] = acct
    BY DEF OpenPay, PayTo, CreditInv, CreditTypeOK
  <2>. QED
    BY <1>1, <1>4, <1>2, <2>1 DEF OpenPay, HoldsRow, CreditInv, CreditTypeOK
<1>6. ASSUME NEW q \in Payers, q # p PROVE HoldsRow(q)'
  <2>1. payStep'[q] = payStep[q] /\ row'[q] = row[q]
    BY <1>6 DEF OpenPay, PayTo, CreditInv, CreditTypeOK
  <2>. QED
    BY <2>1 DEF OpenPay, HoldsRow, CreditInv
<1>. QED
  BY <1>3, <1>5, <1>6 DEF CreditInv, OpenPay

\* A step that writes the row of request p.
LEMMA CreditWriteKeeps ==
    ASSUME CreditInv, NEW p \in Payers, NEW r \in Account, NEW e \in Int, Write(p, r, e), Unlocked(p),
           CreditTypeOK', acct' = acct, ledger' = ledger,
           r.balance >= 0, r.period # 0, payStep'[p] \in {"refill", "take", "grant", "answer"},
           \A q \in Payers \ {p} : payStep'[q] = payStep[q],
           raced => raced',
           ~raced' => r.balance = ledger + logged[p] + e
    PROVE CreditInv'
<1>1. /\ held'[p] = r /\ row'[p] = r /\ logged'[p] = logged[p] + e
      /\ \A q \in Payers \ {p} : held'[q] = held[q] /\ row'[q] = row[q] /\ logged'[q] = logged[q]
  BY DEF Write, CreditInv, CreditTypeOK
<1>2. r # NoAccount
  BY DEF NoAccount
<1>3. logged[p] \in Int /\ ledger \in Int /\ r.balance \in Int
  BY DEF CreditInv, CreditTypeOK, Account
<1>4. HoldsRow(p)'
  BY <1>1, <1>2, <1>3 DEF HoldsRow
<1>5. ASSUME NEW q \in Payers, q # p PROVE HoldsRow(q)'
  BY <1>1, <1>5 DEF HoldsRow, CreditInv
<1>6. \A o, q \in Payers : o # q => held'[o] = NoAccount \/ held'[q] = NoAccount
  BY <1>1 DEF Unlocked
<1>. QED
  BY <1>4, <1>5, <1>6 DEF CreditInv

LEMMA WriteTypes ==
    ASSUME CreditTypeOK, NEW p \in Payers, NEW r \in Account, NEW e \in Int, Write(p, r, e)
    PROVE held' \in [Payers -> Account] /\ row' \in [Payers -> Account] /\ logged' \in [Payers -> Int]
BY DEF Write, CreditTypeOK

LEMMA CreditCreateKeeps == ASSUME CreditInv, NEW p \in Payers, CreateAccount(p) PROVE CreditInv'
<1>1. AfterAccount(p) \in {"grant", "take"} /\ AfterAccount(p) \in PayStep
  BY DEF AfterAccount, PayStep
<1>2. payStep' \in [Payers -> PayStep] /\ payStep[p] = "create" /\ payStep'[p] = AfterAccount(p)
      /\ \A q \in Payers \ {p} : payStep'[q] = payStep[q]
  BY <1>1, TypeOfSteps DEF CreateAccount, CreditInv, PayTo, CreditTypeOK
<1>3. held[p] = NoAccount /\ logged[p] = 0
  BY <1>2 DEF CreditInv, HoldsRow
<1>4. CASE acct = NoAccount
  <2> DEFINE r == [balance |-> DefaultAllowance, allowance |-> DefaultAllowance, period |-> month]
  <2>1. r \in Account /\ DefaultAllowance \in Nat /\ r.balance = DefaultAllowance /\ r.period = month
    BY AccountMade, CreditsAssumption DEF CreditInv, CreditTypeOK
  <2>2. Write(p, r, DefaultAllowance) /\ Unlocked(p)
    BY <1>4 DEF CreateAccount
  <2>3. ledger = 0 \/ raced
    BY <1>4 DEF CreditInv, NoAccount
  <2>4. CreditTypeOK'
    BY <1>2, <2>1, <2>2, WriteTypes, CreditsAssumption DEF CreateAccount, CreditInv, CreditTypeOK
  <2>5. r.period # 0 /\ r.balance >= 0
    BY <2>1 DEF CreditInv, CreditTypeOK
  <2> HIDE DEF r
  <2>. QED
    BY <1>1, <1>2, <1>3, <2>1, <2>2, <2>3, <2>4, <2>5, CreditWriteKeeps DEF CreateAccount
<1>5. CASE acct # NoAccount
  <2>1. row' = [row EXCEPT ![p] = acct] /\ UNCHANGED <<held, logged, month, acct, ledger, cost, pays, raced>>
    BY <1>5 DEF CreateAccount
  <2>2. CreditTypeOK'
    BY <1>2, <2>1 DEF CreditInv, CreditTypeOK
  <2>3. \A q \in Payers : HoldsRow(q)'
    BY <1>1, <1>2, <1>3, <1>5, <2>1 DEF CreditInv, CreditTypeOK, HoldsRow
  <2>. QED
    BY <2>1, <2>2, <2>3 DEF CreditInv
<1>. QED
  BY <1>4, <1>5

LEMMA RefillKeeps == ASSUME CreditInv, NEW p \in Payers, Refill(p) PROVE CreditInv'
<1> DEFINE topped == IF row[p].balance >= row[p].allowance THEN row[p].balance ELSE row[p].allowance
           event == IF row[p].balance >= row[p].allowance THEN 0 ELSE row[p].allowance - row[p].balance
           r == [balance |-> topped, allowance |-> Current(p).allowance, period |-> month]
<1>1. row[p] \in Account /\ row[p].balance \in Int /\ row[p].allowance \in Nat /\ row[p].balance >= 0
  BY DEF CreditInv, CreditTypeOK, Account, HoldsRow
<1>2. topped \in Nat /\ event \in Int /\ topped = row[p].balance + event
  BY <1>1
<1>3. Current(p) \in Account /\ month \in 1..MaxMonth /\ Current(p).allowance \in Nat
  BY HoldsAccount DEF CreditInv, CreditTypeOK, Account
<1>5. r \in Account /\ r.balance = topped /\ r.period = month
  BY <1>2, <1>3, AccountMade
<1>6. /\ Write(p, r, event) /\ Unlocked(p) /\ raced' = (raced \/ Current(p) # row[p])
      /\ UNCHANGED <<month, acct, ledger, cost, pays>>
  BY DEF Refill, RefillLogging
<1>7. payStep' \in [Payers -> PayStep] /\ payStep'[p] \in {"grant", "take", "answer"}
      /\ \A q \in Payers \ {p} : payStep'[q] = payStep[q]
  <2>1. CASE payStep[p] = "refill" /\ PayTo(p, AfterAccount(p))
    <3>1. AfterAccount(p) \in {"grant", "take"} /\ AfterAccount(p) \in PayStep
      BY DEF AfterAccount, PayStep
    <3>. QED
      BY <2>1, <3>1, TypeOfSteps DEF PayTo, CreditInv, CreditTypeOK
  <2>2. CASE payStep[p] = "answer" /\ UNCHANGED payStep
    BY <2>2 DEF CreditInv, CreditTypeOK
  <2>. QED
    BY <2>1, <2>2 DEF Refill, RefillLogging
<1>8. raced' \in BOOLEAN
  BY <1>6
<1> HIDE DEF topped, event, r
<1>9. CreditTypeOK'
  BY <1>2, <1>5, <1>6, <1>7, <1>8, WriteTypes DEF CreditInv, CreditTypeOK
<1>10. ASSUME ~raced' PROVE r.balance = ledger + logged[p] + event
  <2>1. row[p] = Current(p) /\ ~raced
    BY <1>6, <1>10
  <2>2. Current(p).balance = ledger + logged[p]
    BY <2>1 DEF Current, CreditInv, HoldsRow, CreditTypeOK
  <2>. QED
    BY <1>2, <1>5, <2>1, <2>2
<1>. QED
  <2>1. r.balance >= 0 /\ r.period # 0 /\ payStep'[p] \in {"refill", "take", "grant", "answer"}
    BY <1>2, <1>3, <1>5, <1>7
  <2>2. raced => raced'
    BY <1>6
  <2>. QED
    BY <2>1, <2>2, <1>2, <1>5, <1>6, <1>7, <1>9, <1>10, CreditWriteKeeps

\* A request that ends leaves the row as it is committed.
LEMMA CreditEndKeeps ==
    ASSUME CreditInv, NEW p \in Payers, EndPay(p), UNCHANGED <<month, pays, raced>>,
           acct' \in Account, ledger' \in Int, acct'.balance >= 0, acct'.period = 0 => acct' = NoAccount,
           acct.period # 0 => acct'.period # 0, ~raced => acct'.balance = ledger',
           \A q \in Payers \ {p} : held[q] = NoAccount \/ ledger' = ledger
    PROVE CreditInv'
<1>1. payStep' \in [Payers -> PayStep]
  BY TypeOfSteps DEF EndPay, PayTo, PayStep, CreditInv
<1>2. NoAccount \in Account
  BY HoldsAccount
<1>3a. held' \in [Payers -> Account] /\ row' \in [Payers -> Account] /\ logged' \in [Payers -> Int]
  BY <1>2 DEF EndPay, CreditInv, CreditTypeOK
<1>3b. cost' \in [Payers -> Costs \cup {0}]
  BY DEF EndPay, CreditInv, CreditTypeOK
<1>3. CreditTypeOK'
  BY <1>1, <1>3a, <1>3b DEF EndPay, CreditInv, CreditTypeOK
<1>4. /\ payStep'[p] = "rest" /\ held'[p] = NoAccount /\ row'[p] = NoAccount /\ logged'[p] = 0
      /\ \A q \in Payers \ {p} : /\ payStep'[q] = payStep[q] /\ held'[q] = held[q] /\ row'[q] = row[q]
                                 /\ logged'[q] = logged[q]
  BY DEF EndPay, PayTo, CreditInv, CreditTypeOK
<1>5. HoldsRow(p)'
  BY <1>4 DEF HoldsRow, NoAccount
<1>6. ASSUME NEW q \in Payers, q # p PROVE HoldsRow(q)'
  BY <1>4, <1>6 DEF HoldsRow, CreditInv
<1>7. \A o, q \in Payers : o # q => held'[o] = NoAccount \/ held'[q] = NoAccount
  BY <1>4 DEF CreditInv
<1>. QED
  BY <1>3, <1>5, <1>6, <1>7 DEF CreditInv

LEMMA TakeKeeps == ASSUME CreditInv, NEW p \in Payers, Take(p) PROVE CreditInv'
<1>1. Current(p) \in Account /\ Current(p).balance \in Int /\ Current(p).allowance \in Nat /\ cost[p] \in Nat
      /\ Current(p).period \in 0..MaxMonth
  <2>1. cost[p] \in Nat
    <3>1. cost[p] \in Costs \cup {0}
      BY DEF CreditInv, CreditTypeOK
    <3>. QED
      BY <3>1, CostsCount
  <2>. QED
    BY <2>1, HoldsAccount, AccountFields
<1>2. CASE Current(p).balance >= cost[p]
  <2> DEFINE r == [Current(p) EXCEPT !.balance = @ - cost[p]]
  <2>1. payStep[p] = "take" /\ Unlocked(p) /\ Write(p, r, -cost[p]) /\ PayTo(p, "answer")
        /\ UNCHANGED <<month, acct, ledger, pays, raced, cost>>
    BY <1>2 DEF Take, TakeIf
  <2>2. r.balance = Current(p).balance - cost[p] /\ r.period = Current(p).period
        /\ r = [balance |-> Current(p).balance - cost[p], allowance |-> Current(p).allowance, period |-> Current(p).period]
    <3>1. r = [Current(p) EXCEPT !.balance = Current(p).balance - cost[p]]
      OBVIOUS
    <3>. QED
      BY <3>1, <1>1, BalanceChanged
  <2>3. Current(p).period # 0
    BY <2>1 DEF CreditInv, HoldsRow, Current
  <2>4. r \in Account
    BY <1>1, <2>2, <2>3, AccountMade
  <2> HIDE DEF r
  <2>5. payStep' \in [Payers -> PayStep] /\ payStep'[p] = "answer"
        /\ \A q \in Payers \ {p} : payStep'[q] = payStep[q]
    BY <2>1, TypeOfSteps DEF PayTo, PayStep, CreditInv, CreditTypeOK
  <2>6. CreditTypeOK'
    BY <1>1, <2>1, <2>4, <2>5, WriteTypes DEF CreditInv, CreditTypeOK
  <2>7. ASSUME ~raced' PROVE r.balance = ledger + logged[p] + (-cost[p])
    <3>1. Current(p).balance = ledger + logged[p]
      BY <2>1, <2>7 DEF Current, CreditInv, HoldsRow, CreditTypeOK
    <3>2. ledger \in Int /\ logged[p] \in Int
      BY DEF CreditInv, CreditTypeOK
    <3>. QED
      BY <1>1, <2>2, <3>1, <3>2
  <2>. QED
    BY <1>1, <1>2, <2>1, <2>2, <2>3, <2>4, <2>5, <2>6, <2>7, CreditWriteKeeps
<1>3. CASE ~(Current(p).balance >= cost[p])
  <2>1. EndPay(p) /\ UNCHANGED <<month, acct, ledger, pays, raced>>
    BY <1>3 DEF Take, TakeIf
  <2>. QED
    BY <2>1, CreditEndKeeps DEF CreditInv, CreditTypeOK
<1>. QED
  BY <1>2, <1>3

LEMMA CreditFailKeeps == ASSUME CreditInv, NEW p \in Payers, FailPay(p) PROVE CreditInv'
BY CreditEndKeeps DEF FailPay, CreditInv, CreditTypeOK

LEMMA CreditCommitKeeps == ASSUME CreditInv, NEW p \in Payers, CommitPay(p) PROVE CreditInv'
<1>1. EndPay(p) /\ acct' = Current(p) /\ ledger' = ledger + logged[p] /\ UNCHANGED <<month, pays, raced>>
  BY DEF CommitPay
<1>2. acct' \in Account /\ ledger' \in Int
  BY <1>1, HoldsAccount DEF CreditInv, CreditTypeOK
<1>3. CASE held[p] = NoAccount
  <2>1. acct' = acct /\ ledger' = ledger
    BY <1>1, <1>3 DEF Current, CreditInv, HoldsRow, CreditTypeOK
  <2>. QED
    BY <1>1, <1>2, <2>1, CreditEndKeeps DEF CreditInv
<1>4. CASE held[p] # NoAccount
  <2>1. acct' = held[p] /\ held[p].balance >= 0 /\ held[p].period # 0
    BY <1>1, <1>4 DEF Current, CreditInv, HoldsRow
  <2>2. ~raced => acct'.balance = ledger'
    BY <1>1, <1>4, <2>1 DEF CreditInv, HoldsRow
  <2>3. \A q \in Payers \ {p} : held[q] = NoAccount
    BY <1>4 DEF CreditInv
  <2>. QED
    BY <1>1, <1>2, <2>1, <2>2, <2>3, CreditEndKeeps
<1>. QED
  BY <1>3, <1>4

LEMMA GrantKeeps == ASSUME CreditInv, NEW p \in Payers, Grant(p) PROVE CreditInv'
<1>1. Current(p) \in Account /\ Current(p).balance \in Int /\ Current(p).allowance \in Nat
      /\ Current(p).period \in 0..MaxMonth /\ Current(p).balance >= 0
  BY HoldsAccount, CreditsAssumption DEF CreditInv, CreditTypeOK, Account, Current, HoldsRow
<1>2. payStep' \in [Payers -> PayStep] /\ payStep[p] = "grant" /\ payStep'[p] = "answer"
      /\ \A q \in Payers \ {p} : payStep'[q] = payStep[q]
  BY TypeOfSteps DEF Grant, PayTo, PayStep, CreditInv, CreditTypeOK
<1>3. Current(p).period # 0
  BY <1>2 DEF CreditInv, HoldsRow, Current
<1>4. PICK g \in Grants, a \in Allowances \cup {Current(p).allowance} :
          IF g = 0 /\ a = Current(p).allowance THEN UNCHANGED <<held, row, logged>>
          ELSE Write(p, [balance |-> Current(p).balance + g, allowance |-> a, period |-> Current(p).period], g)
  BY DEF Grant
<1>5. UNCHANGED <<month, acct, ledger, cost, pays, raced>> /\ Unlocked(p)
  BY DEF Grant
<1>6. CASE UNCHANGED <<held, row, logged>>
  <2>1. CreditTypeOK'
    BY <1>2, <1>5, <1>6 DEF CreditInv, CreditTypeOK
  <2>2. \A q \in Payers : HoldsRow(q)'
    BY <1>2, <1>5, <1>6 DEF CreditInv, HoldsRow
  <2>. QED
    BY <1>5, <1>6, <2>1, <2>2 DEF CreditInv
<1>7. CASE Write(p, [balance |-> Current(p).balance + g, allowance |-> a, period |-> Current(p).period], g)
  <2> DEFINE r == [balance |-> Current(p).balance + g, allowance |-> a, period |-> Current(p).period]
  <2>1. g \in Nat /\ a \in Nat
    BY <1>1, CreditsAssumption
  <2>2. r.balance = Current(p).balance + g /\ r.period = Current(p).period
    OBVIOUS
  <2>3. r \in Account
    BY <1>1, <1>3, <2>1, <2>2, AccountMade
  <2>4. Write(p, r, g)
    BY <1>7
  <2> HIDE DEF r
  <2>5. CreditTypeOK'
    BY <1>2, <1>5, <2>1, <2>3, <2>4, WriteTypes DEF CreditInv, CreditTypeOK
  <2>6. ASSUME ~raced' PROVE r.balance = ledger + logged[p] + g
    <3>1. Current(p).balance = ledger + logged[p]
      BY <1>5, <2>6 DEF Current, CreditInv, HoldsRow, CreditTypeOK
    <3>. QED
      BY <2>2, <3>1
  <2>. QED
    BY <1>1, <1>2, <1>3, <1>5, <2>1, <2>2, <2>3, <2>4, <2>5, <2>6, CreditWriteKeeps
<1>. QED
  BY <1>4, <1>6, <1>7

LEMMA CreditStepInv == CreditInv /\ CreditNext => CreditInv'
<1> SUFFICES ASSUME CreditInv, CreditNext PROVE CreditInv'
  OBVIOUS
<1>1. CASE MonthPasses
  <2>1. month \in 1..MaxMonth /\ month' = month + 1 /\ month < MaxMonth
    BY <1>1 DEF MonthPasses, CreditInv, CreditTypeOK
  <2>2. month' \in 1..MaxMonth
    BY <2>1, CreditsAssumption
  <2>. QED
    BY <1>1, <2>2 DEF MonthPasses, CreditInv, CreditTypeOK, HoldsRow, payRequests
<1>2. ASSUME NEW p \in Payers, OpenPay(p) \/ CreateAccount(p) \/ Refill(p) \/ Take(p)
                         \/ Grant(p) \/ CommitPay(p) \/ FailPay(p) PROVE CreditInv'
  BY <1>2, OpenPayKeeps, CreditCreateKeeps, RefillKeeps, TakeKeeps, GrantKeeps, CreditCommitKeeps, CreditFailKeeps
<1>. QED
  BY <1>1, <1>2 DEF CreditNext

\* No request is served from credits another has taken, and the ledger explains the balance.
LEMMA CreditsHold == CreditInv => NeverOverdrawn /\ LedgerExplains
BY DEF CreditInv, HoldsRow, NeverOverdrawn, LedgerExplains

--------------------------------------------------------------------------------
(* Links of a diagram (DiagramShares) *)

LinkRow == [revision : Nat, expires : Nat, revoked : BOOLEAN]
ActiveLinks == {l \in Links : ActiveAt(l, clock)}
OpenCreates == {q \in Sharers : sharing[q].kind = "create"}

\* The inductive invariant: the links that are active and those that are asked for.
ShareInv ==
    /\ clock \in Nat /\ links \in [Links -> LinkRow] /\ head \in Nat
    /\ DOMAIN sharing = Sharers
    /\ \A q \in Sharers :
          /\ sharing[q].kind = "create" => sharing[q].hours \in Nat /\ sharing[q].revision \in Nat
          /\ sharing[q].kind = "save" => sharing[q].revision \in Nat
    /\ Cardinality(ActiveLinks) + Cardinality(OpenCreates) <= MAX_ACTIVE_PER_DIAGRAM - 1 + Cardinality(Sharers)

LEMMA FinitelyShared ==
    /\ MAX_ACTIVE_PER_DIAGRAM \in Nat \ {0} /\ MaxHours \in Nat /\ MaxSaves \in Nat
    /\ IsFiniteSet(Sharers) /\ Cardinality(Sharers) \in Nat
    /\ IsFiniteSet(ActiveLinks) /\ Cardinality(ActiveLinks) \in Nat
    /\ IsFiniteSet(OpenCreates) /\ Cardinality(OpenCreates) \in Nat /\ Cardinality(OpenCreates) <= Cardinality(Sharers)
<1>1. ActiveLinks \subseteq Links /\ OpenCreates \subseteq Sharers
  BY DEF ActiveLinks, OpenCreates
<1>2. /\ MAX_ACTIVE_PER_DIAGRAM \in Nat \ {0} /\ MaxHours \in Nat /\ MaxSaves \in Nat
      /\ IsFiniteSet(Sharers) /\ IsFiniteSet(Links)
  BY ShareAssumption
<1>3. IsFiniteSet(ActiveLinks)
  BY <1>1, <1>2, FS_Subset
<1>4. IsFiniteSet(OpenCreates) /\ Cardinality(OpenCreates) <= Cardinality(Sharers)
  BY <1>1, <1>2, FS_Subset
<1>5. Cardinality(Sharers) \in Nat /\ Cardinality(ActiveLinks) \in Nat /\ Cardinality(OpenCreates) \in Nat
  BY <1>2, <1>3, <1>4, FS_CardinalityType
<1>. QED
  BY <1>2, <1>3, <1>4, <1>5

LEMMA ShareInitInv == ShareInit => ShareInv
<1> SUFFICES ASSUME ShareInit PROVE ShareInv
  OBVIOUS
<1>1. ActiveLinks = {} /\ OpenCreates = {}
  BY DEF ShareInit, ActiveLinks, OpenCreates, ActiveAt, Exists, NoLink, NoSharing
<1>2. links \in [Links -> LinkRow]
  BY DEF ShareInit, NoLink, LinkRow
<1>3. Cardinality({}) = 0
  BY FS_EmptySet
<1>4. Cardinality(ActiveLinks) + Cardinality(OpenCreates) <= MAX_ACTIVE_PER_DIAGRAM - 1 + Cardinality(Sharers)
  BY <1>1, <1>3, FinitelyShared
<1>. QED
  BY <1>2, <1>4 DEF ShareInit, ShareInv, NoSharing

LEMMA ShareStutters == ShareInv /\ UNCHANGED shareVars => ShareInv'
BY DEF ShareInv, shareVars, diagramRows, ActiveLinks, OpenCreates, ActiveAt, Exists

\* Fewer of both are within the bound.
LEMMA FewerShared ==
    ASSUME ShareInv, ActiveLinks' \subseteq ActiveLinks, OpenCreates' \subseteq OpenCreates
    PROVE (Cardinality(ActiveLinks) + Cardinality(OpenCreates) <= MAX_ACTIVE_PER_DIAGRAM - 1 + Cardinality(Sharers))'
<1> PICK a : a = ActiveLinks'
  OBVIOUS
<1> PICK o : o = OpenCreates'
  OBVIOUS
<1>1. IsFiniteSet(a) /\ Cardinality(a) \in Nat /\ Cardinality(a) <= Cardinality(ActiveLinks)
  BY FinitelyShared, FS_Subset, FS_CardinalityType
<1>2. IsFiniteSet(o) /\ Cardinality(o) \in Nat /\ Cardinality(o) <= Cardinality(OpenCreates)
  BY FinitelyShared, FS_Subset, FS_CardinalityType
<1>3. Cardinality(a) + Cardinality(o) <= MAX_ACTIVE_PER_DIAGRAM - 1 + Cardinality(Sharers)
  BY <1>1, <1>2, FinitelyShared DEF ShareInv
<1>. QED
  BY <1>3

LEMMA SharingDone ==
    ASSUME DOMAIN sharing = Sharers, NEW q \in Sharers, DoneSharing(q)
    PROVE /\ DOMAIN sharing' = Sharers /\ sharing'[q].kind = "none"
          /\ \A p \in Sharers \ {q} : sharing'[p] = sharing[p]
          /\ clock' = clock /\ OpenCreates' = OpenCreates \ {q}
<1>1. DOMAIN sharing' = Sharers /\ sharing'[q].kind = "none" /\ \A p \in Sharers \ {q} : sharing'[p] = sharing[p]
  BY DEF DoneSharing, NoSharing
<1>. QED
  BY <1>1 DEF DoneSharing, OpenCreates

\* A request that is done with and leaves the links as they are.
LEMMA ShareDoneKeeps ==
    ASSUME ShareInv, NEW q \in Sharers, DoneSharing(q), links' = links, head' \in Nat
    PROVE ShareInv'
<1>1. ActiveLinks' = ActiveLinks
  BY DEF DoneSharing, ActiveLinks, ActiveAt, Exists
<1>2. OpenCreates' \subseteq OpenCreates
  BY SharingDone DEF ShareInv
<1>3. (Cardinality(ActiveLinks) + Cardinality(OpenCreates) <= MAX_ACTIVE_PER_DIAGRAM - 1 + Cardinality(Sharers))'
  BY <1>1, <1>2, FewerShared
<1>. QED
  BY <1>3, SharingDone DEF ShareInv

\* A request that opens and creates no link.
LEMMA ShareOpenKeeps ==
    ASSUME ShareInv, NEW q \in Sharers, NEW r, StartSharing(q, r), r.kind # "create",
           r.kind = "save" => r.revision \in Nat
    PROVE ShareInv'
<1>1. DOMAIN sharing' = Sharers /\ sharing'[q] = r /\ \A p \in Sharers \ {q} : sharing'[p] = sharing[p]
  BY DEF StartSharing, ShareInv
<1>2. ActiveLinks' = ActiveLinks
  BY DEF StartSharing, diagramRows, ActiveLinks, ActiveAt, Exists
<1>3. OpenCreates' \subseteq OpenCreates
  BY <1>1 DEF OpenCreates
<1>4. (Cardinality(ActiveLinks) + Cardinality(OpenCreates) <= MAX_ACTIVE_PER_DIAGRAM - 1 + Cardinality(Sharers))'
  BY <1>2, <1>3, FewerShared
<1>. QED
  BY <1>1, <1>4 DEF ShareInv, StartSharing, diagramRows

LEMMA OpenShareKeeps ==
    ASSUME ShareInv, NEW q \in Sharers, NEW l \in Links, NEW h \in 1..MaxHours, OpenShare(q, l, h)
    PROVE ShareInv'
<1> PICK r : r = [NoSharing EXCEPT !.kind = "create", !.link = l, !.revision = head, !.hours = h]
  OBVIOUS
<1>1. r.kind = "create" /\ r.hours = h /\ r.revision = head
  BY DEF NoSharing
<1>2. StartSharing(q, r) /\ Cardinality(ActiveLinks) <= MAX_ACTIVE_PER_DIAGRAM - 1
  <2>1. OpenShareUpTo(q, l, h, MAX_ACTIVE_PER_DIAGRAM - 1)
    BY DEF OpenShare
  <2>2. StartSharing(q, r)
    BY <2>1 DEF OpenShareUpTo
  <2>3. Cardinality({k \in Links : ActiveAt(k, clock)}) <= MAX_ACTIVE_PER_DIAGRAM - 1
    BY <2>1, Zenon DEF OpenShareUpTo
  <2>. QED
    BY <2>2, <2>3 DEF ActiveLinks
<1>3. DOMAIN sharing' = Sharers /\ sharing'[q] = r /\ \A p \in Sharers \ {q} : sharing'[p] = sharing[p]
  BY <1>2 DEF StartSharing, ShareInv
<1>4. ActiveLinks' = ActiveLinks
  BY <1>2 DEF StartSharing, diagramRows, ActiveLinks, ActiveAt, Exists
<1> PICK o : o = OpenCreates'
  OBVIOUS
<1>5. o \subseteq Sharers
  BY DEF OpenCreates
<1>6. Cardinality(o) \in Nat /\ Cardinality(o) <= Cardinality(Sharers)
  BY <1>5, FinitelyShared, FS_Subset, FS_CardinalityType
<1>7. Cardinality(ActiveLinks) + Cardinality(o) <= MAX_ACTIVE_PER_DIAGRAM - 1 + Cardinality(Sharers)
  BY <1>2, <1>6, FinitelyShared
<1>8. (Cardinality(ActiveLinks) + Cardinality(OpenCreates) <= MAX_ACTIVE_PER_DIAGRAM - 1 + Cardinality(Sharers))'
  BY <1>4, <1>7
<1>. QED
  BY <1>1, <1>2, <1>3, <1>8 DEF ShareInv, StartSharing, diagramRows

LEMMA CreateShareKeeps == ASSUME ShareInv, NEW q \in Sharers, CreateShare(q) PROVE ShareInv'
<1> PICK c : c = sharing[q]
  OBVIOUS
<1>1. /\ c.kind = "create" /\ DoneSharing(q) /\ head' = head
      /\ links' = [links EXCEPT ![c.link] = [revision |-> c.revision, expires |-> clock + c.hours, revoked |-> FALSE]]
  BY DEF CreateShare
<1>2. c.hours \in Nat /\ c.revision \in Nat /\ clock \in Nat
  BY <1>1 DEF ShareInv
<1> PICK n : n = [revision |-> c.revision, expires |-> clock + c.hours, revoked |-> FALSE]
  OBVIOUS
<1>2a. n \in LinkRow
  BY <1>2 DEF LinkRow
<1>3. links' \in [Links -> LinkRow] /\ \A k \in Links \ {c.link} : links'[k] = links[k]
  BY <1>1, <1>2a DEF ShareInv
<1> PICK a : a = ActiveLinks'
  OBVIOUS
<1> PICK o : o = OpenCreates'
  OBVIOUS
<1>4. a \subseteq ActiveLinks \cup {c.link}
  BY <1>1, <1>3 DEF DoneSharing, ActiveLinks, ActiveAt, Exists
<1>5. o = OpenCreates \ {q} /\ q \in OpenCreates
  BY <1>1, SharingDone DEF ShareInv, OpenCreates
<1>6. Cardinality(o) = Cardinality(OpenCreates) - 1
  BY <1>5, FinitelyShared, FS_RemoveElement
<1>7. IsFiniteSet(ActiveLinks \cup {c.link}) /\ Cardinality(ActiveLinks \cup {c.link}) <= Cardinality(ActiveLinks) + 1
      /\ Cardinality(ActiveLinks \cup {c.link}) \in Nat
  <2>1. IsFiniteSet(ActiveLinks) /\ Cardinality(ActiveLinks) \in Nat
    BY FinitelyShared
  <2>2. IsFiniteSet(ActiveLinks \cup {c.link}) /\ Cardinality(ActiveLinks \cup {c.link})
          = IF c.link \in ActiveLinks THEN Cardinality(ActiveLinks) ELSE Cardinality(ActiveLinks) + 1
    BY <2>1, FS_AddElement
  <2>. QED
    BY <2>1, <2>2
<1>8. Cardinality(a) <= Cardinality(ActiveLinks) + 1 /\ Cardinality(a) \in Nat
  BY <1>4, <1>7, FinitelyShared, FS_Subset, FS_CardinalityType
<1>9. Cardinality(a) + Cardinality(o) <= MAX_ACTIVE_PER_DIAGRAM - 1 + Cardinality(Sharers)
  BY <1>6, <1>8, FinitelyShared DEF ShareInv
<1>10. (Cardinality(ActiveLinks) + Cardinality(OpenCreates) <= MAX_ACTIVE_PER_DIAGRAM - 1 + Cardinality(Sharers))'
  BY <1>9
<1>. QED
  BY <1>1, <1>3, <1>10, SharingDone DEF ShareInv

LEMMA LinkRevoked == ASSUME NEW r \in LinkRow
    PROVE [r EXCEPT !.revoked = TRUE] \in LinkRow /\ [r EXCEPT !.revoked = TRUE].revoked = TRUE
BY DEF LinkRow

LEMMA RevokeKeeps == ASSUME ShareInv, NEW q \in Sharers, Revoke(q) PROVE ShareInv'
<1> PICK l : l = sharing[q].link
  OBVIOUS
<1>1. links' = [links EXCEPT ![l] = [links[l] EXCEPT !.revoked = TRUE]] /\ DoneSharing(q) /\ head' = head
  BY DEF Revoke
<1>2. links' \in [Links -> LinkRow] /\ \A k \in Links : links'[k] = links[k] \/ links'[k].revoked
  <2>1. CASE l \in Links
    <3> PICK r : r = [links[l] EXCEPT !.revoked = TRUE]
      OBVIOUS
    <3>1. r \in LinkRow /\ r.revoked
      BY <2>1, LinkRevoked DEF ShareInv
    <3>. QED
      BY <1>1, <2>1, <3>1 DEF ShareInv
  <2>2. CASE l \notin Links
    <3>1. links' = links
      BY <1>1, <2>2 DEF ShareInv
    <3>. QED
      BY <3>1 DEF ShareInv
  <2>. QED
    BY <2>1, <2>2
<1>3. ActiveLinks' \subseteq ActiveLinks
  BY <1>1, <1>2 DEF DoneSharing, ActiveLinks, ActiveAt, Exists
<1>4. OpenCreates' \subseteq OpenCreates
  BY <1>1, SharingDone DEF ShareInv
<1>5. (Cardinality(ActiveLinks) + Cardinality(OpenCreates) <= MAX_ACTIVE_PER_DIAGRAM - 1 + Cardinality(Sharers))'
  BY <1>3, <1>4, FewerShared
<1>. QED
  BY <1>1, <1>2, <1>5, SharingDone DEF ShareInv

LEMMA HourKeeps == ASSUME ShareInv, HourPasses PROVE ShareInv'
<1>1. links' = links /\ sharing' = sharing /\ head' = head /\ clock' = clock + 1 /\ clock \in Nat
  BY DEF HourPasses, diagramRows, ShareInv
<1>2. links \in [Links -> [revision : Nat, expires : Nat, revoked : BOOLEAN]]
  BY DEF ShareInv, LinkRow
<1>3. ActiveLinks' \subseteq ActiveLinks
  BY <1>1, <1>2 DEF ActiveLinks, ActiveAt, Exists
<1>4. OpenCreates' \subseteq OpenCreates
  BY <1>1 DEF OpenCreates
<1>5. (Cardinality(ActiveLinks) + Cardinality(OpenCreates) <= MAX_ACTIVE_PER_DIAGRAM - 1 + Cardinality(Sharers))'
  BY <1>3, <1>4, FewerShared
<1>. QED
  BY <1>1, <1>5 DEF ShareInv

LEMMA ShareStepInv == ShareInv /\ ShareNext => ShareInv'
<1> SUFFICES ASSUME ShareInv, ShareNext PROVE ShareInv'
  OBVIOUS
<1>1. CASE HourPasses
  BY <1>1, HourKeeps
<1>2. ASSUME NEW q \in Sharers, NEW e \in 1..head, NEW a \in {"keep", "yes", "no"}, OpenSave(q, e, a) PROVE ShareInv'
  <2> PICK r : r = [NoSharing EXCEPT !.kind = "save", !.revision = e, !.archive = a]
    OBVIOUS
  <2>1. r.kind = "save" /\ r.revision = e /\ e \in Nat
    BY DEF NoSharing, ShareInv
  <2>2. StartSharing(q, r)
    BY <1>2 DEF OpenSave
  <2>. QED
    BY <2>1, <2>2, ShareOpenKeeps
<1>3. ASSUME NEW q \in Sharers, NEW l \in Links, NEW h \in 1..MaxHours, OpenShare(q, l, h) PROVE ShareInv'
  BY <1>3, OpenShareKeeps
<1>4. ASSUME NEW q \in Sharers, NEW l \in Links, OpenRevoke(q, l) \/ OpenView(q, l) PROVE ShareInv'
  <2>1. \E k \in {"revoke", "view"} : StartSharing(q, [NoSharing EXCEPT !.kind = k, !.link = l])
    BY <1>4 DEF OpenRevoke, OpenView
  <2> PICK k \in {"revoke", "view"} : StartSharing(q, [NoSharing EXCEPT !.kind = k, !.link = l])
    BY <2>1
  <2> PICK r : r = [NoSharing EXCEPT !.kind = k, !.link = l]
    OBVIOUS
  <2>2. r.kind = k
    BY DEF NoSharing
  <2>. QED
    BY <2>2, ShareOpenKeeps
<1>5. ASSUME NEW q \in Sharers, SaveRevision(q) PROVE ShareInv'
  <2>1. DoneSharing(q) /\ links' = links /\ head' = sharing[q].revision + 1 /\ sharing[q].kind = "save"
    BY <1>5 DEF SaveRevision
  <2>2. head' \in Nat
    BY <2>1 DEF ShareInv
  <2>. QED
    BY <2>1, <2>2, ShareDoneKeeps
<1>6. ASSUME NEW q \in Sharers, View(q) \/ FailSharing(q) PROVE ShareInv'
  BY <1>6, ShareDoneKeeps DEF View, FailSharing, diagramRows, ShareInv
<1>7. ASSUME NEW q \in Sharers, CreateShare(q) \/ Revoke(q) PROVE ShareInv'
  BY <1>7, CreateShareKeeps, RevokeKeeps
<1>. QED
  BY <1>1, <1>2, <1>3, <1>4, <1>5, <1>6, <1>7 DEF ShareNext

LEMMA SharesHold == ShareInv => LinksBounded
<1> SUFFICES ASSUME ShareInv PROVE LinksBounded
  OBVIOUS
<1>1. Cardinality(ActiveLinks) < MAX_ACTIVE_PER_DIAGRAM + Cardinality(Sharers)
  <2>1. Cardinality(ActiveLinks) + Cardinality(OpenCreates) <= MAX_ACTIVE_PER_DIAGRAM - 1 + Cardinality(Sharers)
    BY DEF ShareInv
  <2>2. /\ MAX_ACTIVE_PER_DIAGRAM \in Nat /\ Cardinality(Sharers) \in Nat /\ Cardinality(ActiveLinks) \in Nat
        /\ Cardinality(OpenCreates) \in Nat
    BY FinitelyShared
  <2>. QED
    BY <2>1, <2>2
<1>. QED
  BY <1>1, Zenon DEF LinksBounded, ActiveLinks

--------------------------------------------------------------------------------
(* Goals of the profile (AiProfile) *)

AskedActive == {q \in People : calling[q].op = "goal" /\ calling[q].status = "active"}

\* The inductive invariant: goals that are active and those asked for as active.
GoalInv ==
    /\ goals \in [active : Nat, other : Nat] /\ byHand \in Nat /\ DOMAIN calling = People
    /\ \A q \in People : calling[q].op = "goal" /\ calling[q].status = "active" =>
          calling[q].base \in Nat /\ calling[q].base < CurrentGoals
    /\ "goal" \notin overlapped => goals.active <= CurrentGoals + byHand
    /\ People # {} => goals.active + Cardinality(AskedActive) <= CurrentGoals + byHand + Cardinality(People) - 1
    /\ People = {} => "goal" \notin overlapped

LEMMA FinitelyAsked ==
    /\ CurrentGoals \in Nat /\ IsFiniteSet(People) /\ Cardinality(People) \in Nat
    /\ IsFiniteSet(AskedActive) /\ Cardinality(AskedActive) \in Nat /\ Cardinality(AskedActive) <= Cardinality(People)
<1>1. AskedActive \subseteq People
  BY DEF AskedActive
<1>2. CurrentGoals \in Nat /\ IsFiniteSet(People)
  BY ProfileAssumption
<1>3. IsFiniteSet(AskedActive) /\ Cardinality(AskedActive) <= Cardinality(People)
  BY <1>1, <1>2, FS_Subset
<1>4. Cardinality(People) \in Nat /\ Cardinality(AskedActive) \in Nat
  BY <1>2, <1>3, FS_CardinalityType
<1>. QED
  BY <1>2, <1>3, <1>4

LEMMA SomePeople == People # {} => Cardinality(People) >= 1
BY FinitelyAsked, FS_EmptySet, ProfileAssumption

LEMMA GoalInitInv == ProfileInit => GoalInv
<1> SUFFICES ASSUME ProfileInit PROVE GoalInv
  OBVIOUS
<1>1. AskedActive = {} /\ Cardinality({}) = 0
  BY FS_EmptySet DEF ProfileInit, AskedActive, NoCalling
<1>2. goals = [active |-> 0, other |-> 0] /\ byHand = 0 /\ overlapped = {} /\ DOMAIN calling = People
      /\ \A q \in People : calling[q].op = "none"
  BY DEF ProfileInit, NoCalling
<1>. QED
  BY <1>1, <1>2, FinitelyAsked, SomePeople DEF GoalInv

LEMMA GoalStutters == GoalInv /\ UNCHANGED <<goals, byHand, calling, overlapped>> => GoalInv'
BY DEF GoalInv, AskedActive

\* A request that opens or ends, and is not about a goal.
LEMMA GoalOthers ==
    ASSUME GoalInv, NEW q \in People, NEW r, r.op # "goal", calling' = [calling EXCEPT ![q] = r],
           goals' = goals, byHand' = byHand, "goal" \in overlapped => "goal" \in overlapped'
    PROVE GoalInv'
<1>1. DOMAIN calling' = People /\ calling'[q] = r /\ \A p \in People \ {q} : calling'[p] = calling[p]
  BY DEF GoalInv
<1> PICK a : a = AskedActive'
  OBVIOUS
<1>2. a \subseteq AskedActive
  BY <1>1 DEF AskedActive
<1>3. Cardinality(a) \in Nat /\ Cardinality(a) <= Cardinality(AskedActive)
  BY <1>2, FinitelyAsked, FS_Subset, FS_CardinalityType
<1>4. goals.active \in Nat /\ byHand \in Nat /\ goals.active + Cardinality(AskedActive) <= CurrentGoals + byHand + Cardinality(People) - 1
  BY DEF GoalInv
<1>5. goals.active + Cardinality(a) <= CurrentGoals + byHand + Cardinality(People) - 1
  BY <1>3, <1>4, FinitelyAsked
<1>6. goals'.active + Cardinality(AskedActive') <= CurrentGoals + byHand' + Cardinality(People) - 1
  BY <1>5
<1>. QED
  BY <1>1, <1>6 DEF GoalInv

LEMMA BeginGoalKeeps == ASSUME GoalInv, NEW q \in People, BeginGoal(q) PROVE GoalInv'
<1> PICK r : r = [op |-> "goal", status |-> GoalStatus, base |-> goals.active]
  OBVIOUS
<1>1. /\ DOMAIN calling' = People /\ calling'[q] = r /\ \A p \in People \ {q} : calling'[p] = calling[p]
      /\ goals' = goals /\ byHand' = byHand /\ overlapped' = overlapped
  BY DEF BeginGoal, GoalInv
<1>2. goals.active \in Nat /\ byHand \in Nat
  BY DEF GoalInv
<1> PICK a : a = AskedActive'
  OBVIOUS
<1>3. a \subseteq People
  BY DEF AskedActive
<1>4. Cardinality(a) \in Nat /\ Cardinality(a) <= Cardinality(People)
  BY <1>3, FinitelyAsked, FS_Subset, FS_CardinalityType
<1>5. CASE goals.active < CurrentGoals
  <2>1. goals.active + Cardinality(a) <= CurrentGoals + byHand + Cardinality(People) - 1
    BY <1>2, <1>4, <1>5, FinitelyAsked
  <2>2. goals'.active + Cardinality(AskedActive') <= CurrentGoals + byHand' + Cardinality(People) - 1
    BY <1>1, <2>1
  <2>. QED
    <3>1. \A p \in People : calling'[p].op = "goal" /\ calling'[p].status = "active" =>
            calling'[p].base \in Nat /\ calling'[p].base < CurrentGoals
      BY <1>1, <1>2, <1>5 DEF GoalInv
    <3>. QED
      BY <1>1, <2>2, <3>1 DEF GoalInv
<1>6. CASE ~(goals.active < CurrentGoals)
  <2>1. r.status = "other"
    BY <1>6 DEF GoalStatus
  <2>2. a \subseteq AskedActive
    BY <1>1, <2>1 DEF AskedActive
  <2>3. Cardinality(a) <= Cardinality(AskedActive)
    BY <2>2, FinitelyAsked, FS_Subset
  <2>4. goals.active + Cardinality(a) <= CurrentGoals + byHand + Cardinality(People) - 1
    BY <1>2, <1>4, <2>3, FinitelyAsked DEF GoalInv
  <2>5. goals'.active + Cardinality(AskedActive') <= CurrentGoals + byHand' + Cardinality(People) - 1
    BY <1>1, <2>4
  <2>. QED
    <3>1. \A p \in People : calling'[p].op = "goal" /\ calling'[p].status = "active" =>
            calling'[p].base \in Nat /\ calling'[p].base < CurrentGoals
      BY <1>1, <2>1 DEF GoalInv
    <3>. QED
      BY <1>1, <2>5, <3>1 DEF GoalInv
<1>. QED
  BY <1>5, <1>6

LEMMA GoalAdded == ASSUME NEW g \in [active : Nat, other : Nat] PROVE
    /\ [g EXCEPT !.active = @ + 1] = [active |-> g.active + 1, other |-> g.other]
    /\ [g EXCEPT !.other = @ + 1] = [active |-> g.active, other |-> g.other + 1]
    /\ g.active \in Nat /\ g.other \in Nat
    /\ g.active > 0 => [g EXCEPT !.active = @ - 1] = [active |-> g.active - 1, other |-> g.other]
OBVIOUS

LEMMA CommitGoalKeeps == ASSUME GoalInv, NEW q \in People, CommitGoal(q) PROVE GoalInv'
<1> PICK c : c = calling[q]
  OBVIOUS
<1> PICK x : x = goals.active
  OBVIOUS
<1>1. /\ DOMAIN calling' = People /\ calling'[q].op = "none" /\ \A p \in People \ {q} : calling'[p] = calling[p]
      /\ byHand' = byHand /\ c.op = "goal"
      /\ overlapped' = overlapped \cup (IF c.base # x THEN {"goal"} ELSE {})
  BY DEF CommitGoal, GoalInv, NoCalling
<1>2. goals \in [active : Nat, other : Nat] /\ x \in Nat /\ byHand \in Nat
      /\ x + Cardinality(AskedActive) <= CurrentGoals + byHand + Cardinality(People) - 1
  BY DEF GoalInv
<1> PICK a : a = AskedActive'
  OBVIOUS
<1>3. a = AskedActive \ {q}
  BY <1>1 DEF AskedActive
<1>4. CASE c.status = "active"
  <2>1. goals' = [active |-> x + 1, other |-> goals.other]
    BY <1>2, <1>4, GoalAdded DEF CommitGoal
  <2>2. goals' \in [active : Nat, other : Nat] /\ goals'.active = x + 1
    BY <1>2, <2>1
  <2>3. q \in AskedActive
    BY <1>1, <1>4 DEF AskedActive
  <2>4. Cardinality(a) = Cardinality(AskedActive) - 1
    BY <1>3, <2>3, FinitelyAsked, FS_RemoveElement
  <2>5. x + 1 + Cardinality(a) <= CurrentGoals + byHand + Cardinality(People) - 1
    BY <1>2, <2>4, FinitelyAsked
  <2>6. goals'.active + Cardinality(AskedActive') <= CurrentGoals + byHand' + Cardinality(People) - 1
    BY <1>1, <2>2, <2>5
  <2>7. "goal" \notin overlapped' => goals'.active <= CurrentGoals + byHand'
    <3>1. c.base \in Nat /\ c.base < CurrentGoals
      BY <1>1, <1>4 DEF GoalInv
    <3>2. c.base # x => "goal" \in overlapped'
      BY <1>1
    <3>. QED
      BY <1>1, <1>2, <2>2, <3>1, <3>2, FinitelyAsked
  <2>. QED
    BY <1>1, <1>2, <2>2, <2>6, <2>7 DEF GoalInv
<1>5. CASE c.status # "active"
  <2>1. goals' = [active |-> x, other |-> goals.other + 1]
    BY <1>2, <1>5, GoalAdded DEF CommitGoal
  <2>2. goals' \in [active : Nat, other : Nat] /\ goals'.active = x
    BY <1>2, <2>1
  <2>3. Cardinality(a) <= Cardinality(AskedActive) /\ Cardinality(a) \in Nat
    BY <1>3, FinitelyAsked, FS_Subset, FS_CardinalityType
  <2>4. x + Cardinality(a) <= CurrentGoals + byHand + Cardinality(People) - 1
    BY <1>2, <2>3, FinitelyAsked
  <2>5. goals'.active + Cardinality(AskedActive') <= CurrentGoals + byHand' + Cardinality(People) - 1
    BY <1>1, <2>2, <2>4
  <2>6. "goal" \notin overlapped' => goals'.active <= CurrentGoals + byHand'
    BY <1>1, <2>2 DEF GoalInv
  <2>. QED
    BY <1>1, <1>2, <2>2, <2>5, <2>6 DEF GoalInv
<1>. QED
  BY <1>4, <1>5

\* An edit of the goals: those that are counted are fewer, or one more by hand.
LEMMA GoalEdited ==
    ASSUME GoalInv, UNCHANGED <<calling, overlapped>>, goals' \in [active : Nat, other : Nat], byHand' \in Nat,
           goals'.active - byHand' <= goals.active - byHand
    PROVE GoalInv'
<1>1. AskedActive' = AskedActive
  BY DEF AskedActive
<1>2. goals.active \in Nat /\ byHand \in Nat /\ goals'.active \in Nat
  BY DEF GoalInv
<1>3. People # {} => goals'.active + Cardinality(AskedActive) <= CurrentGoals + byHand' + Cardinality(People) - 1
  BY <1>2, FinitelyAsked DEF GoalInv
<1>4. "goal" \notin overlapped => goals'.active <= CurrentGoals + byHand'
  BY <1>2, FinitelyAsked DEF GoalInv
<1>. QED
  BY <1>1, <1>3, <1>4 DEF GoalInv

LEMMA EditGoalKeeps ==
    ASSUME GoalInv, NEW q \in People, DeleteGoal(q) \/ \E s \in {"active", "other"} : UpdateGoal(q, s)
    PROVE GoalInv'
<1>1. goals \in [active : Nat, other : Nat] /\ byHand \in Nat /\ goals.active \in Nat /\ goals.other \in Nat
  BY DEF GoalInv
<1>2. CASE DeleteGoal(q)
  <2>1. goals.active > 0 /\ goals' = [active |-> goals.active - 1, other |-> goals.other] /\ byHand' = byHand
        /\ UNCHANGED <<calling, overlapped>>
    BY <1>1, <1>2, GoalAdded DEF DeleteGoal
  <2>2. goals' \in [active : Nat, other : Nat] /\ goals'.active = goals.active - 1
    BY <1>1, <2>1
  <2>. QED
    BY <1>1, <2>1, <2>2, GoalEdited
<1>3. CASE UpdateGoal(q, "active")
  <2>1. goals.other > 0 /\ goals' = [active |-> goals.active + 1, other |-> goals.other - 1] /\ byHand' = byHand + 1
        /\ UNCHANGED <<calling, overlapped>>
    BY <1>3 DEF UpdateGoal
  <2>2. goals' \in [active : Nat, other : Nat] /\ goals'.active = goals.active + 1
    BY <1>1, <2>1
  <2>. QED
    BY <1>1, <2>1, <2>2, GoalEdited
<1>4. CASE UpdateGoal(q, "other")
  <2>1. goals.active > 0 /\ goals' = [active |-> goals.active - 1, other |-> goals.other + 1] /\ byHand' = byHand
        /\ UNCHANGED <<calling, overlapped>>
    BY <1>4 DEF UpdateGoal
  <2>2. goals' \in [active : Nat, other : Nat] /\ goals'.active = goals.active - 1
    BY <1>1, <2>1
  <2>. QED
    BY <1>1, <2>1, <2>2, GoalEdited
<1>. QED
  BY <1>2, <1>3, <1>4

\* The steps that are about something else: one of a request, or of an observation.
LEMMA StepsElsewhere ==
    ASSUME NEW q \in People, DOMAIN calling = People,
           \/ \E declared, no, yes : BeginUpdate(q, declared, no, yes)
           \/ CommitUpdate(q) \/ InsertRefused(q) \/ (\E key : BeginRecord(q, key)) \/ CommitRecord(q)
           \/ BeginReset(q) \/ CommitReset(q) \/ BeginPatch(q) \/ CommitPatch(q)
    PROVE \E r : /\ calling' = [calling EXCEPT ![q] = r] /\ r.op # "goal"
                 /\ goals' = goals /\ byHand' = byHand /\ overlapped \subseteq overlapped'
<1>1. CASE \E declared, no, yes : BeginUpdate(q, declared, no, yes)
  <2> PICK declared, no, yes : BeginUpdate(q, declared, no, yes)
    BY <1>1
  <2> PICK r : r = [op |-> "update", base |-> content, old |-> profile, declared |-> declared, no |-> no, yes |-> yes]
    OBVIOUS
  <2>1. r.op # "goal"
    OBVIOUS
  <2>. QED
    BY <2>1 DEF BeginUpdate
<1>2. CASE CommitUpdate(q) \/ InsertRefused(q)
  BY <1>2 DEF CommitUpdate, InsertRefused, NoCalling
<1>3. CASE (\E key : BeginRecord(q, key)) \/ CommitRecord(q)
  BY <1>3 DEF BeginRecord, CommitRecord, NoCalling
<1>4. CASE BeginReset(q) \/ CommitReset(q)
  BY <1>4 DEF BeginReset, CommitReset, NoCalling
<1>5. CASE BeginPatch(q) \/ CommitPatch(q)
  <2>1. CASE BeginPatch(q)
    <3> PICK r : r = [op |-> "patch", new |-> onboarding = "none", status |-> Patched(onboarding)]
      OBVIOUS
    <3>1. r.op # "goal"
      OBVIOUS
    <3>. QED
      BY <2>1, <3>1 DEF BeginPatch
  <2>. QED
    BY <1>5, <2>1 DEF CommitPatch, NoCalling
<1>. QED
  BY <1>1, <1>2, <1>3, <1>4, <1>5

LEMMA GoalStepInv == GoalInv /\ ProfileNext => GoalInv'
<1> SUFFICES ASSUME GoalInv, ProfileNext PROVE GoalInv'
  OBVIOUS
<1>1. ASSUME NEW q \in People,
             \/ \E declared, no, yes : BeginUpdate(q, declared, no, yes)
             \/ CommitUpdate(q) \/ InsertRefused(q) \/ (\E key : BeginRecord(q, key)) \/ CommitRecord(q)
             \/ BeginReset(q) \/ CommitReset(q) \/ BeginPatch(q) \/ CommitPatch(q)
      PROVE GoalInv'
  <2>1. PICK r : /\ calling' = [calling EXCEPT ![q] = r] /\ r.op # "goal"
                 /\ goals' = goals /\ byHand' = byHand /\ overlapped \subseteq overlapped'
    BY <1>1, StepsElsewhere DEF GoalInv
  <2>. QED
    BY <2>1, GoalOthers
<1>2. ASSUME NEW q \in People, BeginGoal(q) \/ CommitGoal(q) PROVE GoalInv'
  BY <1>2, BeginGoalKeeps, CommitGoalKeeps
<1>3. ASSUME NEW q \in People, DeleteGoal(q) \/ \E s \in {"active", "other"} : UpdateGoal(q, s) PROVE GoalInv'
  BY <1>3, EditGoalKeeps
<1>4. ASSUME NEW q \in People, ViewProfile(q) \/ CompleteOnboarding(q) PROVE GoalInv'
  BY <1>4, GoalStutters DEF ViewProfile, CompleteOnboarding
<1>5. ASSUME NEW q \in People, ImportLegacy(q) PROVE GoalInv'
  BY <1>5 DEF ImportLegacy, GoalInv, AskedActive
<1>6. ASSUME NEW o \in Observations, Expire(o) \/ DecideObservation(o, "confirmed") \/ DecideObservation(o, "rejected")
      PROVE GoalInv'
  BY <1>6, GoalStutters DEF Expire, DecideObservation
<1>. QED
  BY <1>1, <1>2, <1>3, <1>4, <1>5, <1>6 DEF ProfileNext

LEMMA GoalsHold == GoalInv => GoalsBounded
<1> SUFFICES ASSUME GoalInv PROVE GoalsBounded
  OBVIOUS
<1>1. goals.active \in Nat /\ byHand \in Nat
  BY DEF GoalInv
<1>2. CASE "goal" \in overlapped
  <2>1. goals.active + Cardinality(AskedActive) <= CurrentGoals + byHand + Cardinality(People) - 1
    BY <1>2 DEF GoalInv
  <2>2. goals.active <= CurrentGoals + byHand + (Cardinality(People) - 1)
    BY <1>1, <2>1, FinitelyAsked
  <2>3. (IF "goal" \in overlapped THEN Cardinality(People) - 1 ELSE 0) = Cardinality(People) - 1
    BY <1>2
  <2>. QED
    BY <2>2, <2>3, Zenon DEF GoalsBounded
<1>3. CASE "goal" \notin overlapped
  <2>1. goals.active <= CurrentGoals + byHand + 0
    BY <1>1, <1>3, FinitelyAsked DEF GoalInv
  <2>. QED
    BY <1>3, <2>1 DEF GoalsBounded
<1>. QED
  BY <1>2, <1>3

--------------------------------------------------------------------------------
(* The mailbox and its secret (MailboxAccess) *)

MailRow == [status : {"unconfigured", "testing", "connected", "degraded", "offline"},
            provider : Boxes \cup {NoBox}, box : Boxes \cup {NoBox}, reference : BOOLEAN]
MailKey == [auth : {"none", "password", "xoauth2"}, box : Boxes \cup {NoBox}, refresh : BOOLEAN, fresh : BOOLEAN]

\* The secret is the one of the account the row names, or there is none.
Opens(r) == mailSecret.box = IF r.reference THEN r.box ELSE NoBox
NamedAlike(r) == r.reference => r.provider = r.box

\* What holds while requests have not overlapped.
Orderly ==
    /\ mailbox \in MailRow
    /\ \A q, o \in Posters : q # o => posting[q] = NoPosting \/ posting[o] = NoPosting
    /\ (\A q \in Posters : posting[q].op # "save") => Opens(mailbox)
    /\ ~renamed => NamedAlike(mailbox)
    /\ \A q \in Posters : posting[q].op = "save" =>
          /\ posting[q].old = mailbox /\ posting[q].new \in MailRow
          /\ Opens(posting[q].new) /\ (~renamed => NamedAlike(posting[q].new))
    /\ \A q \in Posters : posting[q].op = "refresh" => posting[q].box = mailSecret.box

MailboxInv ==
    /\ mailSecret \in MailKey /\ DOMAIN posting = Posters
    /\ \A q \in Posters : posting[q].op = "refresh" => posting[q].box \in Boxes \cup {NoBox}
    /\ AccessRenews /\ PasswordsStayHome
    /\ ~mailMixed => Orderly

LEMMA MailboxInitInv == MailboxInit => MailboxInv
<1> SUFFICES ASSUME MailboxInit PROVE MailboxInv
  OBVIOUS
<1>1. mailSecret \in MailKey /\ mailbox \in MailRow
  BY DEF MailboxInit, MailKey, MailRow, NoMailSecret
<1>2. DOMAIN posting = Posters /\ \A q \in Posters : posting[q] = NoPosting
  BY DEF MailboxInit
<1>3. AccessRenews /\ PasswordsStayHome
  BY DEF MailboxInit, AccessRenews, PasswordsStayHome, NoMailSecret
<1>4. Opens(mailbox) /\ NamedAlike(mailbox)
  BY DEF MailboxInit, Opens, NamedAlike, NoMailSecret
<1>5. \A q \in Posters : posting[q].op = "none"
  BY <1>2 DEF NoPosting
<1>. QED
  BY <1>1, <1>2, <1>3, <1>4, <1>5 DEF MailboxInv, Orderly

LEMMA MailboxStutters == MailboxInv /\ UNCHANGED mailboxVars => MailboxInv'
BY DEF MailboxInv, mailboxVars, Orderly, AccessRenews, PasswordsStayHome, Opens, NamedAlike

Mixes == mailMixed' = (mailMixed \/ \E q, o \in Posters : q # o /\ NoPosting \notin {posting'[q], posting'[o]})

\* A request that is alone has nobody beside it.
LEMMA MailboxAlone ==
    ASSUME MailboxInv, Mixes, ~mailMixed', NEW q \in Posters, NEW r, posting' = [posting EXCEPT ![q] = r], r # NoPosting
    PROVE ~mailMixed /\ Orderly /\ \A o \in Posters \ {q} : posting[o] = NoPosting /\ posting'[o] = NoPosting
BY DEF Mixes, MailboxInv

\* The end of a request opens none.
LEMMA Ends ==
    ASSUME MailboxInv, NEW q \in Posters, posting' = [posting EXCEPT ![q] = NoPosting]
    PROVE /\ posting'[q] = NoPosting /\ DOMAIN posting' = Posters
          /\ \A o \in Posters \ {q} : posting'[o] = posting[o]
BY DEF MailboxInv

\* A request that will write a row, made of the row as it is.
LEMMA SaveBegins ==
    ASSUME MailboxInv, Mixes, NEW q \in Posters, NEW new, Saving(q, new), mailbox' = mailbox, renamed => renamed',
           mailSecret' \in MailKey, AccessRenews', PasswordsStayHome',
           ~mailMixed' => new \in MailRow /\ Opens(new)' /\ (~renamed' => NamedAlike(new))
    PROVE MailboxInv'
<1> PICK r : r = [op |-> "save", old |-> mailbox, new |-> new]
  OBVIOUS
<1>1. r.op = "save" /\ r.old = mailbox /\ r.new = new
  OBVIOUS
<1>2. r # NoPosting
  BY <1>1 DEF NoPosting
<1>3. posting' = [posting EXCEPT ![q] = r]
  BY DEF Saving
<1>4. /\ DOMAIN posting' = Posters /\ posting'[q] = r
      /\ \A o \in Posters \ {q} : posting'[o] = posting[o]
  BY <1>3 DEF MailboxInv
<1>5. ASSUME ~mailMixed' PROVE Orderly'
  <2>1. Orderly /\ \A o \in Posters \ {q} : posting'[o] = NoPosting
    BY <1>2, <1>3, <1>5, MailboxAlone
  <2>2. \A o \in Posters : posting'[o].op = "save" =>
          /\ posting'[o].old = mailbox' /\ posting'[o].new \in MailRow
          /\ (Opens(posting[o].new))' /\ (~renamed' => NamedAlike(posting'[o].new))
    <3> SUFFICES ASSUME NEW o \in Posters, posting'[o].op = "save"
        PROVE /\ posting'[o].old = mailbox' /\ posting'[o].new \in MailRow
              /\ (Opens(posting[o].new))' /\ (~renamed' => NamedAlike(posting'[o].new))
      OBVIOUS
    <3>1. o = q
      BY <2>1 DEF NoPosting
    <3>2. posting'[o].new = new /\ posting'[o].old = mailbox
      BY <1>1, <1>4, <3>1
    <3>3. new \in MailRow /\ Opens(new)' /\ (~renamed' => NamedAlike(new))
      BY <1>5
    <3>. QED
      BY <3>2, <3>3 DEF Opens, NamedAlike
  <2>3. \A o \in Posters : posting'[o].op # "refresh"
    BY <1>1, <1>4, <2>1 DEF NoPosting
  <2>4. posting'[q].op = "save"
    BY <1>1, <1>4
  <2>. QED
    BY <2>1, <2>2, <2>3, <2>4 DEF Orderly, NamedAlike
<1>6. \A o \in Posters : posting'[o].op = "refresh" => posting'[o].box \in Boxes \cup {NoBox}
  BY <1>1, <1>4 DEF MailboxInv
<1>. QED
  BY <1>4, <1>5, <1>6 DEF MailboxInv

\* Nobody has a row to write when a request opens that has nobody beside it.
LEMMA NobodySaves ==
    ASSUME MailboxInv, Mixes, ~mailMixed', NEW q \in Posters, NEW new, CountPosting(q), Saving(q, new)
    PROVE /\ Orderly /\ Opens(mailbox) /\ ~mailMixed
          /\ mailbox.status \in {"unconfigured", "testing", "connected", "degraded", "offline"}
<1> PICK r : r = [op |-> "save", old |-> mailbox, new |-> new]
  OBVIOUS
<1>1. r.op = "save"
  OBVIOUS
<1>2. r # NoPosting /\ posting' = [posting EXCEPT ![q] = r]
  BY <1>1 DEF NoPosting, Saving
<1>3. ~mailMixed /\ Orderly /\ \A o \in Posters \ {q} : posting[o] = NoPosting
  BY <1>2, MailboxAlone
<1>4. \A o \in Posters : posting[o].op = "none"
  BY <1>3 DEF CountPosting, NoPosting
<1>. QED
  BY <1>3, <1>4 DEF Orderly, MailRow

LEMMA RowFields == ASSUME NEW m \in MailRow
    PROVE /\ m.status \in {"unconfigured", "testing", "connected", "degraded", "offline"}
          /\ m.provider \in Boxes \cup {NoBox} /\ m.box \in Boxes \cup {NoBox} /\ m.reference \in BOOLEAN
BY DEF MailRow

\* The row a probe of b has written.
Tried(m, b, res) == [m EXCEPT !.provider = b, !.status = IF @ = "connected" THEN @
                                            ELSE IF res = "connected" THEN "testing" ELSE "offline"]

LEMMA RowTried ==
    ASSUME NEW m \in MailRow, NEW b \in Boxes, NEW res, NEW n, n = Tried(m, b, res)
    PROVE n \in MailRow /\ n.reference = m.reference /\ n.box = m.box /\ n.provider = b
<1> DEFINE s == IF m.status = "connected" THEN "connected" ELSE IF res = "connected" THEN "testing" ELSE "offline"
<1>1. s \in {"unconfigured", "testing", "connected", "degraded", "offline"}
  OBVIOUS
<1>2. n = [m EXCEPT !.provider = b, !.status = s]
  BY DEF Tried
<1>. HIDE DEF s
<1>. QED
  BY <1>1, <1>2 DEF MailRow

LEMMA RowStatus ==
    ASSUME NEW m \in MailRow, NEW s \in {"unconfigured", "testing", "connected", "degraded", "offline"},
           NEW n, n = [m EXCEPT !.status = s]
    PROVE n \in MailRow /\ n.reference = m.reference /\ n.box = m.box /\ n.provider = m.provider
BY DEF MailRow

LEMMA TestKeeps ==
    ASSUME MailboxInv, Mixes, NEW q \in Posters, NEW b \in Boxes, NEW res, TestMailbox(q, b, res)
    PROVE MailboxInv'
<1> PICK n : n = Tried(mailbox, b, res)
  OBVIOUS
<1>1. CountPosting(q) /\ Saving(q, n) /\ renamed' = (renamed \/ Renames(b))
      /\ UNCHANGED <<mailbox, mailSecret, astray, ungranted>>
  BY DEF TestMailbox, Tried
<1>2. mailSecret' \in MailKey /\ AccessRenews' /\ PasswordsStayHome'
  BY <1>1 DEF MailboxInv, AccessRenews, PasswordsStayHome, Mixes
<1>3. ASSUME ~mailMixed' PROVE n \in MailRow /\ Opens(n)' /\ (~renamed' => NamedAlike(n))
  <2>1. Orderly /\ Opens(mailbox) /\ mailbox \in MailRow
    BY <1>1, <1>3, NobodySaves DEF Orderly
  <2>3. n \in MailRow /\ n.reference = mailbox.reference /\ n.box = mailbox.box /\ n.provider = b
    BY <2>1, RowTried
  <2>4. Opens(n)'
    BY <1>1, <2>1, <2>3 DEF Opens
  <2>5. ~renamed' => NamedAlike(n)
    BY <1>1, <2>1, <2>3 DEF Orderly, NamedAlike, Renames
  <2>. QED
    BY <2>3, <2>4, <2>5
<1>. QED
  BY <1>1, <1>2, <1>3, SaveBegins

LEMMA KeyStored == ASSUME NEW b \in Boxes, NEW a \in {"password", "xoauth2"}, NEW r \in BOOLEAN, NEW f \in BOOLEAN
    PROVE [auth |-> a, box |-> b, refresh |-> r, fresh |-> f] \in MailKey
BY DEF MailKey

LEMMA RowConnected == ASSUME NEW b \in Boxes, NEW s \in {"connected", "degraded"}
    PROVE /\ Connected(b, s) \in MailRow /\ Connected(b, s).reference = TRUE /\ Connected(b, s).box = b
          /\ Connected(b, s).provider = b
BY DEF MailRow, Connected

LEMMA MailboxConnectKeeps ==
    ASSUME MailboxInv, Mixes, NEW q \in Posters, NEW b \in Boxes, NEW res \in {"failed", "connected", "degraded"},
           ConnectMailbox(q, b, res)
    PROVE MailboxInv'
<1>1. CASE res = "failed"
  <2> PICK n : n = [mailbox EXCEPT !.status = "offline", !.provider = b]
    OBVIOUS
  <2>1. CountPosting(q) /\ Saving(q, n) /\ renamed' = (renamed \/ Renames(b))
        /\ UNCHANGED <<mailbox, mailSecret, astray, ungranted>>
    BY <1>1 DEF ConnectMailbox
  <2>2. mailSecret' \in MailKey /\ AccessRenews' /\ PasswordsStayHome'
    BY <2>1 DEF MailboxInv, AccessRenews, PasswordsStayHome, Mixes
  <2>3. ASSUME ~mailMixed' PROVE n \in MailRow /\ Opens(n)' /\ (~renamed' => NamedAlike(n))
    <3>1. Orderly /\ Opens(mailbox) /\ mailbox \in MailRow
      BY <2>1, <2>3, NobodySaves DEF Orderly
    <3>2. n \in MailRow /\ n.reference = mailbox.reference /\ n.box = mailbox.box /\ n.provider = b
      BY <3>1 DEF MailRow
    <3>3. Opens(n)'
      BY <2>1, <3>1, <3>2 DEF Opens
    <3>4. ~renamed' => NamedAlike(n)
      BY <2>1, <3>1, <3>2 DEF Orderly, NamedAlike, Renames
    <3>. QED
      BY <3>2, <3>3, <3>4
  <2>. QED
    BY <2>1, <2>2, <2>3, SaveBegins
<1>2. CASE res # "failed"
  <2> PICK n : n = Connected(b, res)
    OBVIOUS
  <2> PICK k : k = [auth |-> "password", box |-> b, refresh |-> FALSE, fresh |-> FALSE]
    OBVIOUS
  <2>1. Saving(q, n) /\ mailSecret' = k /\ UNCHANGED <<mailbox, astray, ungranted, renamed>>
    BY <1>2 DEF ConnectMailbox
  <2>2. mailSecret' \in MailKey /\ mailSecret'.auth = "password" /\ mailSecret'.box = b
    BY <2>1, KeyStored
  <2>3. AccessRenews' /\ PasswordsStayHome'
    BY <2>1, <2>2 DEF MailboxInv, AccessRenews, PasswordsStayHome, Mixes
  <2>4. n \in MailRow /\ n.reference = TRUE /\ n.box = b /\ n.provider = b
    BY <1>2, RowConnected
  <2>5. Opens(n)' /\ NamedAlike(n)
    BY <2>2, <2>4 DEF Opens, NamedAlike
  <2>. QED
    BY <2>1, <2>2, <2>3, <2>4, <2>5, SaveBegins
<1>. QED
  BY <1>1, <1>2

LEMMA DisconnectKeeps == ASSUME MailboxInv, Mixes, NEW q \in Posters, Disconnect(q) PROVE MailboxInv'
<1> PICK n : n = [mailbox EXCEPT !.status = "unconfigured", !.reference = FALSE]
  OBVIOUS
<1>1. CountPosting(q) /\ Saving(q, n) /\ UNCHANGED <<mailbox, astray, ungranted, renamed>>
      /\ mailSecret' = IF mailbox.reference THEN NoMailSecret ELSE mailSecret
  BY DEF Disconnect
<1>2. NoMailSecret \in MailKey /\ NoMailSecret.auth = "none" /\ NoMailSecret.box = NoBox
  BY DEF NoMailSecret, MailKey
<1>3. mailSecret' \in MailKey /\ AccessRenews' /\ PasswordsStayHome'
  BY <1>1, <1>2 DEF MailboxInv, AccessRenews, PasswordsStayHome, Mixes
<1>4. ASSUME ~mailMixed' PROVE n \in MailRow /\ Opens(n)' /\ (~renamed' => NamedAlike(n))
  <2>1. Orderly /\ Opens(mailbox) /\ mailbox \in MailRow
    BY <1>1, <1>4, NobodySaves DEF Orderly
  <2>2. n \in MailRow /\ n.reference = FALSE
    BY <2>1 DEF MailRow
  <2>. QED
    BY <1>1, <1>2, <2>1, <2>2 DEF Opens, NamedAlike
<1>. QED
  BY <1>1, <1>3, <1>4, SaveBegins

LEMMA ReconnectKeeps ==
    ASSUME MailboxInv, Mixes, NEW q \in Posters, NEW res \in {"failed", "connected", "degraded"}, Reconnect(q, res)
    PROVE MailboxInv'
<1> PICK s : s = IF res = "failed" THEN "offline" ELSE res
  OBVIOUS
<1> PICK n : n = [mailbox EXCEPT !.status = s]
  OBVIOUS
<1>1. CountPosting(q) /\ Saving(q, n) /\ mailbox.reference /\ UNCHANGED <<mailbox, mailSecret, ungranted, renamed>>
      /\ astray' = IF mailSecret.auth = "password" /\ HostsOf(mailbox.provider, mailbox.box) # mailSecret.box
                 THEN astray \cup {mailSecret.box} ELSE astray
  BY DEF Reconnect
<1>2. s \in {"unconfigured", "testing", "connected", "degraded", "offline"}
  OBVIOUS
<1>3. ASSUME ~mailMixed' PROVE n \in MailRow /\ Opens(n)' /\ (~renamed' => NamedAlike(n)) /\ (~renamed' => astray' = astray) /\ ~mailMixed
  <2>1. Orderly /\ Opens(mailbox) /\ mailbox \in MailRow /\ ~mailMixed
    BY <1>1, <1>3, NobodySaves DEF Orderly
  <2>2. n \in MailRow /\ n.reference = mailbox.reference /\ n.box = mailbox.box /\ n.provider = mailbox.provider
    BY <1>2, <2>1, RowStatus
  <2>3. ~renamed' => astray' = astray
    BY <1>1, <2>1 DEF Orderly, Opens, NamedAlike, HostsOf
  <2>. QED
    BY <1>1, <2>1, <2>2, <2>3 DEF Opens, NamedAlike, Orderly
<1>4. mailSecret' \in MailKey /\ AccessRenews'
  BY <1>1 DEF MailboxInv, AccessRenews
<1>5. PasswordsStayHome'
  BY <1>1, <1>3 DEF MailboxInv, PasswordsStayHome
<1>. QED
  BY <1>1, <1>3, <1>4, <1>5, SaveBegins

LEMMA GrantedKeeps ==
    ASSUME MailboxInv, Mixes, NEW q \in Posters, NEW b \in OAuthBoxes, NEW f \in BOOLEAN, TokensGranted(q, b, f)
    PROVE MailboxInv'
<1> PICK n : n = Connected(b, "connected")
  OBVIOUS
<1> PICK k : k = [auth |-> "xoauth2", box |-> b, refresh |-> f, fresh |-> TRUE]
  OBVIOUS
<1>1. Saving(q, n) /\ mailSecret' = k /\ UNCHANGED <<mailbox, astray, renamed>> /\ ungranted' = (ungranted \/ ~f)
  BY DEF TokensGranted
<1>2. b \in Boxes
  BY MailboxAssumption
<1>3. mailSecret' \in MailKey /\ mailSecret'.box = b /\ mailSecret'.refresh = f
  BY <1>1, <1>2, KeyStored
<1>4. AccessRenews' /\ PasswordsStayHome'
  BY <1>1, <1>3 DEF MailboxInv, AccessRenews, PasswordsStayHome, Mixes
<1>5. n \in MailRow /\ n.reference = TRUE /\ n.box = b /\ n.provider = b
  BY <1>2, RowConnected
<1>6. Opens(n)' /\ NamedAlike(n)
  BY <1>3, <1>5 DEF Opens, NamedAlike
<1>. QED
  BY <1>1, <1>3, <1>4, <1>5, <1>6, SaveBegins

\* A row made of the columns that were changed, when no other request was open.
LEMMA RowCommitted ==
    ASSUME NEW m \in MailRow, NEW n \in MailRow, NEW x, x = [f \in DOMAIN m |-> IF n[f] # m[f] THEN n[f] ELSE m[f]]
    PROVE x = n
<1>1. DOMAIN m = {"status", "provider", "box", "reference"} /\ DOMAIN n = DOMAIN m
  BY DEF MailRow
<1>2. x = [f \in DOMAIN m |-> n[f]]
  OBVIOUS
<1>3. n = [f \in DOMAIN n |-> n[f]]
  BY DEF MailRow
<1>. QED
  BY <1>1, <1>2, <1>3

LEMMA CommitMailboxKeeps == ASSUME MailboxInv, Mixes, NEW q \in Posters, CommitMailbox(q) PROVE MailboxInv'
<1> PICK r : r = posting[q]
  OBVIOUS
<1>1. r.op = "save" /\ mailbox' = [f \in DOMAIN mailbox |-> IF r.new[f] # r.old[f] THEN r.new[f] ELSE mailbox[f]]
      /\ posting' = [posting EXCEPT ![q] = NoPosting] /\ UNCHANGED <<mailSecret, astray, renamed, ungranted>>
  BY DEF CommitMailbox
<1>2. posting'[q] = NoPosting /\ DOMAIN posting' = Posters /\ \A o \in Posters \ {q} : posting'[o] = posting[o]
  BY <1>1, Ends
<1>3. AccessRenews' /\ PasswordsStayHome' /\ (~mailMixed' => ~mailMixed)
  BY <1>1 DEF MailboxInv, AccessRenews, PasswordsStayHome, Mixes
<1>4. ASSUME ~mailMixed' PROVE Orderly'
  <2>1. Orderly
    BY <1>3, <1>4 DEF MailboxInv
  <2>2. r.old = mailbox /\ r.new \in MailRow /\ Opens(r.new) /\ (~renamed => NamedAlike(r.new)) /\ mailbox \in MailRow
    BY <1>1, <2>1 DEF Orderly
  <2>3. mailbox' = r.new
    BY <1>1, <2>2, RowCommitted
  <2>4. r # NoPosting
    BY <1>1 DEF NoPosting
  <2>5. \A o \in Posters : posting'[o] = NoPosting
    BY <1>2, <2>1, <2>4 DEF Orderly
  <2>. QED
    BY <1>1, <2>2, <2>3, <2>5 DEF Orderly, NoPosting, Opens, NamedAlike
<1>5. \A o \in Posters : posting'[o].op = "refresh" => posting'[o].box \in Boxes \cup {NoBox}
  BY <1>2 DEF NoPosting, MailboxInv
<1>. QED
  BY <1>1, <1>2, <1>3, <1>4, <1>5 DEF MailboxInv

LEMMA RefusedKeeps == ASSUME MailboxInv, Mixes, NEW q \in Posters, TokensRefused(q) PROVE MailboxInv'
<1>1. posting[q].op \in {"callback", "refresh"} /\ posting' = [posting EXCEPT ![q] = NoPosting]
      /\ UNCHANGED <<mailbox, mailSecret, astray, renamed, ungranted>>
  BY DEF TokensRefused
<1>2. posting'[q] = NoPosting /\ DOMAIN posting' = Posters /\ \A o \in Posters \ {q} : posting'[o] = posting[o]
  BY <1>1, Ends
<1>3. AccessRenews' /\ PasswordsStayHome' /\ (~mailMixed' => ~mailMixed)
  BY <1>1 DEF MailboxInv, AccessRenews, PasswordsStayHome, Mixes
<1>4. ASSUME ~mailMixed' PROVE Orderly'
  <2>1. Orderly
    BY <1>3, <1>4 DEF MailboxInv
  <2>2. \A o \in Posters : posting'[o].op = "save" => posting[o].op = "save" /\ posting'[o] = posting[o]
    BY <1>2 DEF NoPosting
  <2>3. \A o \in Posters : posting'[o].op = "refresh" => posting[o].op = "refresh" /\ posting'[o] = posting[o]
    BY <1>2 DEF NoPosting
  <2>4. (\A o \in Posters : posting'[o].op # "save") => \A o \in Posters : posting[o].op # "save"
    BY <1>1, <1>2
  <2>5. \A p, o \in Posters : p # o => posting'[p] = NoPosting \/ posting'[o] = NoPosting
    BY <1>2, <2>1 DEF Orderly
  <2>. QED
    BY <1>1, <2>1, <2>2, <2>3, <2>4, <2>5 DEF Orderly, Opens, NamedAlike
<1>5. \A o \in Posters : posting'[o].op = "refresh" => posting'[o].box \in Boxes \cup {NoBox}
  BY <1>2 DEF NoPosting, MailboxInv
<1>. QED
  BY <1>1, <1>2, <1>3, <1>4, <1>5 DEF MailboxInv

LEMMA RefreshedKeeps == ASSUME MailboxInv, Mixes, NEW q \in Posters, NEW g \in BOOLEAN, Refreshed(q, g) PROVE MailboxInv'
<1> PICK b : b = posting[q].box
  OBVIOUS
<1> PICK k : k = [auth |-> "xoauth2", box |-> b, refresh |-> TRUE, fresh |-> TRUE]
  OBVIOUS
<1>1. posting[q].op = "refresh" /\ posting' = [posting EXCEPT ![q] = NoPosting] /\ mailSecret' = k
      /\ UNCHANGED <<mailbox, astray, renamed, ungranted>>
  BY DEF Refreshed, KeptRefresh
<1>2. posting'[q] = NoPosting /\ DOMAIN posting' = Posters /\ \A o \in Posters \ {q} : posting'[o] = posting[o]
  BY <1>1, Ends
<1>3. b \in Boxes \cup {NoBox}
  BY <1>1 DEF MailboxInv
<1>4. mailSecret' \in MailKey /\ mailSecret'.refresh = TRUE /\ mailSecret'.box = b
  BY <1>1, <1>3 DEF MailKey
<1>5. AccessRenews' /\ PasswordsStayHome' /\ (~mailMixed' => ~mailMixed)
  BY <1>1, <1>4 DEF MailboxInv, AccessRenews, PasswordsStayHome, Mixes
<1>6. ASSUME ~mailMixed' PROVE Orderly'
  <2>1. Orderly /\ mailSecret'.box = mailSecret.box
    BY <1>1, <1>4, <1>5, <1>6 DEF MailboxInv, Orderly
  <2>2. posting[q] # NoPosting
    BY <1>1 DEF NoPosting
  <2>3. \A o \in Posters : posting'[o] = NoPosting /\ posting[o].op # "save"
    BY <1>1, <1>2, <2>1, <2>2 DEF Orderly, NoPosting
  <2>. QED
    BY <1>1, <2>1, <2>3 DEF Orderly, Opens, NamedAlike, NoPosting
<1>7. \A o \in Posters : posting'[o].op = "refresh" => posting'[o].box \in Boxes \cup {NoBox}
  BY <1>2 DEF NoPosting, MailboxInv
<1>. QED
  BY <1>2, <1>4, <1>5, <1>6, <1>7 DEF MailboxInv

\* A callback or a refresh that is asked for.
Asked(q, r) == posting[q] = NoPosting /\ posting' = [posting EXCEPT ![q] = r]

LEMMA AskedKeeps ==
    ASSUME MailboxInv, Mixes, NEW q \in Posters, NEW r,  r.op \in {"callback", "refresh"}, Asked(q, r),
           r.op = "refresh" => r.box = mailSecret.box,
           UNCHANGED <<mailbox, mailSecret, astray, renamed, ungranted>>
    PROVE MailboxInv'
<1>1. DOMAIN posting' = Posters /\ posting'[q] = r /\ \A o \in Posters \ {q} : posting'[o] = posting[o]
  BY DEF MailboxInv, Asked
<1>2. r # NoPosting
  BY DEF NoPosting
<1>3. AccessRenews' /\ PasswordsStayHome'
  BY DEF MailboxInv, AccessRenews, PasswordsStayHome, Mixes
<1>4. ASSUME ~mailMixed' PROVE Orderly'
  <2>1. Orderly /\ \A o \in Posters \ {q} : posting[o] = NoPosting /\ posting'[o] = NoPosting
    BY <1>2, <1>4, MailboxAlone DEF Asked
  <2>2. \A o \in Posters : posting[o].op # "save" /\ posting'[o].op # "save"
    BY <1>1, <2>1 DEF NoPosting, Asked
  <2>3. \A o \in Posters : posting'[o].op = "refresh" => posting'[o].box = mailSecret.box
    BY <1>1, <2>1 DEF NoPosting
  <2>. QED
    BY <2>1, <2>2, <2>3 DEF Orderly, Opens, NamedAlike
<1>5. mailSecret.box \in Boxes \cup {NoBox}
  BY DEF MailboxInv, MailKey
<1>6. \A o \in Posters : posting'[o].op = "refresh" => posting'[o].box \in Boxes \cup {NoBox}
  BY <1>1, <1>5 DEF NoPosting, MailboxInv
<1>. QED
  BY <1>1, <1>3, <1>4, <1>6 DEF MailboxInv

LEMMA RestKeeps ==
    ASSUME MailboxInv, Mixes, UNCHANGED <<mailbox, posting, astray, renamed, ungranted>>,
           mailSecret' = mailSecret \/ mailSecret' = [mailSecret EXCEPT !.fresh = FALSE]
    PROVE MailboxInv'
<1> PICK k : k = mailSecret'
  OBVIOUS
<1>1. k \in MailKey /\ k.auth = mailSecret.auth /\ k.box = mailSecret.box /\ k.refresh = mailSecret.refresh
  BY DEF MailboxInv, MailKey
<1>2. AccessRenews' /\ PasswordsStayHome' /\ (~mailMixed' => ~mailMixed)
  BY <1>1 DEF MailboxInv, AccessRenews, PasswordsStayHome, Mixes
<1>. QED
  BY <1>1, <1>2 DEF MailboxInv, Orderly, Opens, NamedAlike

LEMMA MailboxStepInv == MailboxInv /\ MailboxNext => MailboxInv'
<1> SUFFICES ASSUME MailboxInv, MailboxStep, Mixes PROVE MailboxInv'
  BY DEF MailboxNext, Mixes
<1>1. ASSUME NEW q \in Posters, NEW b \in Boxes, NEW imap \in BOOLEAN, NEW smtp \in BOOLEAN,
             TestMailbox(q, b, Probe(TRUE, imap, smtp)) \/ ConnectMailbox(q, b, Probe(TRUE, imap, smtp))
                \/ Reconnect(q, Probe(TRUE, imap, smtp))
      PROVE MailboxInv'
  <2>1. Probe(TRUE, imap, smtp) \in {"failed", "connected", "degraded"}
    BY DEF Probe
  <2>. QED
    BY <1>1, <2>1, TestKeeps, MailboxConnectKeeps, ReconnectKeeps
<1>2. ASSUME NEW q \in Posters, Disconnect(q) \/ CommitMailbox(q) \/ TokensRefused(q) PROVE MailboxInv'
  BY <1>2, DisconnectKeeps, CommitMailboxKeeps, RefusedKeeps
<1>3. ASSUME NEW q \in Posters, BeginRefresh(q) PROVE MailboxInv'
  <2> PICK r : r = [op |-> "refresh", box |-> mailSecret.box]
    OBVIOUS
  <2>1. r.op \in {"callback", "refresh"} /\ (r.op = "refresh" => r.box = mailSecret.box)
    OBVIOUS
  <2>2. Asked(q, r) /\ UNCHANGED <<mailbox, mailSecret, astray, renamed, ungranted>>
    BY <1>3 DEF BeginRefresh, CountPosting, Asked
  <2>. QED
    BY <2>1, <2>2, AskedKeeps
<1>4. ASSUME NEW s \in Consents, StartConsent(s) PROVE MailboxInv'
  BY <1>4, RestKeeps DEF StartConsent
<1>5. ASSUME NEW q \in Posters, NEW s \in Consents, NEW valid \in BOOLEAN, BeginCallback(q, s, valid) PROVE MailboxInv'
  <2>1. CASE valid
    <3> PICK r : r = [op |-> "callback"]
      OBVIOUS
    <3>1. r.op \in {"callback", "refresh"} /\ (r.op = "refresh" => r.box = mailSecret.box)
      OBVIOUS
    <3>2. Asked(q, r) /\ UNCHANGED <<mailbox, mailSecret, astray, renamed, ungranted>>
      BY <1>5, <2>1 DEF BeginCallback, CountPosting, Asked
    <3>. QED
      BY <3>1, <3>2, AskedKeeps
  <2>2. CASE ~valid
    BY <1>5, <2>2, RestKeeps DEF BeginCallback
  <2>. QED
    BY <2>1, <2>2
<1>6. ASSUME NEW q \in Posters, NEW b \in OAuthBoxes, NEW f \in BOOLEAN, TokensGranted(q, b, f) PROVE MailboxInv'
  BY <1>6, GrantedKeeps
<1>7. ASSUME NEW q \in Posters, NEW g \in BOOLEAN, Refreshed(q, g) PROVE MailboxInv'
  BY <1>7, RefreshedKeeps
<1>8. CASE TokenExpires
  BY <1>8, RestKeeps DEF TokenExpires
<1>. QED
  BY <1>1, <1>2, <1>3, <1>4, <1>5, <1>6, <1>7, <1>8 DEF MailboxStep

LEMMA MailboxHolds == MailboxInv => SecretOfTheMailbox /\ PasswordsStayHome /\ AccessRenews
BY DEF MailboxInv, Orderly, SecretOfTheMailbox, NoPosting, Opens

--------------------------------------------------------------------------------
(* Keys of AI providers and the active one (ProviderConnections) *)

SettingRow == [op : SettingOp, kind : Kinds, step : {"load", "probe", "write"}, saw : [Kinds -> ProviderRow],
               got : ProviderState \cup {"none"}, put : BOOLEAN, met : SUBSET SettingOp]

\* A request that has touched the key of k and has its row still to write, and one
\* that has met none that touches a key.
KeyWriter(q, k) == /\ setting[q] # NoSetting /\ setting[q].op \in TouchesKey
                   /\ setting[q].kind = k /\ setting[q].step = "write"
Unmet(r) == r.met \cap TouchesKey = {}

\* An open request, by itself.
SettingFine(r) ==
    /\ r \in SettingRow
    /\ r.op \in {"local_connect", "local_test"} => r.kind = "local"
    /\ r.op \in {"cloud_login", "cloud_logout"} => r.kind = "cloud"
    /\ r.put => r.op \in {"local_connect", "cloud_login"}
    /\ r.step = "probe" => r.op \in Probes
    /\ (r.step = "write" /\ r.op \in Probes) => r.got \in ProviderState

ProviderInv ==
    /\ connection \in [Kinds -> ProviderRow] /\ DOMAIN setting = Setters
    /\ \A k \in Kinds : ~connection[k].there => ~connection[k].secret
    /\ \A q \in Setters : setting[q] # NoSetting => SettingFine(setting[q])
    /\ \A q \in Setters : (setting[q] # NoSetting /\ setting[q].op \in TouchesKey /\ Unmet(setting[q]))
          => setting[q].saw[setting[q].kind].secret = connection[setting[q].kind].secret
    /\ \A k \in Kinds : k \in strayed \/ (connection[k].secret <=> k \in storedKeys) \/ \E q \in Setters : KeyWriter(q, k)
    /\ \A k \in Kinds \ strayed, q \in Setters :
          (KeyWriter(q, k) /\ Unmet(setting[q]) /\ \A o \in Setters \ {q} : ~KeyWriter(o, k))
             => (k \in storedKeys <=> Wanted(setting[q], k).secret)

LEMMA RowsFresh == NoRow \in ProviderRow /\ FreshRow \in ProviderRow /\ ~NoRow.secret /\ ~FreshRow.secret /\ FreshRow.there
BY DEF NoRow, FreshRow, ProviderRow, ProviderState

LEMMA ProviderInitInv == ProviderInit => ProviderInv
<1> SUFFICES ASSUME ProviderInit PROVE ProviderInv
  OBVIOUS
<1>1. connection \in [Kinds -> ProviderRow] /\ \A k \in Kinds : (connection[k].secret <=> k \in storedKeys)
      /\ (~connection[k].there => ~connection[k].secret)
  <2>1. CASE connection = [k \in Kinds |-> NoRow] /\ storedKeys = {}
    BY <2>1, RowsFresh
  <2>2. CASE \E active \in SUBSET {"local"} :
             /\ connection = [k \in Kinds |-> [there |-> TRUE, state |-> "connected", secret |-> TRUE,
                                              active |-> k \in active]]
             /\ storedKeys = Kinds
    BY <2>2 DEF ProviderRow, ProviderState
  <2>. QED
    BY <2>1, <2>2 DEF ProviderInit
<1>2. DOMAIN setting = Setters /\ \A q \in Setters : setting[q] = NoSetting
  BY DEF ProviderInit
<1>. QED
  BY <1>1, <1>2 DEF ProviderInv, KeyWriter

LEMMA ProviderStutters == ProviderInv /\ UNCHANGED providerVars => ProviderInv'
BY DEF ProviderInv, providerVars, KeyWriter

LEMMA ProviderHolds == ProviderInv => KeysFollowRows
BY DEF ProviderInv, KeysFollowRows, KeyWriter

\* One request goes a step that writes no key and leaves what it has found.
LEMMA ProviderRequestKeeps ==
    ASSUME ProviderInv, NEW q \in Setters, NEW r, DOMAIN setting' = Setters, setting'[q] = r, SettingFine(r),
           \A o \in Setters \ {q} : setting'[o] = setting[o],
           UNCHANGED <<connection, storedKeys, strayed>>,
           r.step # "write" \/ r.op \notin TouchesKey, ~(setting[q] # NoSetting /\ setting[q].step = "write"),
           (r.op \in TouchesKey /\ Unmet(r)) => r.saw[r.kind].secret = connection[r.kind].secret
    PROVE ProviderInv'
<1>1. \A o \in Setters, k \in Kinds : KeyWriter(o, k)' <=> KeyWriter(o, k)
  BY DEF KeyWriter
<1>2. \A o \in Setters, k \in Kinds : KeyWriter(o, k) => setting'[o] = setting[o]
  BY DEF KeyWriter
<1>3. \A o \in Setters : setting'[o] # NoSetting => SettingFine(setting'[o])
  BY DEF ProviderInv
<1>4. \A o \in Setters : (setting'[o] # NoSetting /\ setting'[o].op \in TouchesKey /\ Unmet(setting'[o]))
          => setting'[o].saw[setting'[o].kind].secret = connection'[setting'[o].kind].secret
  BY DEF ProviderInv
<1>5. ASSUME NEW k \in Kinds \ strayed', NEW o \in Setters, KeyWriter(o, k)', Unmet(setting'[o]),
             \A p \in Setters \ {o} : ~KeyWriter(p, k)'
      PROVE k \in storedKeys' <=> Wanted(setting'[o], k).secret
  <2>1. KeyWriter(o, k) /\ setting'[o] = setting[o]
    BY <1>1, <1>2, <1>5
  <2>2. \A p \in Setters \ {o} : ~KeyWriter(p, k)
    BY <1>1, <1>5
  <2>. QED
    BY <1>5, <2>1, <2>2 DEF ProviderInv
<1>. QED
  BY <1>1, <1>3, <1>4, <1>5 DEF ProviderInv

LEMMA ProviderOpenKeeps ==
    ASSUME ProviderInv, NEW q \in Setters, NEW op \in SettingOp, NEW kind \in Kinds, OpenSetting(q, op, kind)
    PROVE ProviderInv'
<1> PICK r : r = [op |-> op, kind |-> kind, step |-> "load", saw |-> connection, got |-> "none",
                  put |-> FALSE, met |-> {}]
  OBVIOUS
<1>1. r \in SettingRow
  BY DEF SettingRow, ProviderInv
<1>2. SettingFine(r)
  BY <1>1 DEF SettingFine, OpenSetting, Target, AboutLocal, Probes, MovesActive
<1>3. setting' = [setting EXCEPT ![q] = r] /\ setting[q] = NoSetting /\ UNCHANGED <<connection, storedKeys, strayed>>
  BY DEF OpenSetting
<1>4. DOMAIN setting' = Setters /\ setting'[q] = r /\ \A o \in Setters \ {q} : setting'[o] = setting[o]
  BY <1>3 DEF ProviderInv
<1>5. r.step # "write" /\ r.saw[r.kind].secret = connection[r.kind].secret
  OBVIOUS
<1>. QED
  BY <1>2, <1>3, <1>4, <1>5, ProviderRequestKeeps

LEMMA ProviderCreateKeeps == ASSUME ProviderInv, NEW q \in Setters, NEW k \in Kinds, GetOrCreate(q, k) PROVE ProviderInv'
<1> PICK was : was = IF connection[k].there THEN connection[k] ELSE FreshRow
  OBVIOUS
<1> PICK r : r = [setting[q] EXCEPT !.saw[k] = was]
  OBVIOUS
<1>0. setting[q] # NoSetting /\ setting[q].step = "load" /\ SettingFine(setting[q]) /\ setting[q] \in SettingRow
  BY DEF GetOrCreate, ProviderInv, SettingFine
<1>1. was \in ProviderRow /\ was.secret = connection[k].secret
  BY RowsFresh DEF ProviderInv, ProviderRow
<1>2. r \in SettingRow
  BY <1>0, <1>1 DEF SettingRow
<1>3. /\ r.op = setting[q].op /\ r.kind = setting[q].kind /\ r.step = "load" /\ r.met = setting[q].met /\ r.put = setting[q].put
      /\ r.saw[k] = was /\ \A j \in Kinds \ {k} : r.saw[j] = setting[q].saw[j]
  BY <1>0 DEF SettingRow
<1>4. SettingFine(r)
  BY <1>0, <1>2, <1>3 DEF SettingFine
<1>5. setting' = [setting EXCEPT ![q].saw[k] = was] /\ UNCHANGED <<connection, storedKeys, strayed>>
  BY DEF GetOrCreate
<1>6. DOMAIN setting' = Setters /\ setting'[q] = r /\ \A o \in Setters \ {q} : setting'[o] = setting[o]
  BY <1>5 DEF ProviderInv
<1>7. (r.op \in TouchesKey /\ Unmet(r)) => r.saw[r.kind].secret = connection[r.kind].secret
  <2> SUFFICES ASSUME r.op \in TouchesKey, Unmet(r) PROVE r.saw[r.kind].secret = connection[r.kind].secret
    OBVIOUS
  <2>1. setting[q].saw[setting[q].kind].secret = connection[setting[q].kind].secret
    BY <1>0, <1>3 DEF ProviderInv, Unmet
  <2>. QED
    BY <1>0, <1>1, <1>3, <2>1 DEF SettingRow
<1>. QED
  BY <1>0, <1>3, <1>4, <1>5, <1>6, <1>7, ProviderRequestKeeps

LEMMA ProbeKeeps == ASSUME ProviderInv, NEW q \in Setters, BeginProbe(q) PROVE ProviderInv'
<1> PICK r : r = [setting[q] EXCEPT !.step = "probe"]
  OBVIOUS
<1>0. setting[q] # NoSetting /\ setting[q].step = "load" /\ SettingFine(setting[q]) /\ setting[q] \in SettingRow
  BY DEF BeginProbe, SettingLoaded, ProviderInv, SettingFine
<1>1. r \in SettingRow
  BY <1>0 DEF SettingRow
<1>2. /\ r.op = setting[q].op /\ r.kind = setting[q].kind /\ r.step = "probe" /\ r.met = setting[q].met /\ r.put = setting[q].put
      /\ r.saw = setting[q].saw
  BY <1>0 DEF SettingRow
<1>3. SettingFine(r)
  BY <1>0, <1>1, <1>2 DEF SettingFine, BeginProbe
<1>4. setting' = [setting EXCEPT ![q].step = "probe"] /\ UNCHANGED <<connection, storedKeys, strayed>>
  BY DEF BeginProbe
<1>5. DOMAIN setting' = Setters /\ setting'[q] = r /\ \A o \in Setters \ {q} : setting'[o] = setting[o]
  BY <1>4 DEF ProviderInv
<1>6. (r.op \in TouchesKey /\ Unmet(r)) => r.saw[r.kind].secret = connection[r.kind].secret
  BY <1>0, <1>2 DEF ProviderInv, Unmet
<1>. QED
  BY <1>0, <1>2, <1>3, <1>4, <1>5, <1>6, ProviderRequestKeeps

\* A request that touches the key of its provider has the row still to write.
LEMMA ProviderTouchKeeps ==
    ASSUME ProviderInv, NEW q \in Setters, NEW r, DOMAIN setting' = Setters, setting'[q] = r, SettingFine(r),
           setting[q] # NoSetting, setting[q].step # "write",
           \A o \in Setters \ {q} : setting'[o] = setting[o], UNCHANGED <<connection, strayed>>,
           r.op = setting[q].op, r.kind = setting[q].kind, r.saw = setting[q].saw, r.met = setting[q].met,
           r.step = "write", r.op \in TouchesKey,
           \A k \in Kinds \ {r.kind} : k \in storedKeys' <=> k \in storedKeys,
           (setting[q].saw[r.kind].secret <=> r.kind \in storedKeys) => (r.kind \in storedKeys' <=> Wanted(r, r.kind).secret)
    PROVE ProviderInv'
<1>1. r.kind \in Kinds /\ r # NoSetting
  BY DEF SettingFine, SettingRow, NoSetting
<1>2. \A o \in Setters, k \in Kinds : KeyWriter(o, k)' <=> (KeyWriter(o, k) \/ (o = q /\ k = r.kind))
  BY <1>1 DEF KeyWriter
<1>3. \A k \in Kinds : ~KeyWriter(q, k)
  BY DEF KeyWriter
<1>4. \A o \in Setters : setting'[o] # NoSetting => SettingFine(setting'[o])
  BY DEF ProviderInv
<1>5. \A o \in Setters : (setting'[o] # NoSetting /\ setting'[o].op \in TouchesKey /\ Unmet(setting'[o]))
          => setting'[o].saw[setting'[o].kind].secret = connection'[setting'[o].kind].secret
  BY DEF ProviderInv, Unmet
<1>6. \A k \in Kinds : k \in strayed' \/ (connection'[k].secret <=> k \in storedKeys') \/ \E o \in Setters : KeyWriter(o, k)'
  <2> SUFFICES ASSUME NEW k \in Kinds
      PROVE k \in strayed' \/ (connection'[k].secret <=> k \in storedKeys') \/ \E o \in Setters : KeyWriter(o, k)'
    OBVIOUS
  <2>1. CASE k = r.kind
    BY <1>2, <2>1
  <2>2. CASE k # r.kind
    BY <1>2, <2>2 DEF ProviderInv
  <2>. QED
    BY <2>1, <2>2
<1>7. ASSUME NEW k \in Kinds \ strayed', NEW o \in Setters, KeyWriter(o, k)', Unmet(setting'[o]),
             \A p \in Setters \ {o} : ~KeyWriter(p, k)'
      PROVE k \in storedKeys' <=> Wanted(setting'[o], k).secret
  <2>1. CASE k = r.kind
    <3>1. o = q /\ \A p \in Setters : ~KeyWriter(p, k)
      BY <1>2, <1>3, <1>7, <2>1
    <3>2. connection[k].secret <=> k \in storedKeys
      BY <3>1 DEF ProviderInv
    <3>3. setting[q].saw[k].secret = connection[k].secret
      BY <1>7, <2>1, <3>1 DEF ProviderInv, Unmet
    <3>4. connection[k].secret \in BOOLEAN
      BY DEF ProviderInv, ProviderRow
    <3>. QED
      BY <2>1, <3>1, <3>2, <3>3, <3>4
  <2>2. CASE k # r.kind
    <3>1. KeyWriter(o, k) /\ o # q /\ setting'[o] = setting[o] /\ \A p \in Setters \ {o} : ~KeyWriter(p, k)
      BY <1>2, <1>3, <1>7, <2>2
    <3>. QED
      BY <1>7, <2>2, <3>1 DEF ProviderInv
  <2>. QED
    BY <2>1, <2>2
<1>. QED
  BY <1>4, <1>5, <1>6, <1>7 DEF ProviderInv

LEMMA AnsweredKeeps ==
    ASSUME ProviderInv, NEW q \in Setters, NEW outcome \in ProviderState, NEW withKey \in BOOLEAN, Answered(q, outcome, withKey)
    PROVE ProviderInv'
<1> PICK r : r = [setting[q] EXCEPT !.step = "write", !.got = outcome, !.put = withKey]
  OBVIOUS
<1>0. setting[q] # NoSetting /\ setting[q].step = "probe" /\ SettingFine(setting[q]) /\ setting[q] \in SettingRow
  BY DEF Answered, ProviderInv, SettingFine
<1>1. /\ r.op = setting[q].op /\ r.kind = setting[q].kind /\ r.step = "write" /\ r.met = setting[q].met /\ r.put = withKey
      /\ r.saw = setting[q].saw /\ r.got = outcome
  BY <1>0 DEF SettingRow
<1>2. r \in SettingRow
  BY <1>0 DEF SettingRow
<1>3. SettingFine(r)
  BY <1>0, <1>1, <1>2 DEF SettingFine, Answered, Probes
<1>4. setting' = [setting EXCEPT ![q].step = "write", ![q].got = outcome, ![q].put = withKey]
      /\ storedKeys' = (IF withKey THEN storedKeys \cup {r.kind} ELSE storedKeys) /\ UNCHANGED <<connection, strayed>>
  BY <1>1 DEF Answered
<1>5. DOMAIN setting' = Setters /\ setting'[q] = r /\ \A o \in Setters \ {q} : setting'[o] = setting[o]
  BY <1>4 DEF ProviderInv
<1>6. CASE r.op \in TouchesKey
  <2>1. r.op \in Probes
    BY <1>0, <1>1 DEF SettingFine
  <2>2. Wanted(r, r.kind).secret <=> (r.saw[r.kind].secret \/ withKey)
    BY <1>0, <1>1, <2>1 DEF Wanted, SettingRow, ProviderRow
  <2>3. \A k \in Kinds \ {r.kind} : k \in storedKeys' <=> k \in storedKeys
    BY <1>4
  <2>4. (setting[q].saw[r.kind].secret <=> r.kind \in storedKeys) => (r.kind \in storedKeys' <=> Wanted(r, r.kind).secret)
    BY <1>1, <1>4, <2>2
  <2>. QED
    BY <1>0, <1>1, <1>3, <1>4, <1>5, <1>6, <2>3, <2>4, ProviderTouchKeeps
<1>7. CASE r.op \notin TouchesKey
  <2>1. ~withKey
    BY <1>3, <1>1, <1>7 DEF SettingFine, TouchesKey
  <2>2. UNCHANGED <<connection, storedKeys, strayed>>
    BY <1>4, <2>1
  <2>. QED
    BY <1>0, <1>3, <1>5, <1>7, <2>2, ProviderRequestKeeps
<1>. QED
  BY <1>6, <1>7

LEMMA MoveKeeps == ASSUME ProviderInv, NEW q \in Setters, BeginMove(q) PROVE ProviderInv'
<1> PICK r : r = [setting[q] EXCEPT !.step = "write"]
  OBVIOUS
<1>0. /\ setting[q] # NoSetting /\ setting[q].step = "load" /\ SettingFine(setting[q]) /\ setting[q] \in SettingRow
      /\ setting[q].op \in {"cloud_logout", "set_active"}
  BY DEF BeginMove, SettingLoaded, ProviderInv, SettingFine, MovesActive
<1>1. /\ r.op = setting[q].op /\ r.kind = setting[q].kind /\ r.step = "write" /\ r.met = setting[q].met /\ r.put = setting[q].put
      /\ r.saw = setting[q].saw /\ r.got = setting[q].got
  BY <1>0 DEF SettingRow
<1>2. r \in SettingRow
  BY <1>0 DEF SettingRow
<1>3. SettingFine(r)
  BY <1>0, <1>1, <1>2 DEF SettingFine, Probes
<1>4. setting' = [setting EXCEPT ![q].step = "write"]
      /\ storedKeys' = (IF r.op = "cloud_logout" /\ r.saw["cloud"].secret THEN storedKeys \ {"cloud"} ELSE storedKeys)
      /\ UNCHANGED <<connection, strayed>>
  BY <1>1 DEF BeginMove, ForgetKey
<1>5. DOMAIN setting' = Setters /\ setting'[q] = r /\ \A o \in Setters \ {q} : setting'[o] = setting[o]
  BY <1>4 DEF ProviderInv
<1>6. CASE r.op = "cloud_logout"
  <2>1. r.kind = "cloud" /\ r.op \in TouchesKey
    BY <1>3, <1>6 DEF SettingFine, TouchesKey
  <2>2. ~Wanted(r, r.kind).secret
    BY <1>6, <2>1, RowsFresh DEF Wanted, Probes
  <2>3. \A k \in Kinds \ {r.kind} : k \in storedKeys' <=> k \in storedKeys
    BY <1>4, <2>1
  <2>4. (setting[q].saw[r.kind].secret <=> r.kind \in storedKeys) => (r.kind \in storedKeys' <=> Wanted(r, r.kind).secret)
    BY <1>1, <1>4, <1>6, <2>1, <2>2
  <2>. QED
    BY <1>0, <1>1, <1>3, <1>4, <1>5, <2>1, <2>3, <2>4, ProviderTouchKeeps
<1>7. CASE r.op = "set_active"
  <2>1. r.op \notin TouchesKey /\ UNCHANGED <<connection, storedKeys, strayed>>
    BY <1>4, <1>7 DEF TouchesKey
  <2>. QED
    BY <1>0, <1>3, <1>5, <2>1, ProviderRequestKeeps
<1>. QED
  BY <1>0, <1>1, <1>6, <1>7

\* The requests that are left when one ends have met it.
LEMMA EndMet ==
    ASSUME ProviderInv, NEW q \in Setters, setting[q] # NoSetting, EndSetting(q)
    PROVE /\ DOMAIN setting' = Setters /\ setting'[q] = NoSetting
          /\ \A o \in Setters \ {q} : setting[o] = NoSetting => setting'[o] = NoSetting
          /\ \A o \in Setters \ {q} : setting[o] # NoSetting =>
                /\ setting'[o] # NoSetting /\ SettingFine(setting'[o])
                /\ setting'[o].op = setting[o].op /\ setting'[o].kind = setting[o].kind /\ setting'[o].step = setting[o].step
                /\ setting'[o].saw = setting[o].saw /\ setting'[o].put = setting[o].put /\ setting'[o].got = setting[o].got
                /\ Unmet(setting'[o]) => Unmet(setting[o]) /\ setting[q].op \notin TouchesKey
<1> PICK e : e = {setting[q].op} \ {"local_test"}
  OBVIOUS
<1>0. e \in SUBSET SettingOp
  BY DEF ProviderInv, SettingFine, SettingRow
<1>1. setting' = [o \in Setters |-> IF o = q THEN NoSetting
                     ELSE IF setting[o] # NoSetting THEN [setting[o] EXCEPT !.met = @ \cup e] ELSE setting[o]]
  BY DEF EndSetting
<1>2. ASSUME NEW o \in Setters \ {q}, setting[o] # NoSetting
      PROVE /\ setting'[o] # NoSetting /\ SettingFine(setting'[o])
            /\ setting'[o].op = setting[o].op /\ setting'[o].kind = setting[o].kind /\ setting'[o].step = setting[o].step
            /\ setting'[o].saw = setting[o].saw /\ setting'[o].put = setting[o].put /\ setting'[o].got = setting[o].got
            /\ Unmet(setting'[o]) => Unmet(setting[o]) /\ setting[q].op \notin TouchesKey
  <2>0. SettingFine(setting[o]) /\ setting[o] \in SettingRow
    BY <1>2 DEF ProviderInv, SettingFine
  <2>1. PICK n : n = [setting[o] EXCEPT !.met = @ \cup e]
    OBVIOUS
  <2>2. setting'[o] = n
    BY <1>1, <1>2, <2>1
  <2>3. n \in SettingRow
    BY <1>0, <2>0, <2>1 DEF SettingRow
  <2>4. /\ n.op = setting[o].op /\ n.kind = setting[o].kind /\ n.step = setting[o].step /\ n.saw = setting[o].saw
        /\ n.put = setting[o].put /\ n.got = setting[o].got /\ n.met = setting[o].met \cup e
    BY <2>0, <2>1 DEF SettingRow
  <2>5. n # NoSetting
    BY <2>0, <2>4 DEF NoSetting, SettingRow, SettingOp, Probes, MovesActive
  <2>6. SettingFine(n)
    BY <2>0, <2>3, <2>4 DEF SettingFine
  <2>7. Unmet(n) => Unmet(setting[o]) /\ setting[q].op \notin TouchesKey
    BY <2>4 DEF Unmet, TouchesKey
  <2>. QED
    BY <2>2, <2>4, <2>5, <2>6, <2>7
<1>3. DOMAIN setting' = Setters /\ setting'[q] = NoSetting /\ \A o \in Setters \ {q} : setting[o] = NoSetting => setting'[o] = NoSetting
  BY <1>1
<1>. QED
  BY <1>2, <1>3

\* What is wanted of a row does not depend on whom a request has met.
LEMMA SameWanted ==
    ASSUME NEW r, NEW n, NEW k, n.op = r.op, n.kind = r.kind, n.saw = r.saw, n.put = r.put, n.got = r.got
    PROVE Wanted(n, k) = Wanted(r, k)
BY DEF Wanted

\* A request ends that was touching no key, or leaves the key astray, or has written the
\* row its key asks for.
LEMMA ProviderEndKeeps ==
    ASSUME ProviderInv, NEW q \in Setters, setting[q] # NoSetting, EndSetting(q), storedKeys' = storedKeys,
           connection' \in [Kinds -> ProviderRow], strayed \subseteq strayed',
           \A k \in Kinds : ~connection'[k].there => ~connection'[k].secret,
           \A k \in Kinds : connection'[k].secret # connection[k].secret => KeyWriter(q, k),
           \A k \in Kinds \ strayed' : KeyWriter(q, k) =>
               Unmet(setting[q]) /\ connection'[k].secret = Wanted(setting[q], k).secret
    PROVE ProviderInv'
<1> USE EndMet
<1>1. \A o \in Setters, k \in Kinds : KeyWriter(o, k)' <=> (o # q /\ KeyWriter(o, k))
  BY DEF KeyWriter
<1>2. \A o \in Setters : setting'[o] # NoSetting => SettingFine(setting'[o])
  OBVIOUS
<1>3. ASSUME NEW o \in Setters, setting'[o] # NoSetting, setting'[o].op \in TouchesKey, Unmet(setting'[o])
      PROVE setting'[o].saw[setting'[o].kind].secret = connection'[setting'[o].kind].secret
  <2>1. o # q /\ setting[o] # NoSetting /\ Unmet(setting[o]) /\ setting[q].op \notin TouchesKey
    BY <1>3
  <2>2. setting[o].kind \in Kinds /\ setting[o].op \in TouchesKey
    BY <1>3, <2>1 DEF ProviderInv, SettingFine, SettingRow
  <2>3. setting[o].saw[setting[o].kind].secret = connection[setting[o].kind].secret
    BY <2>1, <2>2 DEF ProviderInv
  <2>4. connection'[setting[o].kind].secret = connection[setting[o].kind].secret
    BY <2>1, <2>2 DEF KeyWriter
  <2>. QED
    BY <1>3, <2>1, <2>3, <2>4
<1>4. ASSUME NEW k \in Kinds, k \notin strayed', \A o \in Setters : ~KeyWriter(o, k)'
      PROVE connection'[k].secret <=> k \in storedKeys'
  <2>1. \A o \in Setters \ {q} : ~KeyWriter(o, k)
    BY <1>1, <1>4
  <2>2. CASE KeyWriter(q, k)
    <3>1. Unmet(setting[q]) /\ connection'[k].secret = Wanted(setting[q], k).secret
      BY <1>4, <2>2
    <3>2. k \in storedKeys <=> Wanted(setting[q], k).secret
      BY <1>4, <2>1, <2>2, <3>1 DEF ProviderInv
    <3>. QED
      BY <3>1, <3>2
  <2>3. CASE ~KeyWriter(q, k)
    <3>1. connection[k].secret <=> k \in storedKeys
      BY <1>4, <2>1, <2>3 DEF ProviderInv
    <3>2. connection'[k].secret = connection[k].secret
      BY <2>3
    <3>. QED
      BY <3>1, <3>2
  <2>. QED
    BY <2>2, <2>3
<1>5. ASSUME NEW k \in Kinds \ strayed', NEW o \in Setters, KeyWriter(o, k)', Unmet(setting'[o]),
             \A p \in Setters \ {o} : ~KeyWriter(p, k)'
      PROVE k \in storedKeys' <=> Wanted(setting'[o], k).secret
  <2>1. o # q /\ KeyWriter(o, k)
    BY <1>1, <1>5
  <2>2. setting[o] # NoSetting /\ Unmet(setting[o]) /\ setting[q].op \notin TouchesKey
    BY <1>5, <2>1 DEF KeyWriter
  <2>3. \A p \in Setters \ {o} : ~KeyWriter(p, k)
    BY <1>1, <1>5, <2>2 DEF KeyWriter
  <2>4. k \in storedKeys <=> Wanted(setting[o], k).secret
    BY <1>5, <2>1, <2>2, <2>3 DEF ProviderInv
  <2>5. Wanted(setting'[o], k) = Wanted(setting[o], k)
    BY <2>1, <2>2, SameWanted
  <2>. QED
    BY <2>4, <2>5
<1>. QED
  BY <1>2, <1>3, <1>4, <1>5 DEF ProviderInv

LEMMA WrittenRow ==
    ASSUME ProviderInv, NEW q \in Setters, setting[q] # NoSetting, setting[q].step = "write", NEW k \in Kinds,
           k \in Needed(setting[q])
    PROVE /\ Written(setting[q], k) \in ProviderRow /\ Written(setting[q], k).there
          /\ Written(setting[q], k).secret = connection[k].secret \/ Written(setting[q], k).secret = Wanted(setting[q], k).secret
          /\ setting[q].op \notin TouchesKey => Written(setting[q], k).secret = connection[k].secret
          /\ (setting[q].op \in TouchesKey /\ setting[q].kind # k) => Written(setting[q], k).secret = connection[k].secret
          /\ setting[q].saw[k].secret = connection[k].secret => Written(setting[q], k).secret = Wanted(setting[q], k).secret
<1> PICK r : r = setting[q]
  OBVIOUS
<1>0. SettingFine(r) /\ r \in SettingRow /\ r.saw[k] \in ProviderRow /\ connection[k] \in ProviderRow /\ r.step = "write"
  BY DEF ProviderInv, SettingFine, SettingRow
<1> PICK w : w = Wanted(r, k)
  OBVIOUS
<1>1. w \in ProviderRow
  <2>1. CASE r.op \in Probes
    BY <1>0, <2>1 DEF Wanted, ProviderRow, SettingFine, SettingRow
  <2>2. CASE r.op \notin Probes
    BY <1>0, <2>2, RowsFresh DEF Wanted, ProviderRow
  <2>. QED
    BY <2>1, <2>2
<1>2. (r.op \notin TouchesKey \/ r.kind # k) => w.secret = r.saw[k].secret
  <2> SUFFICES ASSUME r.op \notin TouchesKey \/ r.kind # k PROVE w.secret = r.saw[k].secret
    OBVIOUS
  <2>1. CASE r.op \in Probes
    <3>1. w.secret = (r.saw[k].secret \/ r.put)
      BY <1>0, <2>1 DEF Wanted, ProviderRow
    <3>2. r.op = "local_test"
      BY <1>0, <2>1 DEF SettingFine, TouchesKey, Needed, Probes, AboutLocal
    <3>3. r.put = FALSE
      BY <1>0, <3>2 DEF SettingFine, SettingRow
    <3>. QED
      BY <1>0, <3>1, <3>3 DEF ProviderRow
  <2>2. CASE r.op = "set_active"
    BY <1>0, <2>2 DEF Wanted, ProviderRow, Probes
  <2>3. CASE r.op = "cloud_logout"
    BY <1>0, <2>3 DEF Wanted, ProviderRow, Probes, TouchesKey, SettingFine
  <2>. QED
    BY <1>0, <2>1, <2>2, <2>3 DEF SettingRow, SettingOp, MovesActive
<1>3. PICK n : n = Written(r, k)
  OBVIOUS
<1>4. n = [there |-> TRUE,
           state |-> IF w.state # r.saw[k].state \/ r.op \in Probes THEN w.state ELSE connection[k].state,
           secret |-> IF w.secret # r.saw[k].secret THEN w.secret ELSE connection[k].secret,
           active |-> IF w.active # r.saw[k].active THEN w.active ELSE connection[k].active]
  BY <1>3 DEF Written
<1>5. n \in ProviderRow /\ n.there /\ n.secret = IF w.secret # r.saw[k].secret THEN w.secret ELSE connection[k].secret
  <2>1. n.there = TRUE /\ n.secret = (IF w.secret # r.saw[k].secret THEN w.secret ELSE connection[k].secret)
    BY <1>4
  <2>2. n \in ProviderRow
    BY <1>0, <1>1, <1>4 DEF ProviderRow
  <2>. QED
    BY <2>1, <2>2
<1>. QED
  BY <1>2, <1>3, <1>5

LEMMA ProviderCommitKeeps == ASSUME ProviderInv, NEW q \in Setters, CommitSetting(q) PROVE ProviderInv'
<1> PICK r : r = setting[q]
  OBVIOUS
<1>0. r # NoSetting /\ r.step = "write" /\ SettingFine(r) /\ EndSetting(q) /\ storedKeys' = storedKeys
  BY DEF CommitSetting, ProviderInv
<1>1. connection' = [k \in Kinds |-> IF k \in Needed(r) THEN Written(r, k) ELSE connection[k]]
  BY DEF CommitSetting
<1>2. connection' \in [Kinds -> ProviderRow] /\ \A k \in Kinds : ~connection'[k].there => ~connection'[k].secret
  BY <1>0, <1>1, WrittenRow DEF ProviderInv
<1>3. strayed \subseteq strayed' /\ (r.op \in TouchesKey /\ ~Unmet(r) => r.kind \in strayed')
  BY DEF CommitSetting, Unmet
<1>4. \A k \in Kinds : connection'[k].secret # connection[k].secret => KeyWriter(q, k)
  <2> SUFFICES ASSUME NEW k \in Kinds, connection'[k].secret # connection[k].secret PROVE KeyWriter(q, k)
    OBVIOUS
  <2>1. k \in Needed(r) /\ connection'[k] = Written(r, k)
    BY <1>1
  <2>2. r.op \in TouchesKey /\ r.kind = k
    BY <1>0, <2>1, WrittenRow
  <2>. QED
    BY <1>0, <2>2 DEF KeyWriter
<1>5. \A k \in Kinds \ strayed' : KeyWriter(q, k) =>
               Unmet(setting[q]) /\ connection'[k].secret = Wanted(setting[q], k).secret
  <2> SUFFICES ASSUME NEW k \in Kinds \ strayed', KeyWriter(q, k)
      PROVE Unmet(r) /\ connection'[k].secret = Wanted(r, k).secret
    OBVIOUS
  <2>1. r.op \in TouchesKey /\ r.kind = k
    BY DEF KeyWriter
  <2>2. Unmet(r)
    BY <1>3, <2>1
  <2>3. r.saw[k].secret = connection[k].secret
    BY <1>0, <2>1, <2>2 DEF ProviderInv
  <2>4. k \in Needed(r)
    BY <1>0, <2>1 DEF Needed, SettingFine, TouchesKey, AboutLocal
  <2>5. connection'[k] = Written(r, k)
    BY <1>1, <2>4
  <2>. QED
    BY <1>0, <2>2, <2>3, <2>4, <2>5, WrittenRow
<1>. QED
  BY <1>0, <1>2, <1>3, <1>4, <1>5, ProviderEndKeeps

LEMMA ProviderFailKeeps == ASSUME ProviderInv, NEW q \in Setters, FailSetting(q) PROVE ProviderInv'
<1>1. setting[q] # NoSetting /\ EndSetting(q) /\ storedKeys' = storedKeys /\ connection' = connection /\ strayed \subseteq strayed'
  BY DEF FailSetting
<1>2. \A k \in Kinds \ strayed' : ~KeyWriter(q, k)
  BY DEF FailSetting, KeyWriter
<1>3. connection' \in [Kinds -> ProviderRow] /\ (\A k \in Kinds : ~connection'[k].there => ~connection'[k].secret)
      /\ \A k \in Kinds : connection'[k].secret = connection[k].secret
  BY <1>1 DEF ProviderInv
<1>. QED
  BY <1>1, <1>2, <1>3, ProviderEndKeeps

LEMMA ProviderStepInv == ProviderInv /\ ProviderNext => ProviderInv'
<1> SUFFICES ASSUME ProviderInv, NEW q \in Setters,
        \/ \E op \in SettingOp, kind \in Kinds : OpenSetting(q, op, kind)
        \/ \E k \in Kinds : GetOrCreate(q, k)
        \/ BeginProbe(q) \/ BeginMove(q) \/ CommitSetting(q) \/ FailSetting(q)
        \/ \E outcome \in ProviderState, withKey \in BOOLEAN : Answered(q, outcome, withKey)
    PROVE ProviderInv'
  BY DEF ProviderNext
<1>. QED
  BY ProviderOpenKeeps, ProviderCreateKeeps, ProbeKeeps, MoveKeeps, ProviderCommitKeeps, ProviderFailKeeps, AnsweredKeeps

\* No other request that moves the active provider has ended since this one loaded its rows.
ProviderAlone(r) == r.met \cap MovesActive = {}

\* An open move that is alone has seen which provider is active.
SawActive(q) == (setting[q] # NoSetting /\ setting[q].op \in MovesActive /\ ProviderAlone(setting[q]))
                   => \A k \in Kinds : setting[q].saw[k].active = connection[k].active

ActiveInv ==
    /\ \A k \in Kinds : ~connection[k].there => ~connection[k].active
    /\ moveCrossed \/ ~connection["local"].active \/ ~connection["cloud"].active
    /\ \A q \in Setters : SawActive(q)

LEMMA ActiveInitInv == ProviderInit => ActiveInv
<1> SUFFICES ASSUME ProviderInit PROVE ActiveInv
  OBVIOUS
<1>1. (\A k \in Kinds : ~connection[k].there => ~connection[k].active) /\ ~connection["cloud"].active
  <2>1. CASE connection = [k \in Kinds |-> NoRow] /\ storedKeys = {}
    BY <2>1 DEF Kinds, NoRow
  <2>2. CASE \E active \in SUBSET {"local"} :
             /\ connection = [k \in Kinds |-> [there |-> TRUE, state |-> "connected", secret |-> TRUE,
                                              active |-> k \in active]]
             /\ storedKeys = Kinds
    <3>1. PICK active \in SUBSET {"local"} :
             connection = [k \in Kinds |-> [there |-> TRUE, state |-> "connected", secret |-> TRUE,
                                           active |-> k \in active]]
      BY <2>2
    <3>2. \A k \in Kinds : connection[k].there = TRUE /\ connection[k].active = (k \in active)
      BY <3>1
    <3>. QED
      BY <3>2 DEF Kinds
  <2>. QED
    BY <2>1, <2>2 DEF ProviderInit
<1>2. \A q \in Setters : setting[q] = NoSetting
  BY DEF ProviderInit
<1>. QED
  BY <1>1, <1>2 DEF ActiveInv, SawActive

LEMMA ActiveStutters == ActiveInv /\ UNCHANGED providerVars => ActiveInv'
BY DEF ActiveInv, providerVars, SawActive

LEMMA ActiveHolds == ActiveInv => OneActive
<1> SUFFICES ASSUME ActiveInv, ~moveCrossed PROVE Cardinality({k \in Kinds : connection[k].active}) <= 1
  BY Zenon DEF OneActive
<1>1. PICK k \in Kinds : {j \in Kinds : connection[j].active} \subseteq {k}
  BY DEF ActiveInv, Kinds
<1>2. IsFiniteSet({k}) /\ Cardinality({k}) = 1
  BY FS_Singleton
<1>3. Cardinality({j \in Kinds : connection[j].active}) <= Cardinality({k})
  BY <1>1, <1>2, FS_Subset
<1>. QED
  BY <1>2, <1>3

\* A step of one request that writes no row leaves which provider is active.
LEMMA ActiveKeeps ==
    ASSUME ActiveInv, NEW q \in Setters, UNCHANGED <<connection, moveCrossed>>, SawActive(q)',
           \A o \in Setters \ {q} : setting'[o] = setting[o]
    PROVE ActiveInv'
<1>1. \A o \in Setters \ {q} : SawActive(o)'
  BY DEF ActiveInv, SawActive
<1>. QED
  BY <1>1 DEF ActiveInv

LEMMA ActiveOpen ==
    ASSUME ProviderInv, ActiveInv, NEW q \in Setters, NEW op \in SettingOp, NEW kind \in Kinds, OpenSetting(q, op, kind)
    PROVE ActiveInv'
<1> PICK r : r = [op |-> op, kind |-> kind, step |-> "load", saw |-> connection, got |-> "none",
                  put |-> FALSE, met |-> {}]
  OBVIOUS
<1>1. setting' = [setting EXCEPT ![q] = r] /\ UNCHANGED <<connection, moveCrossed>>
  BY DEF OpenSetting
<1>2. setting'[q] = r /\ \A o \in Setters \ {q} : setting'[o] = setting[o]
  BY <1>1 DEF ProviderInv
<1>3. SawActive(q)'
  BY <1>1, <1>2 DEF SawActive
<1>. QED
  BY <1>1, <1>2, <1>3, ActiveKeeps

LEMMA ActiveCreate ==
    ASSUME ProviderInv, ActiveInv, NEW q \in Setters, NEW k \in Kinds, GetOrCreate(q, k)
    PROVE ActiveInv'
<1> PICK was : was = IF connection[k].there THEN connection[k] ELSE FreshRow
  OBVIOUS
<1> PICK r : r = [setting[q] EXCEPT !.saw[k] = was]
  OBVIOUS
<1>0. setting[q] # NoSetting /\ setting[q] \in SettingRow
  BY DEF GetOrCreate, ProviderInv, SettingFine
<1>1. was.active = connection[k].active
  <2>1. FreshRow.active = FALSE /\ connection[k].active \in BOOLEAN
    BY DEF FreshRow, NoRow, ProviderInv, ProviderRow
  <2>. QED
    BY <2>1 DEF ActiveInv
<1>2. r.op = setting[q].op /\ r.met = setting[q].met /\ r.saw[k] = was /\ \A j \in Kinds \ {k} : r.saw[j] = setting[q].saw[j]
  BY <1>0 DEF SettingRow
<1>3. setting' = [setting EXCEPT ![q].saw[k] = was] /\ UNCHANGED <<connection, moveCrossed>>
  BY DEF GetOrCreate
<1>4. setting'[q] = r /\ \A o \in Setters \ {q} : setting'[o] = setting[o]
  BY <1>3 DEF ProviderInv
<1>5. SawActive(q)'
  BY <1>0, <1>1, <1>2, <1>3, <1>4 DEF SawActive, ActiveInv, ProviderAlone
<1>. QED
  BY <1>3, <1>4, <1>5, ActiveKeeps

\* A request goes on with what it has seen and whom it has met.
LEMMA ActiveGoesOn ==
    ASSUME ActiveInv, NEW q \in Setters, setting[q] # NoSetting, UNCHANGED <<connection, moveCrossed>>,
           \A o \in Setters \ {q} : setting'[o] = setting[o],
           setting'[q].op = setting[q].op, setting'[q].met = setting[q].met, setting'[q].saw = setting[q].saw
    PROVE ActiveInv'
<1>1. SawActive(q)'
  BY DEF SawActive, ActiveInv, ProviderAlone
<1>. QED
  BY <1>1, ActiveKeeps

LEMMA ActiveProbe == ASSUME ProviderInv, ActiveInv, NEW q \in Setters, BeginProbe(q) \/ BeginMove(q) PROVE ActiveInv'
<1> PICK s : s = IF BeginProbe(q) THEN "probe" ELSE "write"
  OBVIOUS
<1>1. setting[q] # NoSetting /\ setting[q] \in SettingRow
  BY DEF BeginProbe, BeginMove, SettingLoaded, ProviderInv, SettingFine
<1>2. setting' = [setting EXCEPT ![q].step = s] /\ UNCHANGED <<connection, moveCrossed>>
  BY DEF BeginProbe, BeginMove
<1>3. /\ setting'[q].op = setting[q].op /\ setting'[q].met = setting[q].met /\ setting'[q].saw = setting[q].saw
      /\ \A o \in Setters \ {q} : setting'[o] = setting[o]
  BY <1>1, <1>2 DEF ProviderInv, SettingRow
<1>. QED
  BY <1>1, <1>2, <1>3, ActiveGoesOn

LEMMA ActiveAnswered ==
    ASSUME ProviderInv, ActiveInv, NEW q \in Setters, NEW outcome \in ProviderState, NEW withKey \in BOOLEAN,
           Answered(q, outcome, withKey)
    PROVE ActiveInv'
<1>1. setting[q] # NoSetting /\ setting[q] \in SettingRow
  BY DEF Answered, ProviderInv, SettingFine
<1>2. setting' = [setting EXCEPT ![q].step = "write", ![q].got = outcome, ![q].put = withKey] /\ UNCHANGED <<connection, moveCrossed>>
  BY DEF Answered
<1>3. /\ setting'[q].op = setting[q].op /\ setting'[q].met = setting[q].met /\ setting'[q].saw = setting[q].saw
      /\ \A o \in Setters \ {q} : setting'[o] = setting[o]
  BY <1>1, <1>2 DEF ProviderInv, SettingRow
<1>. QED
  BY <1>1, <1>2, <1>3, ActiveGoesOn

\* When a request ends, a move that is still alone has not met another move.
LEMMA EndAlone ==
    ASSUME ProviderInv, NEW q \in Setters, setting[q] # NoSetting, EndSetting(q), NEW o \in Setters \ {q},
           setting'[o] # NoSetting, ProviderAlone(setting'[o])
    PROVE /\ setting[o] # NoSetting /\ ProviderAlone(setting[o]) /\ setting[q].op \notin MovesActive
          /\ setting'[o].op = setting[o].op /\ setting'[o].saw = setting[o].saw
<1>1. setting[o] # NoSetting /\ setting'[o].op = setting[o].op /\ setting'[o].saw = setting[o].saw
  BY EndMet
<1>2. setting[o] \in SettingRow
  BY <1>1 DEF ProviderInv, SettingFine
<1>3. setting'[o] = [setting[o] EXCEPT !.met = @ \cup ({setting[q].op} \ {"local_test"})]
  BY <1>1 DEF EndSetting
<1>4. setting'[o].met = setting[o].met \cup ({setting[q].op} \ {"local_test"})
  BY <1>2, <1>3 DEF SettingRow
<1>. QED
  BY <1>1, <1>4 DEF ProviderAlone, MovesActive

\* A request ends that leaves the active providers, or that moves them.
LEMMA ActiveEnds ==
    ASSUME ProviderInv, ActiveInv, NEW q \in Setters, setting[q] # NoSetting, EndSetting(q),
           \A k \in Kinds : ~connection'[k].there => ~connection'[k].active,
           moveCrossed' \/ ~connection'["local"].active \/ ~connection'["cloud"].active,
           setting[q].op \in MovesActive \/ \A k \in Kinds : connection'[k].active = connection[k].active
    PROVE ActiveInv'
<1>1. SawActive(q)'
  BY EndMet DEF SawActive
<1>2. ASSUME NEW o \in Setters \ {q} PROVE SawActive(o)'
  <2> SUFFICES ASSUME setting'[o] # NoSetting, setting'[o].op \in MovesActive, ProviderAlone(setting'[o]), NEW k \in Kinds
      PROVE setting'[o].saw[k].active = connection'[k].active
    BY DEF SawActive
  <2>1. /\ setting[o] # NoSetting /\ ProviderAlone(setting[o]) /\ setting[q].op \notin MovesActive
        /\ setting'[o].op = setting[o].op /\ setting'[o].saw = setting[o].saw
    BY EndAlone
  <2>. QED
    BY <2>1 DEF ActiveInv, SawActive
<1>. QED
  BY <1>1, <1>2 DEF ActiveInv

\* What a request that commits makes of the active mark of a row.
LEMMA WrittenActive ==
    ASSUME ProviderInv, ActiveInv, NEW q \in Setters, setting[q] # NoSetting, setting[q].step = "write", NEW k \in Kinds,
           k \in Needed(setting[q])
    PROVE /\ setting[q].op \in Probes => Written(setting[q], k).active = connection[k].active
          /\ (setting[q].op = "set_active" /\ ProviderAlone(setting[q])) => (Written(setting[q], k).active <=> k = setting[q].kind)
          /\ (setting[q].op = "cloud_logout" /\ ProviderAlone(setting[q]) /\ k = "cloud") => ~Written(setting[q], k).active
<1> PICK r : r = setting[q]
  OBVIOUS
<1>0. SettingFine(r) /\ r \in SettingRow /\ r.saw[k] \in ProviderRow /\ connection[k] \in ProviderRow
  BY DEF ProviderInv, SettingFine, SettingRow
<1> PICK w : w = Wanted(r, k)
  OBVIOUS
<1> PICK n : n = Written(r, k)
  OBVIOUS
<1>1. n.active = IF w.active # r.saw[k].active THEN w.active ELSE connection[k].active
  BY DEF Written
<1>2. (r.op \in MovesActive /\ ProviderAlone(r)) => r.saw[k].active = connection[k].active
  BY DEF ActiveInv, SawActive
<1>3. r.op \in Probes => n.active = connection[k].active
  <2> SUFFICES ASSUME r.op \in Probes PROVE w.active = r.saw[k].active
    BY <1>1
  <2>. QED
    BY <1>0 DEF Wanted, ProviderRow
<1>4. (r.op = "set_active" /\ ProviderAlone(r)) => (n.active <=> k = r.kind)
  <2> SUFFICES ASSUME r.op = "set_active", ProviderAlone(r) PROVE n.active <=> k = r.kind
    OBVIOUS
  <2>1. PICK a \in BOOLEAN : a = (k = r.kind)
    OBVIOUS
  <2>2. w = [r.saw[k] EXCEPT !.active = a]
    BY <2>1 DEF Wanted, Probes
  <2>3. w.active = a
    BY <1>0, <2>2 DEF ProviderRow
  <2>4. n.active = a
    BY <1>1, <1>2, <2>3 DEF MovesActive
  <2>. QED
    BY <2>1, <2>4
<1>5. (r.op = "cloud_logout" /\ ProviderAlone(r) /\ k = "cloud") => ~n.active
  <2> SUFFICES ASSUME r.op = "cloud_logout", ProviderAlone(r), k = "cloud" PROVE ~n.active
    OBVIOUS
  <2>1. w.active = FALSE
    BY DEF Wanted, Probes, FreshRow, NoRow
  <2>2. n.active = FALSE
    BY <1>1, <1>2, <2>1 DEF MovesActive
  <2>. QED
    BY <2>2
<1>. QED
  BY <1>3, <1>4, <1>5

LEMMA ActiveCommit == ASSUME ProviderInv, ActiveInv, NEW q \in Setters, CommitSetting(q) PROVE ActiveInv'
<1> PICK r : r = setting[q]
  OBVIOUS
<1>0. r # NoSetting /\ r.step = "write" /\ SettingFine(r) /\ EndSetting(q)
  BY DEF CommitSetting, ProviderInv
<1>1. /\ connection' = [k \in Kinds |-> IF k \in Needed(r) THEN Written(r, k) ELSE connection[k]]
      /\ moveCrossed' = (moveCrossed \/ (r.op \in MovesActive /\ r.met \cap MovesActive # {}))
  BY DEF CommitSetting
<1>2. \A k \in Kinds : ~connection'[k].there => ~connection'[k].active
  BY <1>0, <1>1, WrittenRow DEF ActiveInv
<1>3. CASE r.op \in Probes
  <2>1. \A k \in Kinds : connection'[k].active = connection[k].active
    BY <1>0, <1>1, <1>3, WrittenActive
  <2>2. moveCrossed => moveCrossed'
    BY <1>1
  <2>3. moveCrossed' \/ ~connection'["local"].active \/ ~connection'["cloud"].active
    BY <2>1, <2>2 DEF ActiveInv, Kinds
  <2>. QED
    BY <1>0, <1>2, <2>1, <2>3, ActiveEnds
<1>4. CASE r.op \in MovesActive
  <2>1. moveCrossed' \/ ProviderAlone(r)
    BY <1>1, <1>4 DEF ProviderAlone
  <2>2. CASE moveCrossed'
    BY <1>0, <1>2, <1>4, <2>2, ActiveEnds
  <2>3. CASE ProviderAlone(r) /\ r.op = "set_active"
    <3>1. \A k \in Kinds : connection'[k].active <=> k = r.kind
      BY <1>0, <1>1, <2>3, WrittenActive DEF Needed, AboutLocal
    <3>2. ~connection'["local"].active \/ ~connection'["cloud"].active
      BY <3>1 DEF Kinds
    <3>. QED
      BY <1>0, <1>2, <1>4, <3>2, ActiveEnds
  <2>4. CASE ProviderAlone(r) /\ r.op = "cloud_logout"
    <3>1. "cloud" \in Needed(r)
      BY <2>4 DEF Needed, Kinds, AboutLocal
    <3>2. ~connection'["cloud"].active
      BY <1>0, <1>1, <2>4, <3>1, WrittenActive DEF Kinds
    <3>. QED
      BY <1>0, <1>2, <1>4, <3>2, ActiveEnds
  <2>. QED
    BY <1>4, <2>1, <2>2, <2>3, <2>4 DEF MovesActive
<1>. QED
  BY <1>0, <1>3, <1>4 DEF SettingFine, SettingRow, SettingOp

LEMMA ActiveFail == ASSUME ProviderInv, ActiveInv, NEW q \in Setters, FailSetting(q) PROVE ActiveInv'
<1>1. setting[q] # NoSetting /\ EndSetting(q) /\ connection' = connection /\ moveCrossed' = moveCrossed
  BY DEF FailSetting
<1>2. /\ \A k \in Kinds : ~connection'[k].there => ~connection'[k].active
      /\ moveCrossed' \/ ~connection'["local"].active \/ ~connection'["cloud"].active
      /\ \A k \in Kinds : connection'[k].active = connection[k].active
  BY <1>1 DEF ActiveInv
<1>. QED
  BY <1>1, <1>2, ActiveEnds

LEMMA ActiveStepInv == ProviderInv /\ ActiveInv /\ ProviderNext => ActiveInv'
<1> SUFFICES ASSUME ProviderInv, ActiveInv, NEW q \in Setters,
        \/ \E op \in SettingOp, kind \in Kinds : OpenSetting(q, op, kind)
        \/ \E k \in Kinds : GetOrCreate(q, k)
        \/ BeginProbe(q) \/ BeginMove(q) \/ CommitSetting(q) \/ FailSetting(q)
        \/ \E outcome \in ProviderState, withKey \in BOOLEAN : Answered(q, outcome, withKey)
    PROVE ActiveInv'
  BY DEF ProviderNext
<1>. QED
  BY ActiveOpen, ActiveCreate, ActiveProbe, ActiveCommit, ActiveFail, ActiveAnswered

--------------------------------------------------------------------------------
(* Agents of a HomePilot account (HomePilotLinks) *)

AgentRow == [there : BOOLEAN, account : HomeAccount, enabled : BOOLEAN, shared : BOOLEAN,
             status : {"disabled", "available", "offline"}]
LinkingRow == [op : {"connect", "sync", "delete"}, step : {"probe", "resolve", "bind", "discover", "commit"},
               key : HomeAccount, ref : HomeAccount, links : [Agents -> AgentRow], optIn : BOOLEAN,
               found : SUBSET Agents, sharing : SUBSET Agents, told : SUBSET Agents]
TieSecret == [key : HomeAccount, bound : HomeAccount, optIn : BOOLEAN]

\* A row that is not there says nothing.
LinkRowFine(r) == ~r.there => ~r.enabled /\ r.account = Unbound

\* What a request has read is no newer than the rows.
LinkFine(r) ==
    /\ r \in LinkingRow /\ \A a \in Agents : LinkRowFine(r.links[a]) /\ (r.links[a].there => agentLinks[a].there)
    /\ r.told \subseteq r.found /\ (~halfRead => r.sharing = r.told)
    /\ r.op = "delete" => r.step = "commit"

\* A request that overlaps no connect and no deletion works with one key.
LinkTied(r) ==
    /\ \A a \in Agents : r.links[a].there => r.links[a].account = HomeOf[a]
    /\ r.op = "sync" => r.key = secret.key /\ r.key # Unbound
    /\ (r.op # "delete" /\ r.step \in {"bind", "discover", "commit"}) => r.ref = secret.key
    /\ r.op = "sync" => \A a \in r.found : HomeOf[a] = r.key

LinkInv ==
    /\ secret \in TieSecret /\ DOMAIN linking = Linkers /\ agentLinks \in [Agents -> AgentRow]
    /\ \A a \in Agents : LinkRowFine(agentLinks[a])
    /\ \A q \in Linkers : linking[q] # NoLinking => LinkFine(linking[q])
    /\ AccountsNeverBlend /\ OfflineMeansGone /\ ChosenOnly
    /\ ~tieMixed => /\ ~Mixing /\ secret.bound \in {Unbound, secret.key}
                    /\ \A a \in Agents : agentLinks[a].there => agentLinks[a].account = HomeOf[a]
                    /\ \A q \in Linkers : linking[q] # NoLinking => LinkTied(linking[q])

Ties == tieMixed' = (tieMixed \/ Mixing')
Becomes(q, r) == linking' = [linking EXCEPT ![q] = r]

LEMMA LinkInitInv == LinkInit => LinkInv
<1> SUFFICES ASSUME LinkInit PROVE LinkInv
  OBVIOUS
<1>1. secret \in TieSecret /\ secret.bound = secret.key
  BY DEF LinkInit, TieSecret, HomeAccount
<1>2. agentLinks \in [Agents -> AgentRow] /\ \A a \in Agents : ~agentLinks[a].there /\ ~agentLinks[a].enabled /\ agentLinks[a].account = Unbound
  BY DEF LinkInit, NoAgent, AgentRow, HomeAccount
<1>3. DOMAIN linking = Linkers /\ (\A q \in Linkers : linking[q] = NoLinking) /\ blended = {} /\ wronged = {}
  BY DEF LinkInit
<1>4. ~Mixing
  BY <1>3 DEF Mixing
<1>. QED
  BY <1>1, <1>2, <1>3, <1>4 DEF LinkInv, LinkRowFine, AccountsNeverBlend, OfflineMeansGone, ChosenOnly

LEMMA LinkStutters == LinkInv /\ UNCHANGED linkVars => LinkInv'
BY DEF LinkInv, linkVars, LinkFine, LinkTied, Mixing, AccountsNeverBlend, OfflineMeansGone, ChosenOnly

LEMMA LinkHolds == LinkInv => AccountsNeverBlend /\ ChosenOnly /\ OfflineMeansGone
BY DEF LinkInv

\* One request goes on and the rows stay.
LEMMA LinkRequestKeeps ==
    ASSUME LinkInv, Ties, NEW q \in Linkers, NEW r, Becomes(q, r), LinkFine(r)', ~tieMixed' => LinkTied(r)',
           agentLinks' = agentLinks, halfRead => halfRead', secret' \in TieSecret, secret'.key = secret.key,
           ~tieMixed' => secret'.bound \in {Unbound, secret.key}, UNCHANGED <<blended, chosen, wronged>>
    PROVE LinkInv'
<1>1. DOMAIN linking' = Linkers /\ linking'[q] = r /\ \A o \in Linkers \ {q} : linking'[o] = linking[o]
  BY DEF LinkInv, Becomes
<1>2. \A o \in Linkers : linking'[o] # NoLinking => LinkFine(linking[o])'
  BY <1>1 DEF LinkInv, LinkFine
<1>3. AccountsNeverBlend' /\ OfflineMeansGone' /\ ChosenOnly'
  BY DEF LinkInv, AccountsNeverBlend, OfflineMeansGone, ChosenOnly, Ties
<1>4. ASSUME ~tieMixed' PROVE \A o \in Linkers : linking'[o] # NoLinking => LinkTied(linking[o])'
  <2> SUFFICES ASSUME NEW o \in Linkers, linking'[o] # NoLinking PROVE LinkTied(linking[o])'
    OBVIOUS
  <2>1. CASE o = q
    <3>1. LinkTied(r)' /\ linking'[o] = r
      BY <1>1, <1>4, <2>1
    <3>. QED
      BY <3>1 DEF LinkTied
  <2>2. CASE o # q
    <3>1. linking'[o] = linking[o] /\ ~tieMixed
      BY <1>1, <1>4, <2>2 DEF Ties
    <3>2. LinkTied(linking[o])
      BY <3>1 DEF LinkInv
    <3>. QED
      BY <3>1, <3>2 DEF LinkTied
  <2>. QED
    BY <2>1, <2>2
<1>5. ~tieMixed' => ~Mixing' /\ ~tieMixed
  BY DEF Ties
<1>. QED
  BY <1>1, <1>2, <1>3, <1>4, <1>5 DEF LinkInv

\* One request ends and the rows and the secret stay.
LEMMA OverKeeps ==
    ASSUME LinkInv, Ties, NEW q \in Linkers, LinkOver(q), UNCHANGED <<agentLinks, halfRead, secret, blended, chosen, wronged>>
    PROVE LinkInv'
<1>1. DOMAIN linking' = Linkers /\ linking'[q] = NoLinking /\ \A o \in Linkers \ {q} : linking'[o] = linking[o]
  BY DEF LinkInv, LinkOver
<1>2. \A o \in Linkers : linking'[o] # NoLinking => LinkFine(linking[o])'
  BY <1>1 DEF LinkInv, LinkFine
<1>3. AccountsNeverBlend' /\ OfflineMeansGone' /\ ChosenOnly'
  BY DEF LinkInv, AccountsNeverBlend, OfflineMeansGone, ChosenOnly, Ties
<1>4. ASSUME ~tieMixed' PROVE ~Mixing' /\ ~tieMixed /\ \A o \in Linkers : linking'[o] # NoLinking => LinkTied(linking[o])'
  <2>1. ~Mixing' /\ ~tieMixed
    BY <1>4 DEF Ties
  <2>2. \A o \in Linkers : linking'[o] # NoLinking => linking'[o] = linking[o] /\ LinkTied(linking[o])
    BY <1>1, <2>1 DEF LinkInv
  <2>. QED
    BY <2>1, <2>2 DEF LinkTied
<1>. QED
  BY <1>1, <1>2, <1>3, <1>4 DEF LinkInv

\* A key is put by a request that has nobody beside it, or overlaps.
LEMMA KeyPut ==
    ASSUME LinkInv, Ties, NEW q \in Linkers, NEW op \in {"connect", "delete"}, NEW step \in {"probe", "commit"},
           op = "delete" => step = "commit", step = "commit" => op = "delete", NEW key \in HomeAccount,
           OpenLinking(q, op, step, key), secret' = [key |-> key, bound |-> Unbound, optIn |-> FALSE],
           UNCHANGED <<agentLinks, blended, chosen, wronged, halfRead>>
    PROVE LinkInv'
<1> PICK r : r = [op |-> op, step |-> step, key |-> key, ref |-> Unbound, links |-> agentLinks,
           optIn |-> FALSE, found |-> {}, sharing |-> {}, told |-> {}]
  OBVIOUS
<1>1. r \in LinkingRow
  BY DEF LinkingRow, LinkInv, HomeAccount
<1>2. LinkFine(r)'
  BY <1>1 DEF LinkFine, LinkInv
<1>3. DOMAIN linking' = Linkers /\ linking'[q] = r /\ \A o \in Linkers \ {q} : linking'[o] = linking[o]
  BY DEF LinkInv, OpenLinking
<1>4. secret' \in TieSecret /\ secret'.bound = Unbound
  BY DEF TieSecret, HomeAccount
<1>5. \A o \in Linkers : linking'[o] # NoLinking => LinkFine(linking[o])'
  BY ZenonT(60), <1>2, <1>3 DEF LinkInv, LinkFine
<1>6. AccountsNeverBlend' /\ OfflineMeansGone' /\ ChosenOnly'
  BY DEF LinkInv, AccountsNeverBlend, OfflineMeansGone, ChosenOnly, Ties
<1>7. ASSUME ~tieMixed' PROVE ~Mixing' /\ ~tieMixed /\ \A o \in Linkers : linking'[o] # NoLinking => LinkTied(linking[o])'
  <2>1. ~Mixing' /\ ~tieMixed
    BY <1>7 DEF Ties
  <2>2. r.op \in {"connect", "delete"}
    OBVIOUS
  <2>3. \A o \in Linkers \ {q} : linking'[o] = NoLinking
    BY <1>3, <2>1, <2>2 DEF Mixing
  <2>4. LinkTied(r)'
    BY <2>1 DEF LinkTied, LinkInv
  <2>. QED
    BY <1>3, <2>1, <2>3, <2>4
<1>. QED
  BY <1>3, <1>4, <1>5, <1>6, <1>7 DEF LinkInv

LEMMA LinkConnectKeeps == ASSUME LinkInv, Ties, NEW q \in Linkers, NEW home \in Homes, BeginConnect(q, home) PROVE LinkInv'
<1>1. home \in HomeAccount
  BY DEF HomeAccount
<1>2. OpenLinking(q, "connect", "probe", home) /\ secret' = [key |-> home, bound |-> Unbound, optIn |-> FALSE]
      /\ UNCHANGED <<agentLinks, blended, chosen, wronged, halfRead>>
  BY DEF BeginConnect, Reconnected
<1>. QED
  BY <1>1, <1>2, KeyPut

LEMMA DeleteKeeps == ASSUME LinkInv, Ties, NEW q \in Linkers, BeginDelete(q) PROVE LinkInv'
<1>1. Unbound \in HomeAccount
  BY DEF HomeAccount
<1>2. OpenLinking(q, "delete", "commit", Unbound) /\ secret' = [key |-> Unbound, bound |-> Unbound, optIn |-> FALSE]
      /\ UNCHANGED <<agentLinks, blended, chosen, wronged, halfRead>>
  BY DEF BeginDelete, NoSecret
<1>. QED
  BY <1>1, <1>2, KeyPut

\* A request that is open, and the fields a step leaves.
LEMMA LinkOpen ==
    ASSUME LinkInv, NEW q \in Linkers, NEW step, LinkAt(q, step)
    PROVE /\ linking[q] \in LinkingRow /\ LinkFine(linking[q]) /\ linking[q].step = step /\ linking[q] # NoLinking
          /\ ~tieMixed => LinkTied(linking[q])
BY DEF LinkInv, LinkAt, LinkFine

LEMMA ProbedKeeps == ASSUME LinkInv, Ties, NEW q \in Linkers, NEW reachable, Probed(q, reachable) PROVE LinkInv'
<1>1. CASE reachable
  <2> PICK r : r = [linking[q] EXCEPT !.step = "resolve"]
    OBVIOUS
  <2>0. linking[q] \in LinkingRow /\ LinkFine(linking[q]) /\ linking[q].step = "probe" /\ (~tieMixed => LinkTied(linking[q]))
    BY LinkOpen DEF Probed
  <2>1. r \in LinkingRow
    BY <2>0 DEF LinkingRow
  <2>2. /\ r.op = linking[q].op /\ r.key = linking[q].key /\ r.links = linking[q].links /\ r.found = linking[q].found
        /\ r.told = linking[q].told /\ r.sharing = linking[q].sharing /\ r.step = "resolve" /\ r.ref = linking[q].ref
    BY <2>0 DEF LinkingRow
  <2>3. Becomes(q, r) /\ UNCHANGED <<secret, agentLinks, blended, chosen, wronged, halfRead>>
    BY <1>1 DEF Probed, Becomes, LinkInv
  <2>4. LinkFine(r)'
    BY <2>0, <2>1, <2>2, <2>3 DEF LinkFine
  <2>5. ~tieMixed' => LinkTied(r)'
    BY <2>0, <2>2, <2>3 DEF LinkTied, Ties
  <2>6. secret' \in TieSecret /\ secret'.key = secret.key /\ (~tieMixed' => secret'.bound \in {Unbound, secret.key})
    BY <2>3 DEF LinkInv, Ties
  <2>. QED
    BY <2>3, <2>4, <2>5, <2>6, LinkRequestKeeps
<1>2. CASE ~reachable
  BY <1>2, OverKeeps DEF Probed
<1>. QED
  BY <1>1, <1>2

LEMMA ResolveKeeps == ASSUME LinkInv, Ties, NEW q \in Linkers, ResolveAccount(q) PROVE LinkInv'
<1> PICK r : r = [linking[q] EXCEPT !.step = "bind", !.ref = secret.key]
  OBVIOUS
<1>0. linking[q] \in LinkingRow /\ LinkFine(linking[q]) /\ linking[q].step = "resolve" /\ (~tieMixed => LinkTied(linking[q]))
      /\ secret.key \in HomeAccount
  BY LinkOpen DEF ResolveAccount, LinkInv, TieSecret
<1>1. r \in LinkingRow
  BY <1>0 DEF LinkingRow
<1>2. /\ r.op = linking[q].op /\ r.key = linking[q].key /\ r.links = linking[q].links /\ r.found = linking[q].found
      /\ r.told = linking[q].told /\ r.sharing = linking[q].sharing /\ r.step = "bind" /\ r.ref = secret.key
  BY <1>0 DEF LinkingRow
<1>3. Becomes(q, r) /\ UNCHANGED <<secret, agentLinks, blended, chosen, wronged, halfRead>>
  BY DEF ResolveAccount, Becomes
<1>4. LinkFine(r)'
  BY <1>0, <1>1, <1>2, <1>3 DEF LinkFine
<1>5. ~tieMixed' => LinkTied(r)'
  BY <1>0, <1>2, <1>3 DEF LinkTied, Ties
<1>6. secret' \in TieSecret /\ secret'.key = secret.key /\ (~tieMixed' => secret'.bound \in {Unbound, secret.key})
  BY <1>3 DEF LinkInv, Ties
<1>. QED
  BY <1>3, <1>4, <1>5, <1>6, LinkRequestKeeps

LEMMA StoreKeeps == ASSUME LinkInv, Ties, NEW q \in Linkers, StoreAccount(q) PROVE LinkInv'
<1> PICK n : n = IF linking[q].op = "connect" THEN "commit" ELSE "discover"
  OBVIOUS
<1> PICK r : r = [linking[q] EXCEPT !.step = n, !.optIn = secret.optIn]
  OBVIOUS
<1>0. linking[q] \in LinkingRow /\ LinkFine(linking[q]) /\ linking[q].step = "bind" /\ (~tieMixed => LinkTied(linking[q]))
      /\ secret \in TieSecret
  BY LinkOpen DEF StoreAccount, LinkInv
<1>1. r \in LinkingRow
  BY <1>0 DEF LinkingRow, TieSecret
<1>2. /\ r.op = linking[q].op /\ r.key = linking[q].key /\ r.links = linking[q].links /\ r.found = linking[q].found
      /\ r.told = linking[q].told /\ r.sharing = linking[q].sharing /\ r.step = n /\ r.ref = linking[q].ref
  BY <1>0 DEF LinkingRow
<1>3. Becomes(q, r) /\ secret' = [secret EXCEPT !.bound = linking[q].ref] /\ UNCHANGED <<agentLinks, blended, chosen, wronged, halfRead>>
  BY DEF StoreAccount, Becomes
<1>4. LinkFine(r)'
  BY <1>0, <1>1, <1>2, <1>3 DEF LinkFine
<1>5. secret' \in TieSecret /\ secret'.key = secret.key /\ secret'.bound = linking[q].ref
  BY <1>0, <1>3 DEF TieSecret, LinkingRow
<1>6. ~tieMixed' => LinkTied(r)'
  BY <1>0, <1>2, <1>3, <1>5 DEF LinkTied, LinkFine, Ties
<1>7. ~tieMixed' => secret'.bound \in {Unbound, secret.key}
  BY <1>0, <1>5 DEF LinkTied, LinkFine, Ties
<1>. QED
  BY <1>3, <1>4, <1>5, <1>6, <1>7, LinkRequestKeeps

LEMMA LinkSyncKeeps == ASSUME LinkInv, Ties, NEW q \in Linkers, BeginSync(q) PROVE LinkInv'
<1> PICK r : r = [op |-> "sync", step |-> "resolve", key |-> secret.key, ref |-> Unbound, links |-> agentLinks,
           optIn |-> FALSE, found |-> {}, sharing |-> {}, told |-> {}]
  OBVIOUS
<1>1. r \in LinkingRow
  BY DEF LinkingRow, LinkInv, HomeAccount, TieSecret
<1>2. Becomes(q, r) /\ UNCHANGED <<secret, agentLinks, blended, chosen, wronged, halfRead>> /\ secret.key # Unbound
  BY DEF BeginSync, OpenLinking, Becomes
<1>3. LinkFine(r)'
  BY <1>1, <1>2 DEF LinkFine, LinkInv
<1>4. ~tieMixed' => LinkTied(r)'
  BY <1>2 DEF LinkTied, LinkInv, Ties
<1>5. secret' \in TieSecret /\ secret'.key = secret.key /\ (~tieMixed' => secret'.bound \in {Unbound, secret.key})
  BY <1>2 DEF LinkInv, Ties
<1>. QED
  BY <1>2, <1>3, <1>4, <1>5, LinkRequestKeeps

LEMMA DiscoveredKeeps ==
    ASSUME LinkInv, Ties, NEW q \in Linkers, NEW found \in SUBSET Agents, NEW told \in SUBSET Agents, NEW half \in BOOLEAN,
           Discovered(q, found, told, half)
    PROVE LinkInv'
<1> PICK s : s = IF half THEN {} ELSE told
  OBVIOUS
<1> PICK r : r = [linking[q] EXCEPT !.step = "commit", !.found = found, !.links = agentLinks, !.sharing = s, !.told = told]
  OBVIOUS
<1>0. linking[q] \in LinkingRow /\ LinkFine(linking[q]) /\ linking[q].step = "discover" /\ (~tieMixed => LinkTied(linking[q]))
      /\ agentLinks \in [Agents -> AgentRow] /\ s \in SUBSET Agents
  BY LinkOpen DEF Discovered, LinkInv
<1>1. r \in LinkingRow
  BY <1>0 DEF LinkingRow
<1>2. /\ r.op = linking[q].op /\ r.key = linking[q].key /\ r.links = agentLinks /\ r.found = found
      /\ r.told = told /\ r.sharing = s /\ r.step = "commit" /\ r.ref = linking[q].ref
  BY <1>0 DEF LinkingRow
<1>3. Becomes(q, r) /\ UNCHANGED <<secret, agentLinks, blended, chosen, wronged>> /\ halfRead' = (halfRead \/ half)
      /\ told \subseteq found /\ \A a \in found : HomeOf[a] = linking[q].key
  BY DEF Discovered, Becomes
<1>4. LinkFine(r)'
  <2>1. \A a \in Agents : LinkRowFine(r.links[a]) /\ (r.links[a].there => agentLinks'[a].there)
    BY <1>2, <1>3 DEF LinkInv
  <2>. QED
    BY <1>0, <1>1, <1>2, <1>3, <2>1 DEF LinkFine
<1>5. ASSUME ~tieMixed' PROVE LinkTied(r)'
  <2>1. LinkTied(linking[q]) /\ \A a \in Agents : agentLinks[a].there => agentLinks[a].account = HomeOf[a]
    BY <1>0, <1>5 DEF LinkInv, Ties
  <2>. QED
    BY <1>0, <1>2, <1>3, <2>1 DEF LinkTied
<1>6. secret' \in TieSecret /\ secret'.key = secret.key /\ (~tieMixed' => secret'.bound \in {Unbound, secret.key})
  BY <1>3 DEF LinkInv, Ties
<1>. QED
  BY <1>3, <1>4, <1>5, <1>6, LinkRequestKeeps

\* The row of a persona after a pass.
LEMMA PassRow ==
    ASSUME NEW r \in LinkingRow, NEW a \in Agents
    PROVE /\ AfterPass(r, a) \in AgentRow
          /\ a \in r.found => /\ AfterPass(r, a).there /\ AfterPass(r, a).account = r.ref
                              /\ AfterPass(r, a).enabled = Enabled(r, a)
                              /\ (a \in r.sharing => AfterPass(r, a).status # "offline")
          /\ a \notin r.found => /\ AfterPass(r, a).there = r.links[a].there /\ AfterPass(r, a).account = r.links[a].account
                                 /\ AfterPass(r, a).enabled = r.links[a].enabled
<1>0. r.links[a] \in AgentRow /\ r.optIn \in BOOLEAN /\ r.ref \in HomeAccount
  BY DEF LinkingRow
<1>1. CASE a \in r.found
  <2> PICK e : e = Enabled(r, a)
    OBVIOUS
  <2>1. e \in BOOLEAN
    BY <1>0 DEF Enabled, AgentRow
  <2> PICK h : h = (a \in r.sharing)
    OBVIOUS
  <2> PICK s : s = Presence(e, h)
    OBVIOUS
  <2>2. h \in BOOLEAN /\ s \in {"disabled", "available", "offline"} /\ (h => s # "offline")
    BY DEF Presence
  <2> PICK n : n = AfterPass(r, a)
    OBVIOUS
  <2>3. n = [there |-> TRUE, account |-> r.ref, enabled |-> e, shared |-> h, status |-> s]
    BY <1>1 DEF AfterPass
  <2>4. n \in AgentRow
    BY <1>0, <2>1, <2>2, <2>3 DEF AgentRow
  <2>5. n.there = TRUE /\ n.account = r.ref /\ n.enabled = e /\ n.status = s
    BY <2>3
  <2>. QED
    BY <1>1, <2>2, <2>4, <2>5
<1>2. CASE a \notin r.found
  <2> PICK n : n = AfterPass(r, a)
    OBVIOUS
  <2>1. n = IF r.links[a].there THEN [r.links[a] EXCEPT !.status = "offline"] ELSE r.links[a]
    BY <1>2 DEF AfterPass
  <2>2. n \in AgentRow /\ n.there = r.links[a].there /\ n.account = r.links[a].account /\ n.enabled = r.links[a].enabled
    BY <1>0, <2>1 DEF AgentRow
  <2>. QED
    BY <1>2, <2>2
<1>. QED
  BY <1>1, <1>2

LEMMA ChangedRow ==
    ASSUME NEW old \in AgentRow, NEW new \in AgentRow, NEW cur \in AgentRow
    PROVE /\ ColumnsChanged(old, new, cur) \in AgentRow
          /\ ColumnsChanged(old, new, cur).there = (IF new.there # old.there THEN new.there ELSE cur.there)
          /\ ColumnsChanged(old, new, cur).account = (IF new.account # old.account THEN new.account ELSE cur.account)
          /\ ColumnsChanged(old, new, cur).enabled = (IF new.enabled # old.enabled THEN new.enabled ELSE cur.enabled)
<1> PICK n : n = ColumnsChanged(old, new, cur)
  OBVIOUS
<1>1. n = [f \in {"there", "account", "enabled", "shared", "status"} |-> IF new[f] # old[f] THEN new[f] ELSE cur[f]]
  BY DEF ColumnsChanged, AgentRow
<1>2. /\ n.there = (IF new.there # old.there THEN new.there ELSE cur.there)
      /\ n.account = (IF new.account # old.account THEN new.account ELSE cur.account)
      /\ n.enabled = (IF new.enabled # old.enabled THEN new.enabled ELSE cur.enabled)
      /\ n.shared = (IF new.shared # old.shared THEN new.shared ELSE cur.shared)
      /\ n.status = (IF new.status # old.status THEN new.status ELSE cur.status)
  BY <1>1
<1>3. n \in AgentRow
  BY <1>1, <1>2 DEF AgentRow
<1>. QED
  BY <1>2, <1>3

\* The rows change and a request ends.
LEMMA LinkRowsKeep ==
    ASSUME LinkInv, Ties, NEW q \in Linkers, LinkOver(q), agentLinks' \in [Agents -> AgentRow],
           \A a \in Agents : LinkRowFine(agentLinks'[a]) /\ (agentLinks[a].there => agentLinks'[a].there),
           UNCHANGED <<secret, blended, halfRead>>, OfflineMeansGone', ChosenOnly',
           ~tieMixed' => \A a \in Agents : agentLinks'[a].there => agentLinks'[a].account = HomeOf[a]
    PROVE LinkInv'
<1>1. DOMAIN linking' = Linkers /\ linking'[q] = NoLinking /\ \A o \in Linkers \ {q} : linking'[o] = linking[o]
  BY DEF LinkInv, LinkOver
<1>2. \A o \in Linkers : linking'[o] # NoLinking => LinkFine(linking[o])'
  BY <1>1 DEF LinkInv, LinkFine
<1>3. AccountsNeverBlend'
  BY DEF LinkInv, AccountsNeverBlend, Ties
<1>4. ASSUME ~tieMixed' PROVE ~Mixing' /\ ~tieMixed /\ \A o \in Linkers : linking'[o] # NoLinking => LinkTied(linking[o])'
  <2>1. ~Mixing' /\ ~tieMixed
    BY <1>4 DEF Ties
  <2>2. \A o \in Linkers : linking'[o] # NoLinking => linking'[o] = linking[o] /\ LinkTied(linking[o])
    BY <1>1, <2>1 DEF LinkInv
  <2>. QED
    BY <2>1, <2>2 DEF LinkTied
<1>5. secret' \in TieSecret /\ (~tieMixed' => secret'.bound \in {Unbound, secret'.key})
  BY <1>4 DEF LinkInv
<1>6. \A a \in Agents : LinkRowFine(agentLinks[a])'
  BY DEF LinkRowFine
<1>. QED
  BY <1>1, <1>2, <1>3, <1>4, <1>5, <1>6 DEF LinkInv

LEMMA PassKeeps == ASSUME LinkInv, Ties, NEW q \in Linkers, CommitPass(q) PROVE LinkInv'
<1> PICK r : r = linking[q]
  OBVIOUS
<1>0. r \in LinkingRow /\ LinkFine(r) /\ r.step = "commit" /\ r.op = "sync" /\ (~tieMixed => LinkTied(r))
      /\ LinkOver(q) /\ UNCHANGED <<secret, blended, halfRead>>
  BY LinkOpen DEF CommitPass
<1> DEFINE doubled == \E a \in r.found : ~r.links[a].there /\ agentLinks[a].there
<1>1. CASE linkStatus = "deleted" \/ doubled
  <2>1. UNCHANGED <<agentLinks, chosen, wronged>>
    BY <1>1 DEF CommitPass
  <2>. QED
    BY <1>0, <2>1, OverKeeps
<1>2. CASE ~(linkStatus = "deleted" \/ doubled)
  <2>1. agentLinks' = [a \in Agents |-> ColumnsChanged(r.links[a], AfterPass(r, a), agentLinks[a])]
        /\ chosen' = chosen \cup {a \in r.found : ~r.links[a].there /\ r.optIn}
        /\ wronged' = wronged \cup {a \in r.told : r.links[a].status = "available" /\ AfterPass(r, a).status = "offline"}
    BY <1>2 DEF CommitPass
  <2>2. \A a \in r.found : r.links[a].there \/ ~agentLinks[a].there
    BY <1>2
  <2>. HIDE DEF doubled
  <2>3. ASSUME NEW a \in Agents
        PROVE /\ agentLinks'[a] \in AgentRow /\ LinkRowFine(agentLinks'[a]) /\ (agentLinks[a].there => agentLinks'[a].there)
              /\ agentLinks'[a].enabled => a \in chosen'
              /\ ~tieMixed' => (agentLinks'[a].there => agentLinks'[a].account = HomeOf[a])
    <3> PICK old : old = r.links[a]
      OBVIOUS
    <3> PICK new : new = AfterPass(r, a)
      OBVIOUS
    <3> PICK cur : cur = agentLinks[a]
      OBVIOUS
    <3>1. old \in AgentRow /\ cur \in AgentRow /\ new \in AgentRow /\ LinkRowFine(old) /\ LinkRowFine(cur) /\ (old.there => cur.there)
      BY <1>0, PassRow DEF LinkInv, LinkFine, LinkingRow
    <3>2. PICK n : n = agentLinks'[a]
      OBVIOUS
    <3>3. n = ColumnsChanged(old, new, cur)
      BY <2>1, <3>2
    <3>4. /\ n \in AgentRow
          /\ n.there = (IF new.there # old.there THEN new.there ELSE cur.there)
          /\ n.account = (IF new.account # old.account THEN new.account ELSE cur.account)
          /\ n.enabled = (IF new.enabled # old.enabled THEN new.enabled ELSE cur.enabled)
      BY <3>1, <3>3, ChangedRow
    <3>5. CASE a \in r.found
      <4>1. new.there /\ new.account = r.ref /\ new.enabled = Enabled(r, a)
        BY <1>0, <3>5, PassRow
      <4>2. old.there \/ ~cur.there
        BY <2>2, <3>5
      <4>3. {new.there, old.there, cur.there, new.enabled, old.enabled, cur.enabled} \subseteq BOOLEAN
        BY <3>1 DEF AgentRow
      <4>4. n.there
        BY <3>1, <3>4, <4>1, <4>2, <4>3
      <4>5. n.enabled => a \in chosen'
        <5>1. CASE old.there
          BY <2>1, <3>4, <4>1, <5>1 DEF Enabled, LinkInv, ChosenOnly
        <5>2. CASE ~old.there
          BY <2>1, <3>1, <3>4, <3>5, <4>1, <4>2, <4>3, <5>2 DEF Enabled, LinkRowFine
        <5>. QED
          BY <5>1, <5>2
      <4>6. ~tieMixed' => n.account = HomeOf[a]
        <5> SUFFICES ASSUME ~tieMixed' PROVE n.account = HomeOf[a]
          OBVIOUS
        <5>1. r.ref = HomeOf[a] /\ (old.there => old.account = HomeOf[a]) /\ (cur.there => cur.account = HomeOf[a]) /\ r.ref # Unbound
          BY <1>0, <3>5 DEF Ties, LinkTied, LinkInv
        <5>. QED
          BY <3>1, <3>4, <4>1, <4>2, <5>1 DEF LinkRowFine
      <4>. QED
        BY <3>2, <3>4, <4>4, <4>5, <4>6 DEF LinkRowFine
    <3>6. CASE a \notin r.found
      <4>1. new.there = old.there /\ new.account = old.account /\ new.enabled = old.enabled
        BY <1>0, <3>6, PassRow
      <4>2. n.there = cur.there /\ n.account = cur.account /\ n.enabled = cur.enabled
        BY <3>4, <4>1
      <4>3. n.enabled => a \in chosen'
        BY <2>1, <4>2 DEF LinkInv, ChosenOnly
      <4>. QED
        BY <3>1, <3>2, <3>4, <4>2, <4>3 DEF LinkRowFine, LinkInv, Ties
    <3>. QED
      BY <3>5, <3>6
  <2>4. agentLinks' \in [Agents -> AgentRow]
    BY <2>1, <2>3
  <2>5. OfflineMeansGone'
    <3> SUFFICES ASSUME ~halfRead PROVE wronged' = {}
      BY <1>0 DEF OfflineMeansGone
    <3>1. \A a \in r.told : AfterPass(r, a).status # "offline"
      BY <1>0, PassRow DEF LinkFine, LinkingRow
    <3>. QED
      BY <2>1, <3>1 DEF LinkInv, OfflineMeansGone
  <2>6. ChosenOnly'
    BY <2>3 DEF ChosenOnly
  <2>. QED
    BY <1>0, <2>3, <2>4, <2>5, <2>6, LinkRowsKeep
<1>. QED
  BY <1>1, <1>2

LEMMA DeletedKeeps == ASSUME LinkInv, Ties, NEW q \in Linkers, CommitDelete(q) PROVE LinkInv'
<1>1. LinkOver(q) /\ UNCHANGED <<secret, blended, chosen, wronged, halfRead>>
  BY DEF CommitDelete
<1>2. ASSUME NEW a \in Agents
      PROVE /\ agentLinks'[a] \in AgentRow /\ agentLinks'[a].there = agentLinks[a].there
            /\ agentLinks'[a].account = agentLinks[a].account /\ agentLinks'[a].enabled = agentLinks[a].enabled
  <2>1. agentLinks'[a] = agentLinks[a] \/ agentLinks'[a] = [agentLinks[a] EXCEPT !.status = "offline"]
    BY DEF CommitDelete
  <2>. QED
    BY <2>1 DEF LinkInv, AgentRow
<1>3. agentLinks' \in [Agents -> AgentRow]
  BY <1>2 DEF CommitDelete
<1>4. \A a \in Agents : LinkRowFine(agentLinks'[a]) /\ (agentLinks[a].there => agentLinks'[a].there)
  BY <1>2 DEF LinkInv, LinkRowFine
<1>5. OfflineMeansGone' /\ ChosenOnly' /\ (~tieMixed' => \A a \in Agents : agentLinks'[a].there => agentLinks'[a].account = HomeOf[a])
  BY <1>1, <1>2 DEF LinkInv, OfflineMeansGone, ChosenOnly, Ties
<1>. QED
  BY <1>1, <1>3, <1>4, <1>5, LinkRowsKeep

LEMMA AsksMatch ==
    ASSUME LinkInv, NEW a \in Agents, ~tieMixed, agentLinks[a].there, AccountMatches(a), secret.bound # Unbound
    PROVE secret.key = HomeOf[a]
<1>1. secret.bound = secret.key /\ agentLinks[a].account = HomeOf[a] /\ HomeOf[a] # Unbound
  BY LinkAssumption DEF LinkInv
<1>. QED
  BY <1>1 DEF AccountMatches

LEMMA QuietKeeps ==
    ASSUME LinkInv, Ties, UNCHANGED <<linking, halfRead, wronged>>, secret' \in TieSecret, secret'.key = secret.key,
           secret'.bound = secret.bound, agentLinks' \in [Agents -> AgentRow],
           \A a \in Agents : /\ agentLinks'[a].there = agentLinks[a].there /\ agentLinks'[a].account = agentLinks[a].account
                             /\ LinkRowFine(agentLinks'[a]) /\ (agentLinks'[a].enabled => a \in chosen'),
           tieMixed \/ blended' = {}
    PROVE LinkInv'
<1>1. \A o \in Linkers : linking'[o] # NoLinking => LinkFine(linking[o])'
  BY DEF LinkInv, LinkFine
<1>2. AccountsNeverBlend' /\ OfflineMeansGone' /\ ChosenOnly'
  BY DEF LinkInv, AccountsNeverBlend, OfflineMeansGone, ChosenOnly, Ties
<1>3. ASSUME ~tieMixed' PROVE ~Mixing' /\ ~tieMixed /\ \A o \in Linkers : linking'[o] # NoLinking => LinkTied(linking[o])'
  BY <1>3 DEF LinkInv, LinkTied, Ties
<1>4. \A a \in Agents : LinkRowFine(agentLinks[a])'
  BY DEF LinkRowFine
<1>5. ~tieMixed' => (secret'.bound \in {Unbound, secret'.key} /\ \A a \in Agents : agentLinks'[a].there => agentLinks'[a].account = HomeOf[a])
  BY <1>3 DEF LinkInv
<1>. QED
  BY <1>1, <1>2, <1>3, <1>4, <1>5 DEF LinkInv

LEMMA OptKeeps == ASSUME LinkInv, Ties, NEW on \in BOOLEAN, SetOptIn(on) PROVE LinkInv'
<1>1. secret' \in TieSecret /\ secret'.key = secret.key /\ secret'.bound = secret.bound
  BY DEF SetOptIn, LinkInv, TieSecret
<1>2. UNCHANGED <<agentLinks, linking, blended, chosen, wronged, halfRead>>
  BY DEF SetOptIn
<1>. QED
  BY <1>1, <1>2, QuietKeeps DEF LinkInv, ChosenOnly, AccountsNeverBlend

LEMMA PatchKeeps == ASSUME LinkInv, Ties, NEW a \in Agents, NEW on \in BOOLEAN, PatchProfile(a, on) PROVE LinkInv'
<1> PICK s : s = Presence(on, agentLinks[a].shared)
  OBVIOUS
<1> PICK n : n = [agentLinks[a] EXCEPT !.enabled = on, !.status = s]
  OBVIOUS
<1>1. s \in {"disabled", "available", "offline"}
  BY DEF Presence
<1>2. agentLinks[a] \in AgentRow /\ agentLinks[a].there
  BY DEF PatchProfile, LinkInv
<1>3. n \in AgentRow /\ n.there = agentLinks[a].there /\ n.account = agentLinks[a].account /\ n.enabled = on
  BY <1>1, <1>2 DEF AgentRow
<1>4. agentLinks' = [agentLinks EXCEPT ![a].enabled = on, ![a].status = s]
      /\ UNCHANGED <<secret, linking, blended, wronged, halfRead>>
      /\ chosen' = IF on THEN chosen \cup {a} ELSE chosen \ {a}
  BY DEF PatchProfile
<1>5. agentLinks'[a] = n /\ (\A b \in Agents \ {a} : agentLinks'[b] = agentLinks[b]) /\ agentLinks' \in [Agents -> AgentRow]
  BY <1>3, <1>4 DEF LinkInv
<1>6. \A b \in Agents : /\ agentLinks'[b].there = agentLinks[b].there /\ agentLinks'[b].account = agentLinks[b].account
                        /\ LinkRowFine(agentLinks'[b]) /\ (agentLinks'[b].enabled => b \in chosen')
  BY <1>2, <1>3, <1>4, <1>5 DEF LinkInv, ChosenOnly, LinkRowFine
<1>. QED
  BY <1>4, <1>5, <1>6, QuietKeeps DEF LinkInv, AccountsNeverBlend

LEMMA LinkAskKeeps == ASSUME LinkInv, Ties, NEW a \in Agents, AskPersona(a) PROVE LinkInv'
<1>1. UNCHANGED <<secret, agentLinks, linking, chosen, wronged, halfRead>>
  BY DEF AskPersona
<1>2. tieMixed \/ blended' = {}
  BY AsksMatch DEF AskPersona, LinkInv, AccountsNeverBlend
<1>. QED
  BY <1>1, <1>2, QuietKeeps DEF LinkInv, ChosenOnly

LEMMA LinkStepInv == LinkInv /\ LinkNext => LinkInv'
<1> SUFFICES ASSUME LinkInv, LinkStep, Ties PROVE LinkInv'
  BY DEF LinkNext, Ties
<1>1. ASSUME NEW q \in Linkers, NEW h \in Homes, BeginConnect(q, h) PROVE LinkInv'
  BY <1>1, LinkConnectKeeps
<1>2. ASSUME NEW q \in Linkers, NEW reachable \in BOOLEAN, Probed(q, reachable) PROVE LinkInv'
  BY <1>2, ProbedKeeps
<1>3. ASSUME NEW q \in Linkers, ResolveAccount(q) \/ StoreAccount(q) \/ CommitConnect(q) \/ BeginSync(q)
                          \/ DiscoveryFailed(q) \/ CommitPass(q) \/ BeginDelete(q) \/ CommitDelete(q)
      PROVE LinkInv'
  <2>1. CASE CommitConnect(q) \/ DiscoveryFailed(q)
    BY <2>1, OverKeeps DEF CommitConnect, DiscoveryFailed
  <2>. QED
    BY <1>3, <2>1, ResolveKeeps, StoreKeeps, LinkSyncKeeps, PassKeeps, DeleteKeeps, DeletedKeeps
<1>4. ASSUME NEW q \in Linkers, NEW found \in SUBSET Agents, NEW told \in SUBSET Agents, NEW half \in BOOLEAN,
             Discovered(q, found, told, half)
      PROVE LinkInv'
  BY <1>4, DiscoveredKeeps
<1>5. ASSUME NEW on \in BOOLEAN, SetOptIn(on) PROVE LinkInv'
  BY <1>5, OptKeeps
<1>6. ASSUME NEW a \in Agents, NEW on \in BOOLEAN, PatchProfile(a, on) PROVE LinkInv'
  BY <1>6, PatchKeeps
<1>7. ASSUME NEW a \in Agents, AskPersona(a) PROVE LinkInv'
  BY <1>7, LinkAskKeeps
<1>. QED
  BY <1>1, <1>2, <1>3, <1>4, <1>5, <1>6, <1>7 DEF LinkStep

--------------------------------------------------------------------------------
(* Portraits that were imported (AgentPortraits) *)

ViewFields == {"op", "agent", "refs", "asked", "step", "got", "rows", "changed", "todo"}

\* A copy that is noted has an image, and so has one that is about to be noted.
CopiedOf(a) == onDisk[a].meta # NoPicture => onDisk[a].img.bytes = "image"

PortraitInv ==
    /\ askedLive = {} /\ blank = {}
    /\ DOMAIN onDisk = Faces /\ DOMAIN viewing = Viewers
    /\ \A a \in Faces : DOMAIN onDisk[a] = {"img", "meta"}
    /\ \A a \in Faces : CopiedOf(a)
    /\ \A q \in Viewers : viewing[q] # NoViewing => DOMAIN viewing[q] = ViewFields /\ viewing[q].agent \in Faces
    /\ \A q \in Viewers : ViewAt(q, "meta") => onDisk[viewing[q].agent].img.bytes = "image"

LEMMA PortraitInitInv == PortraitInit => PortraitInv
BY DEF PortraitInit, PortraitInv, NoCopy, NoPicture, CopiedOf, ViewAt

LEMMA PortraitStutters == PortraitInv /\ UNCHANGED portraitVars => PortraitInv'
BY DEF PortraitInv, portraitVars, CopiedOf, ViewAt

LEMMA PortraitHolds == PortraitInv => ImportsStayLocal /\ NeverBlank
BY DEF PortraitInv, ImportsStayLocal, NeverBlank

LEMMA SavedShown == ASSUME PortraitInv, NEW a \in Faces, ShowSaved(a) PROVE blank' = {}
<1>1. onDisk[a].meta # NoPicture => LastCopy(a) # NoPicture
  BY DEF PortraitInv, LastCopy, StoreKey, NoPicture, CopiedOf
<1>. QED
  BY <1>1 DEF ShowSaved, Show, PortraitInv

LEMMA FetchKeeps ==
    ASSUME PortraitInv, NEW q \in Viewers, NEW op, NEW a \in Faces, NEW known, NEW rest, StartFetch(q, op, a, known, rest),
           ~known.local, blank' = {}, onDisk' = onDisk
    PROVE PortraitInv'
<1> PICK v : v = [op |-> op, agent |-> a, refs |-> RefsToAsk(known),
                  asked |-> RefsToAsk(known), step |-> "ask", got |-> NoPicture,
                  rows |-> rest.rows, changed |-> rest.changed, todo |-> rest.todo]
  OBVIOUS
<1>1. viewing' = [viewing EXCEPT ![q] = v] /\ askedLive' = {}
  BY DEF StartFetch, PortraitInv
<1>2. DOMAIN v = ViewFields /\ v.agent \in Faces /\ v.step = "ask"
  BY DEF ViewFields
<1>3. DOMAIN viewing' = Viewers /\ viewing'[q] = v /\ \A o \in Viewers \ {q} : viewing'[o] = viewing[o]
  BY <1>1 DEF PortraitInv
<1>. HIDE <1>1
<1>. QED
  BY <1>1, <1>2, <1>3 DEF PortraitInv, CopiedOf, ViewAt

LEMMA PortraitDoneKeeps ==
    ASSUME PortraitInv, NEW q \in Viewers, viewing[q] # NoViewing, NEW p, FetchDone(q, p)
    PROVE /\ blank' = {} /\ DOMAIN viewing' = Viewers
          /\ \A o \in Viewers : /\ viewing'[o] # NoViewing => DOMAIN viewing'[o] = ViewFields /\ viewing'[o].agent \in Faces
                                /\ ViewAt(o, "meta")' => ViewAt(o, "meta") /\ viewing'[o] = viewing[o] /\ o # q
<1>1. CASE viewing[q].op = "prefetch"
  <2>1. viewing' = [viewing EXCEPT ![q].step = "next"] /\ blank' = {}
    BY <1>1 DEF FetchDone, PortraitInv
  <2>2. PICK v : v = [viewing[q] EXCEPT !.step = "next"]
    OBVIOUS
  <2>3. DOMAIN v = ViewFields /\ v.agent \in Faces /\ v.step = "next"
    BY <2>2 DEF PortraitInv, ViewFields
  <2>4. DOMAIN viewing' = Viewers /\ viewing'[q] = v /\ \A o \in Viewers \ {q} : viewing'[o] = viewing[o]
    BY <2>1, <2>2 DEF PortraitInv
  <2>. QED
    BY <2>1, <2>3, <2>4 DEF PortraitInv, ViewAt
<1>2. CASE viewing[q].op # "prefetch"
  <2>1. viewing' = [viewing EXCEPT ![q] = NoViewing] /\ (ShowSaved(viewing[q].agent) \/ Show(viewing[q].agent, p, "live"))
    BY <1>2 DEF FetchDone, ViewOver
  <2>2. blank' = {}
    <3>1. viewing[q].agent \in Faces
      BY DEF PortraitInv
    <3>2. CASE ShowSaved(viewing[q].agent)
      BY <3>1, <3>2, SavedShown
    <3>3. CASE Show(viewing[q].agent, p, "live")
      BY <3>3 DEF Show, PortraitInv
    <3>. QED
      BY <2>1, <3>2, <3>3
  <2>. QED
    BY <2>1, <2>2 DEF PortraitInv, ViewAt
<1>. QED
  BY <1>1, <1>2

LEMMA PortraitAskKeeps == ASSUME PortraitInv, NEW q \in Viewers, NEW a \in Faces, AskPortrait(q, a) PROVE PortraitInv'
<1> DEFINE rest == [rows |-> faceLinks, changed |-> {}, todo |-> {}]
<1>1. CASE HasClient(a) /\ RefsToAsk(faceLinks[a]) # <<>> /\ ~faceLinks[a].embedded
  <2>1. StartFetch(q, "page", a, faceLinks[a], rest) /\ UNCHANGED <<shown, blank, onDisk>> /\ ~faceLinks[a].local
    BY <1>1 DEF AskPortrait, HasClient
  <2>2. blank' = {} /\ onDisk' = onDisk
    BY <2>1 DEF PortraitInv
  <2>. HIDE DEF rest
  <2>. QED
    BY <2>1, <2>2, FetchKeeps
<1>2. CASE ~(HasClient(a) /\ RefsToAsk(faceLinks[a]) # <<>> /\ ~faceLinks[a].embedded)
  <2>1. UNCHANGED <<viewing, askedLive, torn, onDisk>>
        /\ (ShowSaved(a) \/ Show(a, [of |-> a, ref |-> NoRef, bytes |-> "image"], "embedded"))
    BY <1>2 DEF AskPortrait
  <2>2. blank' = {}
    <3>1. CASE ShowSaved(a)
      BY <3>1, SavedShown
    <3>2. CASE Show(a, [of |-> a, ref |-> NoRef, bytes |-> "image"], "embedded")
      BY <3>2 DEF Show, PortraitInv
    <3>. QED
      BY <2>1, <3>1, <3>2
  <2>. QED
    BY <2>1, <2>2 DEF PortraitInv, CopiedOf, ViewAt
<1>. QED
  BY <1>1, <1>2

LEMMA PrefetchKeeps == ASSUME PortraitInv, NEW q \in Viewers, NEW a \in Faces, PrefetchNext(q, a) PROVE PortraitInv'
<1> DEFINE rest == [viewing[q] EXCEPT !.todo = @ \ {a}]
<1>1. StartFetch(q, "prefetch", a, viewing[q].rows[a], rest) /\ ~viewing[q].rows[a].local
  BY DEF PrefetchNext, Lacking
<1>2. blank' = {} /\ onDisk' = onDisk
  BY DEF PrefetchNext, PortraitInv
<1>. HIDE DEF rest
<1>. QED
  BY <1>1, <1>2, FetchKeeps

LEMMA PortraitSyncKeeps ==
    ASSUME PortraitInv, NEW q \in Viewers, NEW a \in Faces, NEW found, SyncFaces(q, a, found)
    PROVE PortraitInv'
<1> PICK v : v = [op |-> "prefetch", agent |-> a, refs |-> <<>>, asked |-> <<>>, step |-> "next", got |-> NoPicture,
           rows |-> [faceLinks EXCEPT ![a].there = TRUE, ![a].thumb = found.thumb, ![a].avatar = found.avatar],
           changed |-> {a}, todo |-> Faces]
  OBVIOUS
<1>1. DOMAIN v = ViewFields /\ v.agent \in Faces /\ v.step = "next"
  BY DEF ViewFields
<1>2. viewing' = [viewing EXCEPT ![q] = v] /\ UNCHANGED <<onDisk, blank, askedLive>>
  BY DEF SyncFaces
<1>3. DOMAIN viewing' = Viewers /\ viewing'[q] = v /\ \A o \in Viewers \ {q} : viewing'[o] = viewing[o]
  BY <1>2 DEF PortraitInv
<1>. QED
  BY <1>1, <1>2, <1>3 DEF PortraitInv, CopiedOf, ViewAt

LEMMA AssetKeeps ==
    ASSUME PortraitInv, NEW q \in Viewers, NEW bytes, AssetCame(q, bytes)
    PROVE PortraitInv'
<1> PICK a : a = viewing[q].agent
  OBVIOUS
<1> PICK p : p = [of |-> a, ref |-> Head(viewing[q].refs), bytes |-> bytes]
  OBVIOUS
<1>0. a \in Faces /\ viewing[q] # NoViewing /\ DOMAIN viewing[q] = ViewFields /\ askedLive' = {}
  BY DEF AssetCame, ViewAt, PortraitInv
<1>1. CASE Storable(p) /\ onDisk[a].meta # p
  <2>1. onDisk' = [onDisk EXCEPT ![a].img = p] /\ viewing' = [viewing EXCEPT ![q].step = "meta", ![q].got = p] /\ blank' = {}
    BY <1>1 DEF AssetCame, StoreKey, PortraitInv
  <2>2. PICK c : c = [onDisk[a] EXCEPT !.img = p]
    OBVIOUS
  <2>3. DOMAIN c = {"img", "meta"} /\ c.img = p /\ p.bytes = "image"
    BY <1>0, <1>1, <2>2 DEF PortraitInv, Storable
  <2>4. DOMAIN onDisk' = Faces /\ onDisk'[a] = c /\ \A b \in Faces \ {a} : onDisk'[b] = onDisk[b]
    BY <1>0, <2>1, <2>2 DEF PortraitInv
  <2>5. PICK v : v = [viewing[q] EXCEPT !.step = "meta", !.got = p]
    OBVIOUS
  <2>6. DOMAIN v = ViewFields /\ v.agent = a
    BY <1>0, <2>5 DEF ViewFields
  <2>7. DOMAIN viewing' = Viewers /\ viewing'[q] = v /\ \A o \in Viewers \ {q} : viewing'[o] = viewing[o]
    BY <2>1, <2>5 DEF PortraitInv
  <2>8. \A b \in Faces : CopiedOf(b)'
    BY <2>3, <2>4 DEF PortraitInv, CopiedOf
  <2>9. \A o \in Viewers : viewing'[o] # NoViewing => DOMAIN viewing'[o] = ViewFields /\ viewing'[o].agent \in Faces
    BY <1>0, <2>6, <2>7 DEF PortraitInv
  <2>10. \A o \in Viewers : ViewAt(o, "meta")' => onDisk'[viewing'[o].agent].img.bytes = "image"
    BY <1>0, <2>3, <2>4, <2>6, <2>7 DEF PortraitInv, ViewAt
  <2>. QED
    BY <1>0, <2>1, <2>3, <2>4, <2>7, <2>8, <2>9, <2>10 DEF PortraitInv
<1>2. CASE ~(Storable(p) /\ onDisk[a].meta # p)
  <2>1. FetchDone(q, p) /\ onDisk' = onDisk
    BY <1>2 DEF AssetCame, StoreKey
  <2>. QED
    BY <1>0, <2>1, PortraitDoneKeeps DEF PortraitInv, CopiedOf
<1>. QED
  BY <1>1, <1>2

LEMMA MissedKeeps == ASSUME PortraitInv, NEW q \in Viewers, AssetMissed(q) PROVE PortraitInv'
<1>0. viewing[q] # NoViewing /\ viewing[q].step = "ask" /\ DOMAIN viewing[q] = ViewFields /\ askedLive' = {} /\ onDisk' = onDisk
  BY DEF AssetMissed, ViewAt, PortraitInv
<1>1. CASE Len(viewing[q].refs) > 1
  <2>1. viewing' = [viewing EXCEPT ![q].refs = Tail(@)] /\ blank' = {}
    BY <1>1 DEF AssetMissed, PortraitInv
  <2>2. PICK v : v = [viewing[q] EXCEPT !.refs = Tail(@)]
    OBVIOUS
  <2>3. DOMAIN v = ViewFields /\ v.agent = viewing[q].agent /\ v.step = "ask"
    BY <1>0, <2>2 DEF ViewFields
  <2>4. DOMAIN viewing' = Viewers /\ viewing'[q] = v /\ \A o \in Viewers \ {q} : viewing'[o] = viewing[o]
    BY <2>1, <2>2 DEF PortraitInv
  <2>. QED
    BY <1>0, <2>1, <2>3, <2>4 DEF PortraitInv, CopiedOf, ViewAt
<1>2. CASE ~(Len(viewing[q].refs) > 1)
  <2>1. FetchDone(q, NoPicture)
    BY <1>2 DEF AssetMissed
  <2>. QED
    BY <1>0, <2>1, PortraitDoneKeeps DEF PortraitInv, CopiedOf
<1>. QED
  BY <1>1, <1>2

LEMMA NotedKeeps == ASSUME PortraitInv, NEW q \in Viewers, CopyWritten(q) PROVE PortraitInv'
<1> PICK a : a = viewing[q].agent
  OBVIOUS
<1> PICK p : p = viewing[q].got
  OBVIOUS
<1>0. a \in Faces /\ viewing[q] # NoViewing /\ askedLive' = {} /\ onDisk[a].img.bytes = "image"
  BY DEF CopyWritten, ViewAt, PortraitInv
<1>1. onDisk' = [onDisk EXCEPT ![a].meta = p] /\ FetchDone(q, p)
  BY DEF CopyWritten, StoreKey, KeptAs
<1>2. PICK c : c = [onDisk[a] EXCEPT !.meta = p]
  OBVIOUS
<1>3. DOMAIN c = {"img", "meta"} /\ c.img = onDisk[a].img
  BY <1>0, <1>2 DEF PortraitInv
<1>4. DOMAIN onDisk' = Faces /\ onDisk'[a] = c /\ \A b \in Faces \ {a} : onDisk'[b] = onDisk[b]
  BY <1>0, <1>1, <1>2 DEF PortraitInv
<1>5. \A b \in Faces : CopiedOf(b)' /\ onDisk'[b].img = onDisk[b].img /\ DOMAIN onDisk'[b] = {"img", "meta"}
  BY <1>0, <1>3, <1>4 DEF PortraitInv, CopiedOf
<1>6. /\ blank' = {} /\ DOMAIN viewing' = Viewers
      /\ \A o \in Viewers : /\ viewing'[o] # NoViewing => DOMAIN viewing'[o] = ViewFields /\ viewing'[o].agent \in Faces
                            /\ ViewAt(o, "meta")' => ViewAt(o, "meta") /\ viewing'[o] = viewing[o] /\ o # q
  BY <1>0, <1>1, PortraitDoneKeeps
<1>7. \A o \in Viewers : ViewAt(o, "meta")' => onDisk'[viewing'[o].agent].img.bytes = "image"
  <2> SUFFICES ASSUME NEW o \in Viewers, ViewAt(o, "meta")' PROVE onDisk'[viewing'[o].agent].img.bytes = "image"
    OBVIOUS
  <2>1. ViewAt(o, "meta") /\ viewing'[o] = viewing[o] /\ viewing[o].agent \in Faces
    BY <1>6 DEF PortraitInv, ViewAt
  <2>. QED
    BY <1>5, <2>1 DEF PortraitInv
<1>. QED
  BY <1>0, <1>4, <1>5, <1>6, <1>7 DEF PortraitInv

LEMMA EndsKeeps == ASSUME PortraitInv, NEW q \in Viewers, PrefetchEnds(q) PROVE PortraitInv'
BY DEF PortraitInv, PrefetchEnds, ViewOver, CopiedOf, ViewAt

LEMMA PortraitStepInv == PortraitInv /\ PortraitNext => PortraitInv'
<1> SUFFICES ASSUME PortraitInv, PortraitNext PROVE PortraitInv'
  OBVIOUS
<1>1. ASSUME NEW q \in Viewers, NEW a \in Faces, AskPortrait(q, a) \/ PrefetchNext(q, a) PROVE PortraitInv'
  BY <1>1, PortraitAskKeeps, PrefetchKeeps
<1>2. ASSUME NEW q \in Viewers, NEW a \in Faces, NEW found \in Appearances, SyncFaces(q, a, found) PROVE PortraitInv'
  BY <1>2, PortraitSyncKeeps
<1>3. ASSUME NEW q \in Viewers, PrefetchEnds(q) \/ AssetMissed(q) \/ CopyWritten(q) PROVE PortraitInv'
  BY <1>3, EndsKeeps, MissedKeeps, NotedKeeps
<1>4. ASSUME NEW q \in Viewers, NEW bytes \in Bytes, AssetCame(q, bytes) PROVE PortraitInv'
  BY <1>4, AssetKeeps
<1>5. CASE GatewayDies
  BY <1>5 DEF GatewayDies, PortraitInv, CopiedOf, ViewAt
<1>6. CASE AddressChanges
  BY <1>6 DEF AddressChanges, PortraitInv, CopiedOf, ViewAt
<1>7. ASSUME NEW a \in Faces, NEW pkg \in Packages, ImportLocal(a, pkg) PROVE PortraitInv'
  BY <1>7 DEF ImportLocal, PortraitInv, CopiedOf, ViewAt
<1>8. ASSUME NEW alive \in SUBSET (1..Len(Candidates)), NEW first \in alive, Detect(alive, first) PROVE PortraitInv'
  BY <1>8 DEF Detect, PortraitInv, CopiedOf, ViewAt
<1>. QED
  BY <1>1, <1>2, <1>3, <1>4, <1>5, <1>6, <1>7, <1>8 DEF PortraitNext

--------------------------------------------------------------------------------
(* Revisions of a Slack draft (SlackDrafts) *)

DraftRevisionRow == [id : Nat, previous_text : Texts]
WritingRow == [op : DraftOp, by : Nat, loaded : DraftRow, text : Texts, met : SUBSET DraftOp,
               undoes : SUBSET DraftRevisionRow]

\* An edit that has met no undo has found the text it replaces when nothing was recorded,
\* and an undo that has met no edit takes back the newest revision, if it is there.
EditFine(r) == ("undo" \notin r.met /\ revisions = <<>>) => r.loaded.text = Prepared
UndoFine(r) == \A v \in r.undoes, i \in DOMAIN revisions :
    (r.met \cap Rewrites = {} /\ revisions[i] = v) => i = Len(revisions) /\ draft.text = r.loaded.text

DraftInv ==
    /\ writes \in Nat /\ draft \in DraftRow /\ revisions \in Seq(DraftRevisionRow) /\ DOMAIN writing = Writers
    /\ \A i, j \in DOMAIN revisions : revisions[i].id = revisions[j].id => i = j
    /\ \A i \in DOMAIN revisions : revisions[i].id <= writes
    /\ \A q \in Writers : writing[q] # NotWriting =>
          /\ writing[q] \in WritingRow /\ writing[q].by <= writes
          /\ \A i \in DOMAIN revisions : writing[q].op \in Rewrites => revisions[i].id # writing[q].by
          /\ writing[q].op = "undo" => \E v \in DraftRevisionRow : writing[q].undoes = {v}
    /\ \A q, o \in Writers : (q # o /\ writing[q] # NotWriting /\ writing[o] # NotWriting) => writing[q].by # writing[o].by
    /\ mixed \in BOOLEAN /\ OriginalKept
    /\ ~mixed => \A q \in Writers : /\ (writing[q] # NotWriting /\ writing[q].op \in Rewrites) => EditFine(writing[q])
                                    /\ (writing[q] # NotWriting /\ writing[q].op = "undo") => UndoFine(writing[q])

LEMMA DraftInitInv == DraftInit => DraftInv
<1> SUFFICES ASSUME DraftInit PROVE DraftInv
  OBVIOUS
<1>1. revisions = <<>> /\ draft.text = Prepared /\ draft \in DraftRow
  BY DraftAssumption DEF DraftInit, DraftRow, DraftStatus
<1>2. revisions \in Seq(DraftRevisionRow) /\ DOMAIN revisions = {}
  BY <1>1
<1>3. \A q \in Writers : writing[q] = NotWriting
  BY DEF DraftInit
<1>. QED
  BY <1>1, <1>2, <1>3 DEF DraftInit, DraftInv, OriginalKept, OldestText

LEMMA DraftStutters == DraftInv /\ UNCHANGED draftVars => DraftInv'
BY DEF DraftInv, draftVars, OriginalKept, OldestText, EditFine, UndoFine

LEMMA DraftHolds == DraftInv => OriginalKept
BY DEF DraftInv

LEMMA DraftOpenKeeps ==
    ASSUME DraftInv, NEW q \in Writers, NEW op \in DraftOp, NEW text \in Texts, OpenWrite(q, op, text)
    PROVE DraftInv'
<1> PICK u : u = IF op = "undo" THEN {revisions[Len(revisions)]} ELSE {}
  OBVIOUS
<1> PICK r : r = [op |-> op, by |-> writes + 1, loaded |-> draft, text |-> text, met |-> {}, undoes |-> u]
  OBVIOUS
<1>1. writing' = [writing EXCEPT ![q] = r] /\ writes' = writes + 1 /\ UNCHANGED <<draft, revisions, mixed>>
      /\ (op = "undo" => revisions # <<>>) /\ writing[q] = NotWriting
  BY DEF OpenWrite
<1>2. op = "undo" => Len(revisions) \in DOMAIN revisions /\ revisions[Len(revisions)] \in DraftRevisionRow
  BY <1>1 DEF DraftInv
<1>3. r \in WritingRow /\ (op = "undo" => \E v \in DraftRevisionRow : r.undoes = {v})
  BY <1>2 DEF WritingRow, DraftInv
<1>4. r.op = op /\ r.by = writes + 1 /\ r.loaded = draft /\ r.undoes = u
  OBVIOUS
<1>5. DOMAIN writing' = Writers /\ writing'[q] = r /\ \A o \in Writers \ {q} : writing'[o] = writing[o]
  BY <1>1 DEF DraftInv
<1>6. ASSUME NEW i \in DOMAIN revisions' PROVE revisions'[i].id <= writes' /\ revisions'[i].id # writes'
  <2>1. revisions[i].id <= writes /\ revisions[i] \in DraftRevisionRow /\ writes \in Nat
    BY <1>1 DEF DraftInv
  <2>2. revisions[i].id \in Nat
    BY <2>1 DEF DraftRevisionRow
  <2>. QED
    BY <1>1, <2>1, <2>2
<1>7. \A o \in Writers : writing'[o] # NotWriting =>
          /\ writing'[o] \in WritingRow /\ writing'[o].by <= writes'
          /\ \A i \in DOMAIN revisions' : writing'[o].op \in Rewrites => revisions'[i].id # writing'[o].by
          /\ writing'[o].op = "undo" => \E v \in DraftRevisionRow : writing'[o].undoes = {v}
  <2> SUFFICES ASSUME NEW o \in Writers, writing'[o] # NotWriting
      PROVE /\ writing'[o] \in WritingRow /\ writing'[o].by <= writes'
            /\ \A i \in DOMAIN revisions' : writing'[o].op \in Rewrites => revisions'[i].id # writing'[o].by
            /\ writing'[o].op = "undo" => \E v \in DraftRevisionRow : writing'[o].undoes = {v}
    OBVIOUS
  <2>1. CASE o = q
    BY <1>1, <1>3, <1>4, <1>5, <1>6, <2>1 DEF DraftInv
  <2>2. CASE o # q
    <3>1. writing'[o] = writing[o] /\ writing[o].by \in Nat /\ writing[o].by <= writes
      BY <1>5, <2>2 DEF DraftInv, WritingRow
    <3>. QED
      BY <1>1, <3>1 DEF DraftInv
  <2>. QED
    BY <2>1, <2>2
<1>8. \A p, o \in Writers : (p # o /\ writing'[p] # NotWriting /\ writing'[o] # NotWriting) => writing'[p].by # writing'[o].by
  BY <1>1, <1>4, <1>5 DEF DraftInv, WritingRow
<1>9. ASSUME ~mixed', NEW o \in Writers
      PROVE /\ (writing'[o] # NotWriting /\ writing'[o].op \in Rewrites) => EditFine(writing[o])'
            /\ (writing'[o] # NotWriting /\ writing'[o].op = "undo") => UndoFine(writing[o])'
  <2>1. CASE o = q
    <3>1. op \in Rewrites => EditFine(writing[o])'
      BY <1>1, <1>4, <1>5, <1>9, <2>1 DEF DraftInv, OriginalKept, OldestText, EditFine
    <3>2. op = "undo" => UndoFine(writing[o])'
      <4> SUFFICES ASSUME op = "undo" PROVE UndoFine(writing[o])'
        OBVIOUS
      <4>1. \A i \in DOMAIN revisions : revisions[i] = revisions[Len(revisions)] => i = Len(revisions)
        BY <1>2 DEF DraftInv
      <4>2. draft.text = r.loaded.text
        BY <1>4
      <4>. QED
        BY <1>1, <1>4, <1>5, <2>1, <4>1, <4>2 DEF UndoFine
    <3>. QED
      BY <1>4, <1>5, <2>1, <3>1, <3>2
  <2>2. CASE o # q
    BY <1>1, <1>5, <1>9, <2>2 DEF DraftInv, EditFine, UndoFine
  <2>. QED
    BY <2>1, <2>2
<1>10. OriginalKept' /\ writes' \in Nat /\ (\A i \in DOMAIN revisions' : revisions'[i].id <= writes')
  BY <1>1, <1>6 DEF DraftInv, OriginalKept, OldestText
<1>. QED
  BY <1>1, <1>5, <1>7, <1>8, <1>9, <1>10 DEF DraftInv

\* The requests that are left when one ends have met it.
LEMMA WriteCloses ==
    ASSUME DraftInv, NEW q \in Writers, CloseWrite(q)
    PROVE /\ DOMAIN writing' = Writers /\ writing'[q] = NotWriting
          /\ \A o \in Writers \ {q} : writing[o] = NotWriting => writing'[o] = NotWriting
          /\ \A o \in Writers \ {q} : writing[o] # NotWriting =>
                /\ writing'[o] # NotWriting /\ writing'[o] \in WritingRow
                /\ writing'[o].op = writing[o].op /\ writing'[o].by = writing[o].by /\ writing'[o].loaded = writing[o].loaded
                /\ writing'[o].text = writing[o].text /\ writing'[o].undoes = writing[o].undoes
                /\ writing'[o].met = writing[o].met \cup {writing[q].op}
<1>1. writing[q].op \in DraftOp
  BY DEF DraftInv, CloseWrite, WritingRow
<1>2. ASSUME NEW o \in Writers \ {q}, writing[o] # NotWriting
      PROVE /\ writing'[o] # NotWriting /\ writing'[o] \in WritingRow
            /\ writing'[o].op = writing[o].op /\ writing'[o].by = writing[o].by /\ writing'[o].loaded = writing[o].loaded
            /\ writing'[o].text = writing[o].text /\ writing'[o].undoes = writing[o].undoes
            /\ writing'[o].met = writing[o].met \cup {writing[q].op}
  <2>1. PICK n : n = [writing[o] EXCEPT !.met = @ \cup {writing[q].op}]
    OBVIOUS
  <2>2. writing'[o] = n
    BY <1>2, <2>1 DEF CloseWrite
  <2>3. writing[o] \in WritingRow
    BY <1>2 DEF DraftInv
  <2>4. n \in WritingRow
    BY <1>1, <2>1, <2>3 DEF WritingRow
  <2>5. /\ n.op = writing[o].op /\ n.by = writing[o].by /\ n.loaded = writing[o].loaded /\ n.text = writing[o].text
        /\ n.undoes = writing[o].undoes /\ n.met = writing[o].met \cup {writing[q].op}
    BY <2>1, <2>3 DEF WritingRow
  <2>6. n # NotWriting
    BY <2>4 DEF NotWriting, WritingRow, DraftOp, Rewrites
  <2>. QED
    BY <2>2, <2>4, <2>5, <2>6
<1>3. DOMAIN writing' = Writers /\ writing'[q] = NotWriting /\ \A o \in Writers \ {q} : writing[o] = NotWriting => writing'[o] = NotWriting
  BY DEF CloseWrite
<1>. QED
  BY <1>2, <1>3

\* What Store makes of the row.
LEMMA Stored ==
    ASSUME DraftInv, NEW r \in WritingRow, NEW text \in Texts, NEW status \in DraftStatus, Store(r, text, status)
    PROVE draft' \in DraftRow /\ draft'.text = IF text # r.loaded.text THEN text ELSE draft.text
<1>1. PICK s : s = IF status # r.loaded.status THEN status ELSE draft.status
  OBVIOUS
<1>2. PICK t : t = IF text # r.loaded.text THEN text ELSE draft.text
  OBVIOUS
<1>3. s \in DraftStatus /\ t \in Texts
  BY <1>1, <1>2 DEF DraftInv, DraftRow
<1>4. draft' = [text |-> t, status |-> s]
  BY <1>1, <1>2 DEF Store
<1>. QED
  BY <1>2, <1>3, <1>4 DEF DraftRow

\* A step that ends a request and leaves text and revisions.
LEMMA SameText ==
    ASSUME DraftInv, NEW q \in Writers, CloseWrite(q), draft' \in DraftRow, draft'.text = draft.text,
           UNCHANGED <<revisions, writes>>, mixed' \in BOOLEAN, mixed => mixed'
    PROVE DraftInv'
<1> USE WriteCloses
<1>1. \A o \in Writers : writing'[o] # NotWriting =>
          /\ o # q /\ writing[o] # NotWriting
          /\ writing'[o] \in WritingRow /\ writing'[o].by <= writes'
          /\ \A i \in DOMAIN revisions' : writing'[o].op \in Rewrites => revisions'[i].id # writing'[o].by
          /\ writing'[o].op = "undo" => \E v \in DraftRevisionRow : writing'[o].undoes = {v}
  BY DEF DraftInv
<1>2. \A p, o \in Writers : (p # o /\ writing'[p] # NotWriting /\ writing'[o] # NotWriting) => writing'[p].by # writing'[o].by
  BY <1>1 DEF DraftInv
<1>3. ASSUME ~mixed', NEW o \in Writers, writing'[o] # NotWriting
      PROVE /\ writing'[o].op \in Rewrites => EditFine(writing[o])'
            /\ writing'[o].op = "undo" => UndoFine(writing[o])'
  <2>1. o # q /\ writing[o] # NotWriting
    BY <1>1, <1>3
  <2>2. writing'[o].op = writing[o].op /\ writing'[o].loaded = writing[o].loaded
        /\ writing'[o].undoes = writing[o].undoes /\ writing[o].met \subseteq writing'[o].met
    BY <2>1
  <2>3. /\ writing[o].op \in Rewrites => EditFine(writing[o])
        /\ writing[o].op = "undo" => UndoFine(writing[o])
    BY <1>3, <2>1 DEF DraftInv
  <2>. QED
    BY <2>2, <2>3 DEF EditFine, UndoFine
<1>4. OriginalKept'
  BY DEF DraftInv, OriginalKept, OldestText
<1>. QED
  BY <1>1, <1>2, <1>3, <1>4 DEF DraftInv

LEMMA EditKeeps == ASSUME DraftInv, NEW q \in Writers, Edit(q) PROVE DraftInv'
<1> PICK r : r = writing[q]
  OBVIOUS
<1>0. r # NotWriting /\ r \in WritingRow /\ r.op \in Rewrites /\ CloseWrite(q) /\ writes' = writes
      /\ r.text \in Texts /\ r.loaded.text \in Texts /\ r.loaded.status \in DraftStatus /\ mixed' = (mixed \/ "undo" \in r.met)
  BY DEF Edit, CloseWrite, DraftInv, WritingRow, DraftRow
<1>1. draft' \in DraftRow /\ draft'.text = IF r.text # r.loaded.text THEN r.text ELSE draft.text
  BY <1>0, Stored DEF Edit
<1>2. mixed' \in BOOLEAN /\ (mixed => mixed')
  BY <1>0 DEF DraftInv
<1>3. CASE r.op = "update_text" /\ r.text = r.loaded.text
  <2>1. revisions' = revisions /\ draft'.text = draft.text
    BY <1>1, <1>3 DEF Edit
  <2>. QED
    BY <1>0, <1>1, <1>2, <2>1, SameText
<1>4. CASE ~(r.op = "update_text" /\ r.text = r.loaded.text)
  <2> PICK n : n = [id |-> r.by, previous_text |-> r.loaded.text]
    OBVIOUS
  <2>1. n \in DraftRevisionRow /\ n.id = r.by /\ n.previous_text = r.loaded.text
    BY <1>0 DEF DraftRevisionRow, WritingRow
  <2>2. revisions' = Append(revisions, n)
    BY <1>4 DEF Edit, Pushed
  <2>3. /\ Len(revisions) \in Nat /\ DOMAIN revisions = 1..Len(revisions)
        /\ revisions' \in Seq(DraftRevisionRow) /\ DOMAIN revisions' = 1..(Len(revisions) + 1)
        /\ revisions'[Len(revisions) + 1] = n /\ \A i \in 1..Len(revisions) : revisions'[i] = revisions[i]
    BY <2>1, <2>2 DEF DraftInv
  <2>4. revisions' # <<>> /\ Head(revisions') = revisions'[1]
    BY <2>3
  <2>5. \A i \in DOMAIN revisions : revisions[i].id # r.by /\ revisions[i].id <= writes
    BY <1>0 DEF DraftInv
  <2>6. \A i, j \in DOMAIN revisions' : revisions'[i].id = revisions'[j].id => i = j
    BY <2>1, <2>3, <2>5 DEF DraftInv
  <2>7. r.by <= writes
    BY <1>0 DEF DraftInv
  <2>8. \A i \in DOMAIN revisions' : revisions'[i].id <= writes'
    BY <1>0, <2>1, <2>3, <2>5, <2>7
  <2>9. ASSUME NEW o \in Writers, writing'[o] # NotWriting
        PROVE /\ writing'[o] \in WritingRow /\ writing'[o].by <= writes'
              /\ \A i \in DOMAIN revisions' : writing'[o].op \in Rewrites => revisions'[i].id # writing'[o].by
              /\ writing'[o].op = "undo" => \E v \in DraftRevisionRow : writing'[o].undoes = {v}
              /\ o # q /\ writing[o] # NotWriting /\ writing'[o].by = writing[o].by
    <3>1. o # q /\ writing[o] # NotWriting
      BY <1>0, <2>9, WriteCloses
    <3>2. writing'[o] \in WritingRow /\ writing'[o].op = writing[o].op /\ writing'[o].by = writing[o].by
          /\ writing'[o].undoes = writing[o].undoes
      BY <1>0, <3>1, WriteCloses
    <3>3. writing[o].by # r.by /\ writing[o].by <= writes
      BY <1>0, <3>1 DEF DraftInv
    <3>4. \A i \in DOMAIN revisions : writing[o].op \in Rewrites => revisions[i].id # writing[o].by
      BY <3>1 DEF DraftInv
    <3>5. writing[o].op = "undo" => \E v \in DraftRevisionRow : writing[o].undoes = {v}
      BY <3>1 DEF DraftInv
    <3>. QED
      BY <1>0, <2>1, <2>3, <3>1, <3>2, <3>3, <3>4, <3>5
  <2>10. \A p, o \in Writers : (p # o /\ writing'[p] # NotWriting /\ writing'[o] # NotWriting) => writing'[p].by # writing'[o].by
    BY <2>9 DEF DraftInv
  <2>11. OriginalKept'
    <3> SUFFICES ASSUME ~mixed' PROVE Head(revisions').previous_text = Prepared
      BY <2>4 DEF OriginalKept, OldestText
    <3>1. ~mixed /\ "undo" \notin r.met
      BY <1>0
    <3>2. CASE revisions = <<>>
      <4>1. r.loaded.text = Prepared
        BY <1>0, <3>1, <3>2 DEF DraftInv, EditFine
      <4>2. revisions'[1] = n
        BY <2>3, <3>2
      <4>. QED
        BY <2>1, <2>4, <4>1, <4>2
    <3>3. CASE revisions # <<>>
      <4>1. revisions'[1] = revisions[1] /\ Head(revisions) = revisions[1]
        BY <2>3, <3>3 DEF DraftInv
      <4>. QED
        BY <2>4, <3>1, <3>3, <4>1 DEF DraftInv, OriginalKept, OldestText
    <3>. QED
      BY <3>2, <3>3
  <2>12. ASSUME NEW o \in Writers, writing'[o] # NotWriting
         PROVE /\ writing'[o].op \in Rewrites => EditFine(writing[o])'
               /\ writing'[o].op = "undo" => UndoFine(writing[o])'
    <3>1. writing'[o].met \cap Rewrites # {}
      BY <1>0, <2>9, <2>12, WriteCloses
    <3>. QED
      BY <2>4, <3>1 DEF EditFine, UndoFine
  <2>. QED
    BY <1>0, <1>1, <1>2, <2>3, <2>6, <2>8, <2>9, <2>10, <2>11, <2>12, WriteCloses DEF DraftInv
<1>. QED
  BY <1>3, <1>4

LEMMA Shortened ==
    ASSUME NEW s \in Seq(DraftRevisionRow), NEW i \in DOMAIN s
    PROVE /\ RemoveAt(s, i) \in Seq(DraftRevisionRow) /\ Len(RemoveAt(s, i)) = Len(s) - 1
          /\ \A j \in 1..(i - 1) : RemoveAt(s, i)[j] = s[j]
          /\ \A j \in i..(Len(s) - 1) : RemoveAt(s, i)[j] = s[j + 1]
<1>1. Len(s) \in Nat /\ i \in 1..Len(s)
  OBVIOUS
<1> DEFINE a == SubSeq(s, 1, i - 1)
           b == SubSeq(s, i + 1, Len(s))
<1>2. a \in Seq(DraftRevisionRow) /\ Len(a) = i - 1 /\ \A j \in 1..(i - 1) : a[j] = s[j]
  BY <1>1
<1>3. b \in Seq(DraftRevisionRow) /\ Len(b) = Len(s) - i /\ \A j \in 1..(Len(s) - i) : b[j] = s[i + j]
  BY <1>1
<1>4. RemoveAt(s, i) = a \o b
  BY DEF RemoveAt
<1> HIDE DEF a, b
<1>5. a \o b \in Seq(DraftRevisionRow) /\ Len(a \o b) = Len(s) - 1
  BY <1>1, <1>2, <1>3
<1>6. \A j \in 1..(i - 1) : (a \o b)[j] = a[j]
  BY <1>1, <1>2, <1>3
<1>7. ASSUME NEW j \in i..(Len(s) - 1) PROVE (a \o b)[j] = s[j + 1]
  <2>1. j \in Nat /\ j > Len(a) /\ j <= Len(a) + Len(b) /\ j - Len(a) = j + 1 - i /\ j + 1 - i \in 1..(Len(s) - i)
    BY <1>1, <1>2, <1>3
  <2>2. (a \o b)[j] = b[j - Len(a)]
    BY SMTT(40), <1>2, <1>3, <2>1
  <2>3. PICK k : k = j + 1 - i
    OBVIOUS
  <2>4. k \in 1..(Len(s) - i) /\ i + k = j + 1 /\ (a \o b)[j] = b[k]
    BY <1>1, <2>1, <2>2, <2>3
  <2>5. b[k] = s[i + k]
    BY <1>3, <2>4
  <2>. QED
    BY <2>4, <2>5
<1>8. \A j \in 1..(i - 1) : (a \o b)[j] = s[j]
  BY <1>2, <1>6
<1>. QED
  BY <1>4, <1>5, <1>7, <1>8

\* A step that ends a request after which the draft counts as mixed, and adds no revision.
LEMMA MixedKeeps ==
    ASSUME DraftInv, NEW q \in Writers, CloseWrite(q), draft' \in DraftRow, writes' = writes, mixed' = TRUE,
           revisions' \in Seq(DraftRevisionRow),
           \A i \in DOMAIN revisions' : \E j \in DOMAIN revisions : revisions'[i] = revisions[j],
           \A i, j \in DOMAIN revisions' : revisions'[i].id = revisions'[j].id => i = j
    PROVE DraftInv'
<1> USE WriteCloses
<1>1. \A o \in Writers : writing'[o] # NotWriting => o # q /\ writing[o] # NotWriting
  OBVIOUS
<1>2. ASSUME NEW o \in Writers, writing'[o] # NotWriting
      PROVE /\ writing'[o] \in WritingRow /\ writing'[o].by <= writes'
            /\ \A i \in DOMAIN revisions' : writing'[o].op \in Rewrites => revisions'[i].id # writing'[o].by
            /\ writing'[o].op = "undo" => \E v \in DraftRevisionRow : writing'[o].undoes = {v}
  <2>1. o # q /\ writing[o] # NotWriting
    BY <1>1, <1>2
  <2>2. /\ writing[o].by <= writes /\ (writing[o].op = "undo" => \E v \in DraftRevisionRow : writing[o].undoes = {v})
        /\ writing[o].op \in Rewrites => \A i \in DOMAIN revisions : revisions[i].id # writing[o].by
    BY <2>1 DEF DraftInv
  <2>3. /\ writing'[o] \in WritingRow /\ writing'[o].op = writing[o].op /\ writing'[o].by = writing[o].by
        /\ writing'[o].undoes = writing[o].undoes
    BY <2>1
  <2>4. writing[o].op \in Rewrites => \A i \in DOMAIN revisions' : revisions'[i].id # writing[o].by
    BY <2>2
  <2>. QED
    BY <2>2, <2>3, <2>4
<1>3. \A p, o \in Writers : (p # o /\ writing'[p] # NotWriting /\ writing'[o] # NotWriting) => writing'[p].by # writing'[o].by
  BY <1>1 DEF DraftInv
<1>4. \A i \in DOMAIN revisions' : revisions'[i].id <= writes'
  BY DEF DraftInv
<1>. QED
  BY <1>2, <1>3, <1>4 DEF DraftInv, OriginalKept

LEMMA Earlier ==
    ASSUME NEW l \in Nat, NEW j \in 1..(l - 1)
    PROVE j \in 1..l /\ j # l
OBVIOUS

LEMMA UndoKeeps == ASSUME DraftInv, NEW q \in Writers, Undo(q) PROVE DraftInv'
<1> PICK r : r = writing[q]
  OBVIOUS
<1>0. r # NotWriting /\ r \in WritingRow /\ r.op = "undo" /\ CloseWrite(q) /\ writes' = writes
      /\ mixed' = (mixed \/ r.met \cap Rewrites # {} \/ Late(r))
  BY DEF Undo, CloseWrite, DraftInv
<1>1. PICK v \in DraftRevisionRow : r.undoes = {v}
  BY <1>0 DEF DraftInv
<1>2. v.previous_text \in Texts /\ r.loaded.status \in DraftStatus
  BY <1>0, <1>1 DEF DraftRevisionRow, WritingRow, DraftRow
<1>3. Store(r, v.previous_text, r.loaded.status)
  BY <1>1 DEF Undo
<1>4. draft' \in DraftRow /\ draft'.text = IF v.previous_text # r.loaded.text THEN v.previous_text ELSE draft.text
  BY <1>0, <1>2, <1>3, Stored
<1>5. mixed' \in BOOLEAN /\ (mixed => mixed')
  BY <1>0 DEF DraftInv
<1>6. CASE \A i \in DOMAIN revisions : revisions[i] # v
  <2>1. revisions' = revisions /\ v \notin ToSet(revisions)
    BY <1>1, <1>6 DEF Undo, ToSet
  <2>2. CASE draft'.text = draft.text
    BY <1>0, <1>4, <1>5, <2>1, <2>2, SameText
  <2>3. CASE draft'.text # draft.text
    <3>1. Late(r)
      BY <1>1, <1>4, <2>1, <2>3 DEF Late
    <3>2. mixed' = TRUE
      BY <1>0, <1>5, <3>1
    <3>. QED
      BY <1>0, <1>4, <2>1, <3>2, MixedKeeps DEF DraftInv
  <2>. QED
    BY <2>2, <2>3
<1>7. ASSUME \E i \in DOMAIN revisions : revisions[i] = v PROVE DraftInv'
  <2> PICK i : i = CHOOSE k \in DOMAIN revisions : revisions[k] \in r.undoes
    OBVIOUS
  <2>1. i \in DOMAIN revisions /\ revisions[i] = v /\ revisions' = RemoveAt(revisions, i)
    BY <1>1, <1>7 DEF Undo
  <2>2. revisions \in Seq(DraftRevisionRow) /\ Len(revisions) \in Nat /\ DOMAIN revisions = 1..Len(revisions)
    BY DEF DraftInv
  <2>3. /\ revisions' \in Seq(DraftRevisionRow) /\ Len(revisions') = Len(revisions) - 1
        /\ \A j \in 1..(i - 1) : revisions'[j] = revisions[j]
        /\ \A j \in i..(Len(revisions) - 1) : revisions'[j] = revisions[j + 1]
    <3> PICK x : x = RemoveAt(revisions, i)
      OBVIOUS
    <3>1. /\ x \in Seq(DraftRevisionRow) /\ Len(x) = Len(revisions) - 1
          /\ \A j \in 1..(i - 1) : x[j] = revisions[j]
          /\ \A j \in i..(Len(revisions) - 1) : x[j] = revisions[j + 1]
      BY <2>1, <2>2, Shortened
    <3>. QED
      BY <2>1, <3>1
  <2>4. DOMAIN revisions' = 1..(Len(revisions) - 1)
    BY <2>2, <2>3
  <2> DEFINE at(m) == IF m < i THEN m ELSE m + 1
  <2>5. ASSUME NEW j \in DOMAIN revisions' PROVE at(j) \in DOMAIN revisions /\ revisions'[j] = revisions[at(j)]
    <3>1. j \in 1..(Len(revisions) - 1) /\ i \in 1..Len(revisions)
      BY <2>1, <2>2, <2>4
    <3>2. CASE j < i
      <4>1. j \in 1..(i - 1) /\ j \in 1..Len(revisions)
        BY <2>2, <3>1, <3>2
      <4>. QED
        BY <2>2, <2>3, <3>2, <4>1
    <3>3. CASE ~(j < i)
      <4>1. j \in i..(Len(revisions) - 1) /\ j + 1 \in 1..Len(revisions)
        BY <2>2, <3>1, <3>3
      <4>. QED
        BY <2>2, <2>3, <3>3, <4>1
    <3>. QED
      BY <3>2, <3>3
  <2>6. \A j \in DOMAIN revisions' : \E k \in DOMAIN revisions : revisions'[j] = revisions[k]
    BY <2>5
  <2>7. ASSUME NEW j \in DOMAIN revisions', NEW k \in DOMAIN revisions', revisions'[j].id = revisions'[k].id PROVE j = k
    <3>1. at(j) = at(k)
      BY <2>5, <2>7 DEF DraftInv
    <3>2. j \in Nat /\ k \in Nat /\ i \in Nat
      BY <2>1, <2>2, <2>4
    <3>. QED
      BY <3>1, <3>2
  <2>8. CASE mixed'
    <3>1. mixed' = TRUE
      BY <1>5, <2>8
    <3>. QED
      BY <1>0, <1>4, <2>3, <2>6, <2>7, <3>1, MixedKeeps
  <2>9. CASE ~mixed'
    <3>1. ~mixed /\ r.met \cap Rewrites = {} /\ UndoFine(r)
      BY <1>0, <2>9 DEF DraftInv
    <3>2. i = Len(revisions) /\ draft.text = r.loaded.text
      BY <1>1, <2>1, <3>1 DEF UndoFine
    <3>3. draft'.text = v.previous_text
      BY <1>4, <3>2
    <3>4. ASSUME NEW j \in DOMAIN revisions'
          PROVE revisions'[j] = revisions[j] /\ j \in DOMAIN revisions /\ j # Len(revisions)
      <4> PICK l : l = Len(revisions)
        OBVIOUS
      <4>0. l \in Nat /\ j \in 1..(l - 1) /\ i = l
        BY <2>2, <2>4, <3>2
      <4>1. j \in 1..(i - 1) /\ j \in 1..l /\ j # l
        BY <4>0, Earlier
      <4>. QED
        BY <2>2, <2>3, <4>1
    <3>5. OriginalKept'
      <4>0. Head(revisions) = revisions[1] /\ Head(revisions).previous_text = Prepared
        BY <2>1, <2>2, <3>1 DEF DraftInv, OriginalKept, OldestText
      <4>1. CASE i = 1
        <5>1. revisions' = <<>>
          BY <2>2, <2>3, <3>2, <4>1
        <5>. QED
          BY <2>1, <3>3, <4>0, <4>1, <5>1 DEF OriginalKept, OldestText
      <4>2. CASE i # 1
        <5>1. 1 \in DOMAIN revisions' /\ revisions' # <<>>
          BY <2>1, <2>2, <2>4, <3>2, <4>2
        <5>2. Head(revisions') = revisions'[1]
          BY <2>3, <5>1
        <5>. QED
          BY <3>4, <4>0, <5>1, <5>2 DEF OriginalKept, OldestText
      <4>. QED
        BY <4>1, <4>2
    <3>6. ASSUME NEW o \in Writers, writing'[o] # NotWriting
          PROVE /\ writing'[o] \in WritingRow /\ writing'[o].by <= writes'
                /\ \A j \in DOMAIN revisions' : writing'[o].op \in Rewrites => revisions'[j].id # writing'[o].by
                /\ writing'[o].op = "undo" => \E u \in DraftRevisionRow : writing'[o].undoes = {u}
      <4>1. o # q /\ writing[o] # NotWriting
        BY <1>0, <3>6, WriteCloses
      <4>2. writing'[o] \in WritingRow /\ writing'[o].op = writing[o].op /\ writing'[o].by = writing[o].by
            /\ writing'[o].undoes = writing[o].undoes
        BY <1>0, <4>1, WriteCloses
      <4>. QED
        BY <1>0, <2>6, <4>1, <4>2 DEF DraftInv
    <3>7. \A p, o \in Writers : (p # o /\ writing'[p] # NotWriting /\ writing'[o] # NotWriting) => writing'[p].by # writing'[o].by
      BY <1>0, WriteCloses DEF DraftInv
    <3>8. \A j \in DOMAIN revisions' : revisions'[j].id <= writes'
      BY <1>0, <2>6 DEF DraftInv
    <3>9. ASSUME NEW o \in Writers, writing'[o] # NotWriting
          PROVE /\ writing'[o].op \in Rewrites => EditFine(writing[o])'
                /\ writing'[o].op = "undo" => UndoFine(writing[o])'
      <4>1. o # q /\ writing[o] # NotWriting
        BY <1>0, <3>9, WriteCloses
      <4>2. writing'[o].op = writing[o].op /\ writing'[o].undoes = writing[o].undoes
            /\ writing'[o].met = writing[o].met \cup {"undo"}
        BY <1>0, <4>1, WriteCloses
      <4>3. writing[o].op = "undo" => UndoFine(writing[o])
        BY <3>1, <4>1 DEF DraftInv
      <4>4. writing[o].op = "undo" => UndoFine(writing[o])'
        BY <3>4, <4>2, <4>3 DEF UndoFine
      <4>. QED
        BY <4>2, <4>4 DEF EditFine
    <3>. QED
      BY <1>0, <1>4, <1>5, <2>3, <2>7, <3>5, <3>6, <3>7, <3>8, <3>9, WriteCloses DEF DraftInv
  <2>. QED
    BY <2>8, <2>9
<1>. QED
  BY <1>6, <1>7

LEMMA SendKeeps == ASSUME DraftInv, NEW q \in Writers, SendDraft(q) \/ DiscardDraft(q) PROVE DraftInv'
<1> PICK r : r = writing[q]
  OBVIOUS
<1> PICK s \in DraftStatus : Store(r, r.loaded.text, s)
  BY DEF SendDraft, DiscardDraft, DraftStatus
<1>1. CloseWrite(q) /\ r \in WritingRow /\ r.loaded.text \in Texts /\ UNCHANGED <<revisions, mixed, writes>>
  BY DEF SendDraft, DiscardDraft, CloseWrite, DraftInv, WritingRow, DraftRow
<1>2. draft' \in DraftRow /\ draft'.text = draft.text
  BY <1>1, Stored
<1>. QED
  BY <1>1, <1>2, SameText DEF DraftInv

LEMMA DraftFailKeeps == ASSUME DraftInv, NEW q \in Writers, FailWrite(q) PROVE DraftInv'
<1>1. /\ UNCHANGED <<draft, revisions, mixed, writes>> /\ DOMAIN writing' = Writers
      /\ \A o \in Writers : writing'[o] # NotWriting => writing'[o] = writing[o]
  BY DEF FailWrite, DraftInv
<1>2. OriginalKept'
  BY <1>1 DEF DraftInv, OriginalKept, OldestText
<1>3. \A o \in Writers : writing'[o] # NotWriting =>
          /\ writing'[o] \in WritingRow /\ writing'[o].by <= writes'
          /\ \A i \in DOMAIN revisions' : writing'[o].op \in Rewrites => revisions'[i].id # writing'[o].by
          /\ writing'[o].op = "undo" => \E v \in DraftRevisionRow : writing'[o].undoes = {v}
  BY <1>1 DEF DraftInv
<1>4. \A p, o \in Writers : (p # o /\ writing'[p] # NotWriting /\ writing'[o] # NotWriting) => writing'[p].by # writing'[o].by
  BY <1>1 DEF DraftInv
<1>5. ASSUME ~mixed', NEW o \in Writers, writing'[o] # NotWriting
      PROVE /\ writing'[o].op \in Rewrites => EditFine(writing[o])'
            /\ writing'[o].op = "undo" => UndoFine(writing[o])'
  BY <1>1, <1>5 DEF DraftInv, EditFine, UndoFine
<1>. QED
  BY <1>1, <1>2, <1>3, <1>4, <1>5 DEF DraftInv

LEMMA DraftStepInv == DraftInv /\ DraftNext => DraftInv'
BY DraftOpenKeeps, EditKeeps, UndoKeeps, SendKeeps, DraftFailKeeps DEF DraftNext

--------------------------------------------------------------------------------
(* A person's word on their profile (AiProfile) *)

\* What was asked for, by request: an update is made of the profile that was read, a reset
\* takes no row that was rejected, a patch moves an onboarding that had not begun only.
UpdateFine(c) ==
    /\ c.base \in Nat /\ c.base <= content /\ c.old.revision \in Nat
    /\ c.base = content => c.old = profile
ResetFine(c) == \A o \in c.rows : c.before[o].state \in {"suggested", "confirmed"}
PatchFine(c) == c.status = "as is" \/ (c.new /\ c.status = "in_progress")

\* What a client was shown is not ahead of the profile, and is of its last change if it is of
\* its revision.
ShownTo(q) ==
    /\ sees[q].revision \in Nat /\ sees[q].revision <= profile.revision
    /\ (profile.revision # 0 /\ sees[q].revision = profile.revision) => sees[q].content = content

\* A key is suggested or decided in one row, and a rejected one has it.
KeysDecided ==
    /\ \A o, p \in Observations : (learned[o].state # "none" /\ learned[p].state # "none" /\ learned[o].key = learned[p].key) => o = p
    /\ \A k \in refused : \E o \in Observations : learned[o].state = "rejected" /\ learned[o].key = k
    /\ \A o \in Observations : learned[o].state = "suggested" => learned[o].key \notin refused

\* What a person has been shown and has said of a profile.
WordInv ==
    /\ DOMAIN calling = People /\ DOMAIN sees = People /\ content \in Nat /\ profile.revision \in Nat
    /\ profile = [revision |-> profile.revision, declared |-> profile.declared, withheld |-> profile.withheld]
    /\ \A q \in People : calling[q].op = "update" => UpdateFine(calling[q])
    /\ "update" \in overlapped \/ (~blindly /\ withdrawn \subseteq profile.withheld /\ \A q \in People : ShownTo(q))

\* What was learned of a person and decided on it.
LearnedInv ==
    /\ DOMAIN calling = People /\ learned \in [Observations -> [state : {"none", "suggested", "confirmed", "rejected"},
                                     key : DeclaredKey, expired : BOOLEAN]]
    /\ \A q \in People : calling[q].op = "reset" => ResetFine(calling[q])
    /\ \A q \in People : calling[q].op = "record" => calling[q].key \in DeclaredKey
    /\ "record" \in overlapped \/ KeysDecided

OnboardingInv ==
    /\ DOMAIN calling = People
    /\ \A q \in People : calling[q].op = "patch" => PatchFine(calling[q])
    /\ OnboardingStays

LEMMA WordInitInv == ProfileInit => WordInv /\ LearnedInv /\ OnboardingInv
<1> SUFFICES ASSUME ProfileInit PROVE WordInv /\ LearnedInv /\ OnboardingInv
  OBVIOUS
<1>1. /\ profile = [revision |-> 0, declared |-> {}, withheld |-> {}]
      /\ sees = [q \in People |-> [revision |-> 0, content |-> 0]] /\ content = 0
      /\ learned = [o \in Observations |-> NoObservation]
      /\ withdrawn = {} /\ refused = {} /\ finished = FALSE /\ blindly = FALSE
  BY DEF ProfileInit
<1>2. DOMAIN calling = People /\ \A q \in People : calling[q].op = "none"
  BY DEF ProfileInit, NoCalling
<1>3. \A q \in People : sees[q].revision = 0 /\ sees[q].content = 0
  BY <1>1
<1>4. DOMAIN sees = People /\ profile.revision = 0 /\ profile.withheld = {} /\ profile.declared = {}
  BY <1>1
<1>5. WordInv
  BY <1>1, <1>2, <1>3, <1>4 DEF WordInv, ShownTo
<1>6. LearnedInv
  <2>1. NoObservation \in [state : {"none", "suggested", "confirmed", "rejected"}, key : DeclaredKey, expired : BOOLEAN]
        /\ NoObservation.state = "none"
    BY DEF NoObservation, DeclaredKey
  <2>. QED
    BY <1>1, <1>2, <2>1 DEF LearnedInv, KeysDecided
<1>7. OnboardingInv
  BY <1>1, <1>2 DEF OnboardingInv, OnboardingStays
<1>. QED
  BY <1>5, <1>6, <1>7

LEMMA WordStutters == WordInv /\ UNCHANGED <<profile, sees, content, calling, withdrawn, blindly, overlapped>> => WordInv'
BY DEF WordInv, UpdateFine, ShownTo

LEMMA LearnedStutters == LearnedInv /\ UNCHANGED <<learned, calling, refused, overlapped>> => LearnedInv'
BY DEF LearnedInv, ResetFine, KeysDecided

LEMMA OnboardingStutters == OnboardingInv /\ UNCHANGED <<onboarding, finished, calling>> => OnboardingInv'
<1> SUFFICES ASSUME OnboardingInv, UNCHANGED <<onboarding, finished, calling>> PROVE OnboardingInv'
  OBVIOUS
<1>1. calling' = calling /\ OnboardingStays'
  BY DEF OnboardingInv, OnboardingStays
<1>2. \A q \in People : calling'[q].op = "patch" => PatchFine(calling[q])
  BY <1>1 DEF OnboardingInv
<1>. QED
  BY <1>1, <1>2 DEF OnboardingInv, PatchFine

\* What is shown of a profile is withheld by no category: the facet that shows it asks for
\* the word of the category it is of.
LEMMA ShownConsents ==
    ASSUME \A o \in Observations : learned[o].key \in DeclaredKey,
           NEW purpose \in Purposes, NEW item \in DeclaredKey \cup {"goals"}, item \in Projection(purpose)
    PROVE  CategoryOf(item) \notin profile.withheld
<1>1. CASE item = "goals"
  <2>1. item \in ShownGoals(purpose)
    BY <1>1 DEF Projection, Declared, Overlaid, Confirmed, Permitted, DeclaredKey
  <2>. QED
    BY <1>1, <2>1 DEF ShownGoals, Permitted, ConsentFor, CategoryOf
<1>2. CASE item = "timezone"
  <2>1. item \in Declared(purpose) \cup Overlaid(purpose)
    BY <1>2 DEF Projection, ShownGoals
  <2>. QED
    BY <1>2, <2>1 DEF Declared, Overlaid, Permitted, ConsentFor, CategoryOf
<1>3. CASE item \in {"tone", "format"}
  <2>1. item \in Declared(purpose) \cup Overlaid(purpose)
    BY <1>3 DEF Projection, ShownGoals
  <2>. QED
    BY <1>3, <2>1 DEF Declared, Overlaid, Permitted, ConsentFor, CategoryOf
<1>. QED
  BY <1>1, <1>2, <1>3 DEF DeclaredKey

LEMMA WordHolds == WordInv /\ LearnedInv => UpdatesFromNewest /\ WithdrawnStays
<1> SUFFICES ASSUME WordInv, LearnedInv PROVE UpdatesFromNewest /\ WithdrawnStays
  OBVIOUS
<1>1. \A o \in Observations : learned[o].key \in DeclaredKey
  BY DEF LearnedInv
<1>. QED
  BY <1>1, ShownConsents DEF WordInv, UpdatesFromNewest, WithdrawnStays

LEMMA LearnedHolds == LearnedInv => RejectedStays
BY DEF LearnedInv, KeysDecided, RejectedStays

\* A request opens or ends that is no update, and the profile is as it was.
LEMMA WordOthers ==
    ASSUME WordInv, NEW q \in People, NEW r, calling' = [calling EXCEPT ![q] = r], r.op = "update" => UpdateFine(r),
           UNCHANGED <<profile, sees, content, withdrawn>>, blindly' = blindly \/ "update" \in overlapped',
           "update" \in overlapped => "update" \in overlapped'
    PROVE  WordInv'
<1>1. DOMAIN calling' = People /\ calling'[q] = r /\ \A p \in People \ {q} : calling'[p] = calling[p]
  BY DEF WordInv
<1>2. \A p \in People : calling'[p].op = "update" => UpdateFine(calling'[p])
  BY <1>1 DEF WordInv
<1>. QED
  BY <1>1, <1>2 DEF WordInv, UpdateFine, ShownTo

\* Whoever updates a profile has been shown its last change, unless updates have crossed.
LEMMA WordBegins ==
    ASSUME WordInv, NEW q \in People, NEW declared, NEW no, NEW yes, BeginUpdate(q, declared, no, yes)
    PROVE  WordInv'
<1> PICK r : r = [op |-> "update", base |-> content, old |-> profile, declared |-> declared, no |-> no, yes |-> yes]
  OBVIOUS
<1>1. calling' = [calling EXCEPT ![q] = r] /\ UNCHANGED <<profile, sees, content, withdrawn, overlapped>>
      /\ blindly' = (blindly \/ (profile.revision # 0 /\ sees[q].content # content)) /\ Matches(q)
  BY DEF BeginUpdate
<1>2. UpdateFine(r)
  BY DEF UpdateFine, WordInv
<1>3. DOMAIN calling' = People /\ calling'[q] = r /\ \A p \in People \ {q} : calling'[p] = calling[p]
  BY <1>1 DEF WordInv
<1>4. \A p \in People : calling'[p].op = "update" => UpdateFine(calling'[p])
  BY <1>2, <1>3 DEF WordInv
<1>5. "update" \in overlapped \/ ~(profile.revision # 0 /\ sees[q].content # content)
  BY <1>1 DEF WordInv, ShownTo, Matches
<1>6. "update" \in overlapped \/ ~blindly'
  BY <1>1, <1>5 DEF WordInv
<1>. QED
  BY <1>1, <1>3, <1>4, <1>6 DEF WordInv, UpdateFine, ShownTo

LEMMA WordViewed == ASSUME WordInv, NEW q \in People, ViewProfile(q) PROVE WordInv'
<1> PICK v : v = [revision |-> profile.revision, content |-> content]
  OBVIOUS
<1>1. sees' = [sees EXCEPT ![q] = v] /\ UNCHANGED <<profile, calling, content, withdrawn, blindly, overlapped>>
      /\ v.revision = profile.revision /\ v.content = content
  BY DEF ViewProfile
<1>2. DOMAIN sees' = People /\ sees'[q] = v /\ \A p \in People \ {q} : sees'[p] = sees[p]
  BY <1>1 DEF WordInv
<1>3. ASSUME "update" \notin overlapped, NEW p \in People PROVE ShownTo(p)'
  <2>1. CASE p = q
    BY <1>1, <1>2, <2>1 DEF ShownTo, WordInv
  <2>2. CASE p # q
    BY <1>1, <1>2, <1>3, <2>2 DEF ShownTo, WordInv
  <2>. QED
    BY <2>1, <2>2
<1>. QED
  BY <1>1, <1>2, <1>3 DEF WordInv, UpdateFine

\* The profile gets a new content; requests that had read the one before are behind it.
LEMMA WordChanges ==
    ASSUME WordInv, NEW q \in People, content' = content + 1, DOMAIN calling' = People, DOMAIN sees' = People,
           \A p \in People \ {q} : calling'[p] = calling[p], calling'[q].op = "update" => calling'[q] = calling[q],
           NEW rev \in Nat, NEW D, NEW W, profile' = [revision |-> rev, declared |-> D, withheld |-> W],
           \/ "update" \in overlapped'
           \/ /\ ~blindly' /\ withdrawn' \subseteq profile'.withheld
              /\ \A p \in People : ShownTo(p)'
    PROVE  WordInv'
<1>1. ASSUME NEW p \in People, calling'[p].op = "update"
      PROVE  /\ calling'[p].base \in Nat /\ calling'[p].base <= content' /\ calling'[p].old.revision \in Nat
             /\ calling'[p].base # content'
  <2>1. calling'[p] = calling[p] /\ UpdateFine(calling[p]) /\ content \in Nat
    BY <1>1 DEF WordInv
  <2>2. calling[p].base \in Nat /\ calling[p].base <= content /\ calling[p].old.revision \in Nat
    BY <2>1 DEF UpdateFine
  <2>. QED
    BY <2>1, <2>2
<1>2. profile'.revision = rev /\ profile'.declared = D /\ profile'.withheld = W
  OBVIOUS
<1>. QED
  BY <1>1, <1>2 DEF WordInv, UpdateFine

LEMMA WordCommits == ASSUME WordInv, NEW q \in People, CommitUpdate(q) PROVE WordInv'
<1> PICK c : c = calling[q]
  OBVIOUS
<1> PICK w : w = IF c.no \cup c.yes = {} THEN profile.withheld ELSE Consent(c)
  OBVIOUS
<1> PICK rev : rev = c.old.revision + 1
  OBVIOUS
<1>1. /\ profile' = [revision |-> rev, declared |-> c.declared, withheld |-> w]
      /\ content' = content + 1 /\ sees' = [sees EXCEPT ![q] = [revision |-> rev, content |-> content + 1]]
      /\ withdrawn' = (withdrawn \ c.yes) \cup c.no
      /\ overlapped' = overlapped \cup (IF c.base # content THEN {"update"} ELSE {})
      /\ calling' = [calling EXCEPT ![q] = NoCalling] /\ blindly' = blindly /\ c.op = "update"
  BY DEF CommitUpdate
<1>2. UpdateFine(c)
  BY <1>1 DEF WordInv
<1>3. rev \in Nat
  BY <1>2 DEF UpdateFine
<1>4. DOMAIN calling' = People /\ calling'[q].op = "none" /\ \A p \in People \ {q} : calling'[p] = calling[p]
  BY <1>1 DEF WordInv, NoCalling
<1>5. DOMAIN sees' = People /\ sees'[q].revision = rev /\ sees'[q].content = content + 1
      /\ \A p \in People \ {q} : sees'[p] = sees[p]
  BY <1>1 DEF WordInv
<1>6. profile'.revision = rev /\ profile'.withheld = w
  BY <1>1
<1>7. ASSUME "update" \notin overlapped'
      PROVE  ~blindly' /\ withdrawn' \subseteq profile'.withheld /\ \A p \in People : ShownTo(p)'
  <2>1. "update" \notin overlapped /\ c.base = content /\ c.old = profile
    BY <1>1, <1>2, <1>7 DEF UpdateFine
  <2>2. ~blindly /\ withdrawn \subseteq profile.withheld /\ \A p \in People : ShownTo(p)
    BY <2>1 DEF WordInv
  <2>3. withdrawn' \subseteq w
    <3>1. CASE c.no \cup c.yes = {}
      BY <1>1, <2>2, <3>1
    <3>2. CASE c.no \cup c.yes # {}
      <4>1. w = (profile.withheld \ c.yes) \cup c.no
        BY <2>1, <3>2 DEF Consent
      <4>. QED
        BY <1>1, <2>2, <4>1
    <3>. QED
      BY <3>1, <3>2
  <2>4. \A p \in People : ShownTo(p)'
    <3> SUFFICES ASSUME NEW p \in People PROVE ShownTo(p)'
      OBVIOUS
    <3>1. CASE p = q
      BY <1>1, <1>3, <1>5, <1>6, <3>1 DEF ShownTo
    <3>2. CASE p # q
      <4>1. sees'[p] = sees[p] /\ sees[p].revision \in Nat /\ sees[p].revision <= profile.revision
        BY <1>5, <2>2, <3>2 DEF ShownTo
      <4>2. rev = profile.revision + 1 /\ profile.revision \in Nat
        BY <2>1 DEF WordInv
      <4>3. sees[p].revision < rev
        BY <4>1, <4>2
      <4>. QED
        BY <1>3, <1>6, <4>1, <4>3 DEF ShownTo
    <3>. QED
      BY <3>1, <3>2
  <2>. QED
    BY <1>1, <1>6, <2>2, <2>3, <2>4
<1>. QED
  BY <1>1, <1>3, <1>4, <1>5, <1>7, WordChanges

LEMMA WordImports == ASSUME WordInv, NEW q \in People, ImportLegacy(q) PROVE WordInv'
<1> PICK rev : rev = IF profile.revision = 0 THEN 1 ELSE profile.revision
  OBVIOUS
<1> PICK D : D = profile.declared \cup {"timezone"}
  OBVIOUS
<1> PICK W : W = profile.withheld
  OBVIOUS
<1>1. profile' = [profile EXCEPT !.declared = D, !.revision = rev] /\ content' = content + 1
      /\ calling' = calling /\ "update" \in overlapped' /\ DOMAIN sees' = DOMAIN sees
  BY DEF ImportLegacy
<1>2. profile' = [revision |-> rev, declared |-> D, withheld |-> W]
  <2>1. profile = [revision |-> profile.revision, declared |-> profile.declared, withheld |-> W]
    BY DEF WordInv
  <2>. QED
    BY <1>1, <2>1
<1>3. rev \in Nat /\ DOMAIN sees' = People /\ DOMAIN calling' = People
  BY <1>1 DEF WordInv
<1>. QED
  BY <1>1, <1>2, <1>3, WordChanges

\* A request that opens or ends, and is about nothing learned.
LEMMA LearnedOthers ==
    ASSUME LearnedInv, NEW q \in People, NEW r, calling' = [calling EXCEPT ![q] = r],
           r.op \notin {"reset", "record"} \/ (r.op = "reset" /\ ResetFine(r)) \/ (r.op = "record" /\ r.key \in DeclaredKey),
           learned' = learned, refused' = refused, "record" \in overlapped => "record" \in overlapped'
    PROVE  LearnedInv'
<1>1. DOMAIN calling' = People /\ calling'[q] = r /\ \A p \in People \ {q} : calling'[p] = calling[p]
  BY DEF LearnedInv
<1>2. \A p \in People : /\ calling'[p].op = "reset" => ResetFine(calling'[p])
                        /\ calling'[p].op = "record" => calling'[p].key \in DeclaredKey
  BY <1>1 DEF LearnedInv
<1>. QED
  BY <1>1, <1>2 DEF LearnedInv, ResetFine, KeysDecided

LEMMA LearnedRecords == ASSUME LearnedInv, NEW q \in People, CommitRecord(q) PROVE LearnedInv'
<1> PICK k : k = calling[q].key
  OBVIOUS
<1>1. PICK o \in Observations : learned[o].state = "none"
         /\ learned' = [learned EXCEPT ![o] = [state |-> "suggested", key |-> k, expired |-> FALSE]]
  BY DEF CommitRecord
<1>2. /\ overlapped' = overlapped \cup (IF Known(k) THEN {"record"} ELSE {})
      /\ calling' = [calling EXCEPT ![q] = NoCalling] /\ refused' = refused /\ calling[q].op = "record"
  BY DEF CommitRecord
<1> PICK n : n = [state |-> "suggested", key |-> k, expired |-> FALSE]
  OBVIOUS
<1>3. k \in DeclaredKey
  BY <1>2 DEF LearnedInv
<1>4. n \in [state : {"none", "suggested", "confirmed", "rejected"}, key : DeclaredKey, expired : BOOLEAN]
      /\ n.state = "suggested" /\ n.key = k
  BY <1>3
<1>5. learned'[o] = n /\ (\A p \in Observations \ {o} : learned'[p] = learned[p])
      /\ learned' \in [Observations -> [state : {"none", "suggested", "confirmed", "rejected"}, key : DeclaredKey, expired : BOOLEAN]]
  BY <1>1, <1>4 DEF LearnedInv
<1>6. DOMAIN calling' = People /\ calling'[q].op = "none" /\ \A p \in People \ {q} : calling'[p] = calling[p]
  BY <1>2 DEF LearnedInv, NoCalling
<1>7. \A p \in People : /\ calling'[p].op = "reset" => ResetFine(calling'[p])
                        /\ calling'[p].op = "record" => calling'[p].key \in DeclaredKey
  BY <1>6 DEF LearnedInv
<1>8. ASSUME "record" \notin overlapped' PROVE KeysDecided'
  <2>1. KeysDecided /\ ~Known(k)
    BY <1>2, <1>8 DEF LearnedInv
  <2>2. \A p \in Observations : learned[p].state # "none" => learned[p].key # k
    BY <2>1 DEF Known
  <2>3. k \notin refused
    BY <2>1, <2>2 DEF KeysDecided
  <2>4. \A k2 \in refused : \E p \in Observations : learned'[p].state = "rejected" /\ learned'[p].key = k2
    <3> SUFFICES ASSUME NEW k2 \in refused PROVE \E p \in Observations : learned'[p].state = "rejected" /\ learned'[p].key = k2
      OBVIOUS
    <3>1. PICK p \in Observations : learned[p].state = "rejected" /\ learned[p].key = k2
      BY <2>1 DEF KeysDecided
    <3>. QED
      BY <1>1, <1>5, <3>1
  <2>5. \A p, s \in Observations : (learned'[p].state # "none" /\ learned'[s].state # "none" /\ learned'[p].key = learned'[s].key) => p = s
    BY <1>4, <1>5, <2>1, <2>2 DEF KeysDecided
  <2>6. \A p \in Observations : learned'[p].state = "suggested" => learned'[p].key \notin refused
    BY <1>4, <1>5, <2>1, <2>3 DEF KeysDecided
  <2>. QED
    BY <1>2, <2>4, <2>5, <2>6 DEF KeysDecided
<1>. QED
  BY <1>5, <1>6, <1>7, <1>8 DEF LearnedInv, ResetFine

LEMMA LearnedDecided ==
    ASSUME LearnedInv, NEW o \in Observations, NEW state \in {"confirmed", "rejected"}, DecideObservation(o, state)
    PROVE  LearnedInv'
<1> PICK n : n = [learned[o] EXCEPT !.state = state]
  OBVIOUS
<1> PICK k : k = learned[o].key
  OBVIOUS
<1>1. /\ learned' = [learned EXCEPT ![o] = n] /\ learned[o].state # "none" /\ UNCHANGED <<calling, overlapped>>
      /\ refused' = IF state = "rejected" THEN refused \cup {k} ELSE refused \ {k}
  BY DEF DecideObservation
<1>2. n \in [state : {"none", "suggested", "confirmed", "rejected"}, key : DeclaredKey, expired : BOOLEAN]
      /\ n.state = state /\ n.key = k
  BY DEF LearnedInv
<1>3. learned'[o] = n /\ (\A p \in Observations \ {o} : learned'[p] = learned[p])
      /\ learned' \in [Observations -> [state : {"none", "suggested", "confirmed", "rejected"}, key : DeclaredKey, expired : BOOLEAN]]
  BY <1>1, <1>2 DEF LearnedInv
<1>4. ASSUME "record" \notin overlapped PROVE KeysDecided'
  <2>1. KeysDecided
    BY <1>4 DEF LearnedInv
  <2>2. \A p \in Observations \ {o} : learned[p].state # "none" => learned[p].key # k
    BY <1>1, <2>1 DEF KeysDecided
  <2>3. \A p, s \in Observations : (learned'[p].state # "none" /\ learned'[s].state # "none" /\ learned'[p].key = learned'[s].key) => p = s
    BY <1>1, <1>2, <1>3, <2>1 DEF KeysDecided
  <2>4. \A j \in refused' : \E p \in Observations : learned'[p].state = "rejected" /\ learned'[p].key = j
    <3> SUFFICES ASSUME NEW j \in refused' PROVE \E p \in Observations : learned'[p].state = "rejected" /\ learned'[p].key = j
      OBVIOUS
    <3>1. CASE j = k
      BY <1>1, <1>2, <1>3, <3>1
    <3>2. CASE j # k
      <4>1. PICK p \in Observations : learned[p].state = "rejected" /\ learned[p].key = j
        BY <1>1, <2>1, <3>2 DEF KeysDecided
      <4>. QED
        BY <1>3, <3>2, <4>1
    <3>. QED
      BY <3>1, <3>2
  <2>5. \A p \in Observations : learned'[p].state = "suggested" => learned'[p].key \notin refused'
    BY <1>1, <1>2, <1>3, <2>1, <2>2 DEF KeysDecided
  <2>. QED
    BY <2>3, <2>4, <2>5 DEF KeysDecided
<1>. QED
  BY <1>1, <1>3, <1>4 DEF LearnedInv, ResetFine

LEMMA LearnedExpires == ASSUME LearnedInv, NEW o \in Observations, Expire(o) PROVE LearnedInv'
<1> PICK n : n = [learned[o] EXCEPT !.expired = TRUE]
  OBVIOUS
<1>1. learned' = [learned EXCEPT ![o] = n] /\ UNCHANGED <<calling, overlapped, refused>>
  BY DEF Expire
<1>2. n \in [state : {"none", "suggested", "confirmed", "rejected"}, key : DeclaredKey, expired : BOOLEAN]
      /\ n.state = learned[o].state /\ n.key = learned[o].key
  BY DEF LearnedInv
<1>3. (\A p \in Observations : learned'[p].state = learned[p].state /\ learned'[p].key = learned[p].key)
      /\ learned' \in [Observations -> [state : {"none", "suggested", "confirmed", "rejected"}, key : DeclaredKey, expired : BOOLEAN]]
  BY <1>1, <1>2 DEF LearnedInv
<1>. QED
  BY <1>1, <1>3 DEF LearnedInv, ResetFine, KeysDecided

\* A reset takes only rows that are as it has read them, or is named as crossed.
LEMMA LearnedResets == ASSUME LearnedInv, NEW q \in People, CommitReset(q) PROVE LearnedInv'
<1> PICK c : c = calling[q]
  OBVIOUS
<1>1. /\ learned' = [o \in Observations |-> IF o \in c.rows THEN NoObservation ELSE learned[o]]
      /\ overlapped' = overlapped \cup (IF \E o \in c.rows : learned[o].state # c.before[o].state THEN {"record"} ELSE {})
      /\ calling' = [calling EXCEPT ![q] = NoCalling] /\ refused' = refused /\ c.op = "reset"
  BY DEF CommitReset
<1>2. NoObservation \in [state : {"none", "suggested", "confirmed", "rejected"}, key : DeclaredKey, expired : BOOLEAN]
      /\ NoObservation.state = "none"
  BY DEF NoObservation, DeclaredKey
<1>3. (\A o \in Observations : learned'[o] = IF o \in c.rows THEN NoObservation ELSE learned[o])
      /\ learned' \in [Observations -> [state : {"none", "suggested", "confirmed", "rejected"}, key : DeclaredKey, expired : BOOLEAN]]
  BY <1>1, <1>2 DEF LearnedInv
<1>4. DOMAIN calling' = People /\ calling'[q].op = "none" /\ \A p \in People \ {q} : calling'[p] = calling[p]
  BY <1>1 DEF LearnedInv, NoCalling
<1>5. \A p \in People : /\ calling'[p].op = "reset" => ResetFine(calling'[p])
                        /\ calling'[p].op = "record" => calling'[p].key \in DeclaredKey
  BY <1>4 DEF LearnedInv
<1>6. ASSUME "record" \notin overlapped' PROVE KeysDecided'
  <2>1. KeysDecided /\ \A o \in c.rows : learned[o].state = c.before[o].state
    BY <1>1, <1>6 DEF LearnedInv
  <2>2. \A o \in c.rows : c.before[o].state \in {"suggested", "confirmed"}
    BY <1>1 DEF LearnedInv, ResetFine
  <2>3. \A o \in Observations : learned[o].state = "rejected" => learned'[o] = learned[o]
    BY <1>3, <2>1, <2>2
  <2>4. \A k \in refused : \E o \in Observations : learned'[o].state = "rejected" /\ learned'[o].key = k
    BY <2>1, <2>3 DEF KeysDecided
  <2>5. \A o \in Observations : learned'[o].state # "none" => learned'[o] = learned[o]
    BY <1>2, <1>3
  <2>. QED
    BY <1>1, <2>1, <2>4, <2>5 DEF KeysDecided
<1>. QED
  BY <1>3, <1>4, <1>5, <1>6 DEF LearnedInv, ResetFine

\* A request that opens or ends leaves the onboarding.
LEMMA OnboardingOthers ==
    ASSUME OnboardingInv, NEW q \in People, NEW r, calling' = [calling EXCEPT ![q] = r], r.op = "patch" => PatchFine(r),
           UNCHANGED <<onboarding, finished>>
    PROVE  OnboardingInv'
<1>1. DOMAIN calling' = People /\ calling'[q] = r /\ \A p \in People \ {q} : calling'[p] = calling[p]
  BY DEF OnboardingInv
<1>. QED
  BY <1>1 DEF OnboardingInv, PatchFine, OnboardingStays

LEMMA OnboardingPatched == ASSUME OnboardingInv, NEW q \in People, CommitPatch(q) PROVE OnboardingInv'
<1> PICK c : c = calling[q]
  OBVIOUS
<1>1. /\ onboarding' = (IF (c.new /\ onboarding # "none") \/ c.status = "as is" THEN onboarding ELSE c.status)
      /\ calling' = [calling EXCEPT ![q] = NoCalling] /\ finished' = finished /\ PatchFine(c)
  BY DEF CommitPatch, OnboardingInv
<1>2. OnboardingStays'
  BY <1>1 DEF PatchFine, OnboardingStays, OnboardingInv
<1>3. DOMAIN calling' = People /\ calling'[q].op = "none" /\ \A p \in People \ {q} : calling'[p] = calling[p]
  BY <1>1 DEF OnboardingInv, NoCalling
<1>. QED
  BY <1>2, <1>3 DEF OnboardingInv, PatchFine

\* What a request asks for when it begins.
Begun(q, r) ==
    /\ calling' = [calling EXCEPT ![q] = r] /\ r.op # "update"
    /\ r.op \notin {"reset", "record"} \/ (r.op = "reset" /\ ResetFine(r)) \/ (r.op = "record" /\ r.key \in DeclaredKey)
    /\ r.op = "patch" => PatchFine(r)
    /\ UNCHANGED <<profile, sees, content, withdrawn, blindly, overlapped, learned, refused, onboarding, finished>>

LEMMA BeginsFine ==
    ASSUME NEW q \in People, BeginGoal(q) \/ BeginRecord(q, "tone") \/ BeginReset(q) \/ BeginPatch(q)
    PROVE  \E r : Begun(q, r)
<1>1. CASE BeginGoal(q)
  <2> PICK r : r = [op |-> "goal", status |-> GoalStatus, base |-> goals.active]
    OBVIOUS
  <2>1. Begun(q, r)
    BY <1>1 DEF BeginGoal, Begun
  <2>. QED
    BY <2>1
<1>2. CASE BeginRecord(q, "tone")
  <2> PICK r : r = [op |-> "record", key |-> "tone"]
    OBVIOUS
  <2>1. Begun(q, r)
    BY <1>2 DEF BeginRecord, DeclaredKey, Begun
  <2>. QED
    BY <2>1
<1>3. CASE BeginReset(q)
  <2> PICK r : r = [op |-> "reset", rows |-> Forgotten, before |-> learned]
    OBVIOUS
  <2>1. ResetFine(r) /\ r.op = "reset"
    BY DEF ResetFine, Forgotten
  <2>2. Begun(q, r)
    BY <1>3, <2>1 DEF BeginReset, Begun
  <2>. QED
    BY <2>2
<1>4. CASE BeginPatch(q)
  <2> PICK b : b = (onboarding = "none")
    OBVIOUS
  <2> PICK r : r = [op |-> "patch", new |-> b, status |-> Patched(onboarding)]
    OBVIOUS
  <2>1. r.op = "patch" /\ PatchFine(r)
    BY DEF PatchFine, Patched
  <2>2. calling' = [calling EXCEPT ![q] = r]
    BY <1>4, Zenon DEF BeginPatch
  <2>3. UNCHANGED <<profile, sees, content, withdrawn, blindly, overlapped, learned, refused, onboarding, finished>>
    BY <1>4 DEF BeginPatch
  <2>4. Begun(q, r)
    BY <2>1, <2>2, <2>3 DEF Begun
  <2>. QED
    BY <2>4
<1>. QED
  BY <1>1, <1>2, <1>3, <1>4

LEMMA WordStepInv ==
    WordInv /\ LearnedInv /\ OnboardingInv /\ ProfileNext => WordInv' /\ LearnedInv' /\ OnboardingInv'
<1> SUFFICES ASSUME WordInv, LearnedInv, OnboardingInv, ProfileNext PROVE WordInv' /\ LearnedInv' /\ OnboardingInv'
  OBVIOUS
<1>0. NoCalling.op = "none"
  BY DEF NoCalling
<1>1. ASSUME NEW q \in People, BeginGoal(q) \/ BeginRecord(q, "tone") \/ BeginReset(q) \/ BeginPatch(q)
      PROVE WordInv' /\ LearnedInv' /\ OnboardingInv'
  <2>1. PICK r : Begun(q, r)
    BY <1>1, BeginsFine
  <2>2. /\ calling' = [calling EXCEPT ![q] = r] /\ r.op # "update"
        /\ r.op \notin {"reset", "record"} \/ (r.op = "reset" /\ ResetFine(r)) \/ (r.op = "record" /\ r.key \in DeclaredKey)
        /\ r.op = "patch" => PatchFine(r)
        /\ UNCHANGED <<profile, sees, content, withdrawn, blindly, overlapped, learned, refused, onboarding, finished>>
    BY <2>1 DEF Begun
  <2>. QED
    BY <2>2, WordOthers, LearnedOthers, OnboardingOthers
<1>2. ASSUME NEW q \in People, InsertRefused(q) \/ CommitGoal(q)
      PROVE WordInv' /\ LearnedInv' /\ OnboardingInv'
  <2>1. /\ calling' = [calling EXCEPT ![q] = NoCalling]
        /\ UNCHANGED <<profile, sees, content, withdrawn, blindly, learned, refused, onboarding, finished>>
        /\ overlapped \subseteq overlapped'
    BY <1>2 DEF InsertRefused, CommitGoal
  <2>. QED
    BY <1>0, <2>1, WordOthers, LearnedOthers, OnboardingOthers
<1>3. ASSUME NEW q \in People, \E status \in {"active", "other"} : UpdateGoal(q, status) \/ DeleteGoal(q)
      PROVE WordInv' /\ LearnedInv' /\ OnboardingInv'
  <2>1. UNCHANGED <<profile, sees, content, calling, withdrawn, blindly, overlapped, learned, refused, onboarding, finished>>
    BY <1>3 DEF UpdateGoal, DeleteGoal
  <2>. QED
    BY <2>1, WordStutters, LearnedStutters, OnboardingStutters
<1>4. ASSUME NEW q \in People, NEW declared, NEW no, NEW yes, BeginUpdate(q, declared, no, yes)
      PROVE WordInv' /\ LearnedInv' /\ OnboardingInv'
  <2>1. PICK r : r = [op |-> "update", base |-> content, old |-> profile, declared |-> declared, no |-> no, yes |-> yes]
    OBVIOUS
  <2>2. calling' = [calling EXCEPT ![q] = r] /\ UNCHANGED <<overlapped, learned, refused, onboarding, finished>>
    BY <1>4, <2>1 DEF BeginUpdate
  <2>. QED
    BY <1>4, <2>1, <2>2, WordBegins, LearnedOthers, OnboardingOthers
<1>5. ASSUME NEW q \in People, CommitUpdate(q) PROVE WordInv' /\ LearnedInv' /\ OnboardingInv'
  <2>1. calling' = [calling EXCEPT ![q] = NoCalling] /\ UNCHANGED <<learned, refused, onboarding, finished>>
        /\ overlapped \subseteq overlapped'
    BY <1>5 DEF CommitUpdate
  <2>. QED
    BY <1>0, <1>5, <2>1, WordCommits, LearnedOthers, OnboardingOthers
<1>6. ASSUME NEW q \in People, ImportLegacy(q) \/ ViewProfile(q) PROVE WordInv' /\ LearnedInv' /\ OnboardingInv'
  <2>1. UNCHANGED <<calling, learned, refused, onboarding, finished>> /\ ("record" \in overlapped <=> "record" \in overlapped')
    BY <1>6 DEF ImportLegacy, ViewProfile
  <2>2. LearnedInv'
    BY <2>1 DEF LearnedInv, ResetFine, KeysDecided
  <2>. QED
    BY <1>6, <2>1, <2>2, WordImports, WordViewed, OnboardingStutters
<1>7. ASSUME NEW q \in People, CommitRecord(q) \/ CommitReset(q) PROVE WordInv' /\ LearnedInv' /\ OnboardingInv'
  <2>1. /\ calling' = [calling EXCEPT ![q] = NoCalling]
        /\ UNCHANGED <<profile, sees, content, withdrawn, blindly, onboarding, finished>>
        /\ overlapped \subseteq overlapped'
    BY <1>7 DEF CommitRecord, CommitReset
  <2>. QED
    BY <1>0, <1>7, <2>1, WordOthers, LearnedRecords, LearnedResets, OnboardingOthers
<1>8. ASSUME NEW q \in People, CommitPatch(q) PROVE WordInv' /\ LearnedInv' /\ OnboardingInv'
  <2>1. /\ calling' = [calling EXCEPT ![q] = NoCalling]
        /\ UNCHANGED <<profile, sees, content, withdrawn, blindly, overlapped, learned, refused>>
    BY <1>8 DEF CommitPatch
  <2>. QED
    BY <1>0, <1>8, <2>1, WordOthers, LearnedOthers, OnboardingPatched
<1>9. ASSUME NEW q \in People, CompleteOnboarding(q) PROVE WordInv' /\ LearnedInv' /\ OnboardingInv'
  <2>1. /\ onboarding' = "completed" /\ finished' = TRUE
        /\ UNCHANGED <<profile, sees, content, calling, withdrawn, blindly, overlapped, learned, refused>>
    BY <1>9 DEF CompleteOnboarding
  <2>2. OnboardingInv'
    BY <2>1 DEF OnboardingInv, PatchFine, OnboardingStays
  <2>. QED
    BY <2>1, <2>2, WordStutters, LearnedStutters
<1>10. ASSUME NEW o \in Observations, Expire(o) \/ DecideObservation(o, "confirmed") \/ DecideObservation(o, "rejected")
       PROVE WordInv' /\ LearnedInv' /\ OnboardingInv'
  <2>1. UNCHANGED <<profile, sees, content, calling, withdrawn, blindly, overlapped, onboarding, finished>>
    BY <1>10 DEF Expire, DecideObservation
  <2>. QED
    BY <1>10, <2>1, WordStutters, LearnedExpires, LearnedDecided, OnboardingStutters
<1>. QED
  BY <1>1, <1>2, <1>3, <1>4, <1>5, <1>6, <1>7, <1>8, <1>9, <1>10 DEF ProfileNext

--------------------------------------------------------------------------------
(* Whose face an agent has, and what is noted of it (AgentPortraits) *)

Busy(q) == viewing[q] # NoViewing /\ viewing[q].step # "next"

\* Two requests fetch at once only what is torn, so what is about to be noted of a copy is
\* what was written; and every picture that is kept or fetched is the agent's own.
FaceInv ==
    /\ \A q, o \in Viewers :
          (q # o /\ Busy(q) /\ Busy(o) /\ viewing[q].agent = viewing[o].agent) => viewing[q].agent \in torn
    /\ \A q \in Viewers : ViewAt(q, "meta") =>
          /\ viewing[q].got.of = viewing[q].agent
          /\ viewing[q].agent \notin torn => onDisk[viewing[q].agent].img = viewing[q].got
    /\ \A a \in Faces : onDisk[a].img.of \in {a, NoRef}
    /\ OwnFace /\ CopyAgrees

LEMMA FaceInitInv == PortraitInit => FaceInv
BY DEF PortraitInit, FaceInv, Busy, ViewAt, OwnFace, CopyAgrees, NoCopy, NoPicture

LEMMA FaceStutters == FaceInv /\ UNCHANGED portraitVars => FaceInv'
BY DEF FaceInv, Busy, ViewAt, OwnFace, CopyAgrees, portraitVars

LEMMA FaceHolds == FaceInv => OwnFace /\ CopyAgrees
BY DEF FaceInv

\* What is shown of an agent from its copy is its own.
LEMMA SavedOwn == ASSUME FaceInv, NEW a \in Faces, ShowSaved(a) PROVE OwnFace'
<1>1. LastCopy(a).of \in {a, NoRef}
  BY DEF LastCopy, StoreKey, FaceInv, NoPicture
<1>2. shown' = [agent |-> a, picture |-> LastCopy(a)]
  BY DEF ShowSaved, Show
<1>. QED
  BY <1>1, <1>2 DEF OwnFace

\* A request begins to fetch: the agent is torn if another one is fetching it.
LEMMA FetchFace ==
    ASSUME PortraitInv, FaceInv, NEW q \in Viewers, NEW op, NEW a \in Faces, NEW known, NEW rest, StartFetch(q, op, a, known, rest),
           ~ViewAt(q, "meta"), UNCHANGED <<onDisk, shown>>
    PROVE  FaceInv'
<1> PICK v : v = [op |-> op, agent |-> a, refs |-> RefsToAsk(known),
                  asked |-> RefsToAsk(known), step |-> "ask", got |-> NoPicture,
                  rows |-> rest.rows, changed |-> rest.changed, todo |-> rest.todo]
  OBVIOUS
<1>1. viewing' = [viewing EXCEPT ![q] = v] /\ torn' = IF Fetching(q, a) THEN torn \cup {a} ELSE torn
  BY DEF StartFetch
<1>2. v.agent = a /\ v.step = "ask" /\ v # NoViewing
  BY DEF NoViewing
<1>3. viewing'[q] = v /\ \A o \in Viewers \ {q} : viewing'[o] = viewing[o]
  BY <1>1 DEF PortraitInv
<1>4. torn \subseteq torn' /\ \A o \in Viewers \ {q} : (Busy(o) /\ viewing[o].agent = a) => a \in torn'
  BY <1>1 DEF Fetching, Busy
<1>. HIDE <1>1
<1>5. ASSUME NEW x \in Viewers, NEW o \in Viewers, x # o, Busy(x)', Busy(o)', viewing'[x].agent = viewing'[o].agent
      PROVE  viewing'[x].agent \in torn'
  <2>1. CASE x = q
    BY <1>5, <1>2, <1>3, <1>4, <2>1 DEF Busy
  <2>2. CASE o = q
    BY <1>5, <1>2, <1>3, <1>4, <2>2 DEF Busy
  <2>3. CASE x # q /\ o # q
    BY <1>5, <1>3, <1>4, <2>3 DEF Busy, FaceInv
  <2>. QED
    BY <2>1, <2>2, <2>3
<1>6. \A o \in Viewers : ViewAt(o, "meta")' => ViewAt(o, "meta") /\ viewing'[o] = viewing[o]
  BY <1>2, <1>3 DEF ViewAt
<1>7. \A o \in Viewers : ViewAt(o, "meta") => ViewAt(o, "meta")' /\ viewing'[o] = viewing[o]
  BY <1>3 DEF ViewAt
<1>8. CopyAgrees'
  BY <1>4, <1>7 DEF FaceInv, CopyAgrees
<1>. QED
  BY <1>4, <1>5, <1>6, <1>8 DEF FaceInv, OwnFace

\* A request's fetch is over: it is no longer busy, and what it shows is the agent's own.
LEMMA FaceDone ==
    ASSUME PortraitInv, FaceInv, NEW q \in Viewers, viewing[q] # NoViewing, NEW p, p.of \in {viewing[q].agent, NoRef}, FetchDone(q, p)
    PROVE  /\ OwnFace' /\ ~Busy(q)' /\ \A o \in Viewers \ {q} : viewing'[o] = viewing[o]
<1>1. CASE viewing[q].op = "prefetch"
  <2>1. viewing' = [viewing EXCEPT ![q].step = "next"] /\ UNCHANGED shown
    BY <1>1 DEF FetchDone
  <2>2. PICK v : v = [viewing[q] EXCEPT !.step = "next"]
    OBVIOUS
  <2>3. v.step = "next"
    BY <2>2 DEF PortraitInv, ViewFields
  <2>4. viewing'[q] = v /\ \A o \in Viewers \ {q} : viewing'[o] = viewing[o]
    BY <2>1, <2>2 DEF PortraitInv
  <2>. QED
    BY <2>1, <2>3, <2>4 DEF Busy, FaceInv, OwnFace
<1>2. CASE viewing[q].op # "prefetch"
  <2>1. viewing' = [viewing EXCEPT ![q] = NoViewing] /\ (ShowSaved(viewing[q].agent) \/ Show(viewing[q].agent, p, "live"))
    BY <1>2 DEF FetchDone, ViewOver
  <2>2. OwnFace'
    <3>1. viewing[q].agent \in Faces
      BY DEF PortraitInv
    <3>2. CASE ShowSaved(viewing[q].agent)
      BY <3>1, <3>2, SavedOwn
    <3>3. CASE Show(viewing[q].agent, p, "live")
      BY <3>3 DEF Show, OwnFace
    <3>. QED
      BY <2>1, <3>2, <3>3
  <2>. QED
    BY <2>1, <2>2 DEF PortraitInv, Busy
<1>. QED
  BY <1>1, <1>2

\* A step after which requests are as they were, or one is not busy any more.
LEMMA FaceEases ==
    ASSUME PortraitInv, FaceInv, NEW q \in Viewers, ~Busy(q)', \A o \in Viewers \ {q} : viewing'[o] = viewing[o],
           torn' = torn, OwnFace',
           \A a \in Faces : onDisk'[a].img = onDisk[a].img,
           CopyAgrees'
    PROVE  FaceInv'
<1>1. ASSUME NEW x \in Viewers, NEW o \in Viewers, x # o, Busy(x)', Busy(o)', viewing'[x].agent = viewing'[o].agent
      PROVE  viewing'[x].agent \in torn'
  BY <1>1 DEF Busy, FaceInv
<1>2. \A o \in Viewers : ViewAt(o, "meta")' => ViewAt(o, "meta") /\ viewing'[o] = viewing[o] /\ viewing[o].agent \in Faces
  BY DEF ViewAt, Busy, PortraitInv
<1>3. \A o \in Viewers : ViewAt(o, "meta")' =>
          /\ viewing'[o].got.of = viewing'[o].agent
          /\ viewing'[o].agent \notin torn' => onDisk'[viewing'[o].agent].img = viewing'[o].got
  BY <1>2 DEF FaceInv
<1>. QED
  BY <1>1, <1>3 DEF FaceInv

\* Nothing was being noted by a request that ends otherwise.
LEMMA CopyAgreesStill ==
    ASSUME FaceInv, NEW q \in Viewers, ~ViewAt(q, "meta"), \A o \in Viewers \ {q} : viewing'[o] = viewing[o],
           UNCHANGED <<onDisk, torn>>
    PROVE  CopyAgrees'
<1>1. \A o \in Viewers : ViewAt(o, "meta") => ViewAt(o, "meta")' /\ viewing'[o].agent = viewing[o].agent
  BY DEF ViewAt
<1>. QED
  BY <1>1 DEF FaceInv, CopyAgrees

LEMMA FaceAsks == ASSUME PortraitInv, FaceInv, NEW q \in Viewers, NEW a \in Faces, AskPortrait(q, a) PROVE FaceInv'
<1> DEFINE rest == [rows |-> faceLinks, changed |-> {}, todo |-> {}]
<1>0. viewing[q] = NoViewing /\ ~ViewAt(q, "meta") /\ onDisk' = onDisk
  BY DEF AskPortrait, ViewAt
<1>1. CASE HasClient(a) /\ RefsToAsk(faceLinks[a]) # <<>> /\ ~faceLinks[a].embedded
  <2>1. StartFetch(q, "page", a, faceLinks[a], rest) /\ UNCHANGED <<shown, onDisk>>
    BY <1>1 DEF AskPortrait
  <2>. HIDE DEF rest
  <2>. QED
    BY <1>0, <2>1, FetchFace
<1>2. CASE ~(HasClient(a) /\ RefsToAsk(faceLinks[a]) # <<>> /\ ~faceLinks[a].embedded)
  <2>1. UNCHANGED <<viewing, torn, onDisk>>
        /\ (ShowSaved(a) \/ Show(a, [of |-> a, ref |-> NoRef, bytes |-> "image"], "embedded"))
    BY <1>2 DEF AskPortrait
  <2>2. OwnFace'
    <3>1. CASE ShowSaved(a)
      BY <3>1, SavedOwn
    <3>2. CASE Show(a, [of |-> a, ref |-> NoRef, bytes |-> "image"], "embedded")
      BY <3>2 DEF Show, OwnFace
    <3>. QED
      BY <2>1, <3>1, <3>2
  <2>3. CopyAgrees' /\ ~Busy(q)'
    BY <1>0, <2>1, CopyAgreesStill DEF Busy
  <2>. QED
    BY <2>1, <2>2, <2>3, FaceEases
<1>. QED
  BY <1>1, <1>2

LEMMA FacePrefetches == ASSUME PortraitInv, FaceInv, NEW q \in Viewers, NEW a \in Faces, PrefetchNext(q, a) PROVE FaceInv'
<1> DEFINE rest == [viewing[q] EXCEPT !.todo = @ \ {a}]
<1>1. StartFetch(q, "prefetch", a, viewing[q].rows[a], rest) /\ ~ViewAt(q, "meta")
  BY DEF PrefetchNext, ViewAt
<1>2. UNCHANGED <<onDisk, shown>>
  BY DEF PrefetchNext
<1>. HIDE DEF rest
<1>. QED
  BY <1>1, <1>2, FetchFace

LEMMA FaceSyncs ==
    ASSUME PortraitInv, FaceInv, NEW q \in Viewers, NEW a \in Faces, NEW found, SyncFaces(q, a, found)
    PROVE  FaceInv'
<1> PICK v : v = [op |-> "prefetch", agent |-> a, refs |-> <<>>, asked |-> <<>>, step |-> "next", got |-> NoPicture,
           rows |-> [faceLinks EXCEPT ![a].there = TRUE, ![a].thumb = found.thumb, ![a].avatar = found.avatar],
           changed |-> {a}, todo |-> Faces]
  OBVIOUS
<1>1. v.step = "next"
  OBVIOUS
<1>2. viewing[q] = NoViewing /\ viewing' = [viewing EXCEPT ![q] = v] /\ UNCHANGED <<onDisk, torn, shown>>
  BY DEF SyncFaces
<1>3. viewing'[q] = v /\ \A o \in Viewers \ {q} : viewing'[o] = viewing[o]
  BY <1>2 DEF PortraitInv
<1>4. ~Busy(q)' /\ ~ViewAt(q, "meta") /\ OwnFace'
  BY <1>1, <1>2, <1>3 DEF Busy, ViewAt, FaceInv, OwnFace
<1>5. CopyAgrees'
  BY <1>2, <1>3, <1>4, CopyAgreesStill
<1>. QED
  BY <1>2, <1>3, <1>4, <1>5, FaceEases

LEMMA FaceAssetCame == ASSUME PortraitInv, FaceInv, NEW q \in Viewers, NEW bytes, AssetCame(q, bytes) PROVE FaceInv'
<1> PICK a : a = viewing[q].agent
  OBVIOUS
<1> PICK p : p = [of |-> a, ref |-> Head(viewing[q].refs), bytes |-> bytes]
  OBVIOUS
<1>0. a \in Faces /\ viewing[q] # NoViewing /\ viewing[q].step = "ask" /\ DOMAIN viewing[q] = ViewFields
      /\ torn' = torn /\ p.of = a
  BY DEF AssetCame, ViewAt, PortraitInv
<1>1. CASE Storable(p) /\ onDisk[a].meta # p
  <2>1. onDisk' = [onDisk EXCEPT ![a].img = p] /\ viewing' = [viewing EXCEPT ![q].step = "meta", ![q].got = p] /\ shown' = shown
    BY <1>1 DEF AssetCame, StoreKey
  <2>2. PICK c : c = [onDisk[a] EXCEPT !.img = p]
    OBVIOUS
  <2>3. c.img = p
    BY <1>0, <2>2 DEF PortraitInv
  <2>4. onDisk'[a] = c /\ \A b \in Faces \ {a} : onDisk'[b] = onDisk[b]
    BY <1>0, <2>1, <2>2 DEF PortraitInv
  <2>5. PICK v : v = [viewing[q] EXCEPT !.step = "meta", !.got = p]
    OBVIOUS
  <2>6. v.agent = a /\ v.step = "meta" /\ v.got = p /\ DOMAIN v = ViewFields
    BY <1>0, <2>5 DEF ViewFields
  <2>7. viewing'[q] = v /\ \A o \in Viewers \ {q} : viewing'[o] = viewing[o]
    BY <2>1, <2>5 DEF PortraitInv
  <2>8. v # NoViewing /\ Busy(q)
    BY <1>0, <2>6 DEF Busy, ViewFields, NoViewing
  <2>9. ASSUME NEW x \in Viewers, NEW o \in Viewers, x # o, Busy(x)', Busy(o)', viewing'[x].agent = viewing'[o].agent
        PROVE  viewing'[x].agent \in torn'
    <3>1. Busy(x) /\ Busy(o) /\ viewing'[x].agent = viewing[x].agent /\ viewing'[o].agent = viewing[o].agent
      BY <2>6, <2>7, <2>8, <2>9 DEF Busy
    <3>. QED
      BY <1>0, <2>9, <3>1 DEF FaceInv
  <2>10. ASSUME NEW o \in Viewers, ViewAt(o, "meta")'
         PROVE  /\ viewing'[o].got.of = viewing'[o].agent
                /\ viewing'[o].agent \notin torn' => onDisk'[viewing'[o].agent].img = viewing'[o].got
    <3>1. CASE o = q
      BY <3>1, <1>0, <2>3, <2>4, <2>6, <2>7
    <3>2. CASE o # q
      <4>1. viewing'[o] = viewing[o] /\ ViewAt(o, "meta") /\ Busy(o) /\ viewing[o].agent \in Faces
        BY <3>2, <2>7, <2>10 DEF ViewAt, Busy, PortraitInv
      <4>2. viewing[o].agent = a => a \in torn
        BY <3>2, <4>1, <2>8 DEF FaceInv
      <4>3. viewing[o].agent # a => onDisk'[viewing[o].agent] = onDisk[viewing[o].agent]
        BY <4>1, <2>4
      <4>. QED
        BY <1>0, <4>1, <4>2, <4>3 DEF FaceInv
    <3>. QED
      BY <3>1, <3>2
  <2>11. \A b \in Faces : onDisk'[b].img.of \in {b, NoRef}
    BY <1>0, <2>3, <2>4 DEF FaceInv
  <2>12. \A o \in Viewers : ViewAt(o, "meta") => ViewAt(o, "meta")' /\ viewing'[o].agent = viewing[o].agent
    BY <1>0, <2>7 DEF ViewAt
  <2>13. ViewAt(q, "meta")' /\ viewing'[q].agent = a
    BY <2>6, <2>7, <2>8 DEF ViewAt
  <2>14. CopyAgrees'
    <3> SUFFICES ASSUME NEW b \in Faces \ torn PROVE \/ onDisk'[b].meta.ref = onDisk'[b].img.ref
                                                    \/ \E o \in Viewers : ViewAt(o, "meta")' /\ viewing'[o].agent = b
      BY <1>0 DEF CopyAgrees
    <3>1. CASE b = a
      BY <3>1, <2>13
    <3>2. CASE b # a
      BY <3>2, <2>4, <2>12 DEF FaceInv, CopyAgrees
    <3>. QED
      BY <3>1, <3>2
  <2>15. OwnFace'
    BY <2>1 DEF FaceInv, OwnFace
  <2>. QED
    BY <2>9, <2>10, <2>11, <2>14, <2>15 DEF FaceInv
<1>2. CASE ~(Storable(p) /\ onDisk[a].meta # p)
  <2>1. FetchDone(q, p) /\ onDisk' = onDisk
    BY <1>2 DEF AssetCame, StoreKey
  <2>2. OwnFace' /\ ~Busy(q)' /\ \A o \in Viewers \ {q} : viewing'[o] = viewing[o]
    BY <1>0, <2>1, FaceDone
  <2>3. CopyAgrees'
    BY <1>0, <2>1, <2>2, CopyAgreesStill DEF ViewAt
  <2>. QED
    BY <1>0, <2>1, <2>2, <2>3, FaceEases
<1>. QED
  BY <1>1, <1>2

LEMMA FaceMissed == ASSUME PortraitInv, FaceInv, NEW q \in Viewers, AssetMissed(q) PROVE FaceInv'
<1>0. viewing[q] # NoViewing /\ viewing[q].step = "ask" /\ DOMAIN viewing[q] = ViewFields /\ UNCHANGED <<onDisk, torn>>
  BY DEF AssetMissed, ViewAt, PortraitInv
<1>1. CASE Len(viewing[q].refs) > 1
  <2>1. viewing' = [viewing EXCEPT ![q].refs = Tail(@)] /\ shown' = shown
    BY <1>1 DEF AssetMissed
  <2>2. PICK v : v = [viewing[q] EXCEPT !.refs = Tail(@)]
    OBVIOUS
  <2>3. v.agent = viewing[q].agent /\ v.step = "ask"
    BY <1>0, <2>2 DEF ViewFields
  <2>4. viewing'[q] = v /\ \A o \in Viewers \ {q} : viewing'[o] = viewing[o]
    BY <2>1, <2>2 DEF PortraitInv
  <2>5. \A o \in Viewers : Busy(o)' => Busy(o)
    BY <1>0, <2>4 DEF Busy
  <2>6. \A o \in Viewers : viewing'[o].agent = viewing[o].agent
    BY <2>3, <2>4
  <2>7. \A o \in Viewers : ViewAt(o, "meta")' => ViewAt(o, "meta") /\ viewing'[o] = viewing[o]
    BY <2>3, <2>4 DEF ViewAt
  <2>8. CopyAgrees'
    BY <1>0, <2>4, CopyAgreesStill DEF ViewAt
  <2>. QED
    BY <1>0, <2>1, <2>5, <2>6, <2>7, <2>8 DEF FaceInv, OwnFace
<1>2. CASE ~(Len(viewing[q].refs) > 1)
  <2>1. FetchDone(q, NoPicture)
    BY <1>2 DEF AssetMissed
  <2>2. OwnFace' /\ ~Busy(q)' /\ \A o \in Viewers \ {q} : viewing'[o] = viewing[o]
    BY <1>0, <2>1, FaceDone DEF NoPicture
  <2>3. CopyAgrees'
    BY <1>0, <2>2, CopyAgreesStill DEF ViewAt
  <2>. QED
    BY <1>0, <2>2, <2>3, FaceEases
<1>. QED
  BY <1>1, <1>2

LEMMA FaceNoted == ASSUME PortraitInv, FaceInv, NEW q \in Viewers, CopyWritten(q) PROVE FaceInv'
<1> PICK a : a = viewing[q].agent
  OBVIOUS
<1> PICK p : p = viewing[q].got
  OBVIOUS
<1>0. a \in Faces /\ viewing[q] # NoViewing /\ torn' = torn /\ ViewAt(q, "meta")
      /\ p.of = a /\ (a \notin torn => onDisk[a].img = p)
  BY DEF CopyWritten, ViewAt, PortraitInv, FaceInv
<1>1. onDisk' = [onDisk EXCEPT ![a].meta = p] /\ FetchDone(q, p)
  BY DEF CopyWritten, StoreKey, KeptAs
<1>2. PICK c : c = [onDisk[a] EXCEPT !.meta = p]
  OBVIOUS
<1>3. c.meta = p /\ c.img = onDisk[a].img
  BY <1>0, <1>2 DEF PortraitInv
<1>4. onDisk'[a] = c /\ \A b \in Faces \ {a} : onDisk'[b] = onDisk[b]
  BY <1>0, <1>1, <1>2 DEF PortraitInv
<1>5. \A b \in Faces : onDisk'[b].img = onDisk[b].img
  BY <1>3, <1>4
<1>6. OwnFace' /\ ~Busy(q)' /\ \A o \in Viewers \ {q} : viewing'[o] = viewing[o]
  BY <1>0, <1>1, FaceDone
<1>7. CopyAgrees'
  <2> SUFFICES ASSUME NEW b \in Faces \ torn PROVE \/ onDisk'[b].meta.ref = onDisk'[b].img.ref
                                                  \/ \E o \in Viewers : ViewAt(o, "meta")' /\ viewing'[o].agent = b
    BY <1>0 DEF CopyAgrees
  <2>1. CASE b = a
    BY <2>1, <1>0, <1>3, <1>4
  <2>2. CASE b # a
    <3>1. \A o \in Viewers : (ViewAt(o, "meta") /\ viewing[o].agent = b) => ViewAt(o, "meta")' /\ viewing'[o].agent = b
      BY <2>2, <1>6 DEF ViewAt
    <3>. QED
      BY <2>2, <3>1, <1>4 DEF FaceInv, CopyAgrees
  <2>. QED
    BY <2>1, <2>2
<1>. QED
  BY <1>0, <1>5, <1>6, <1>7, FaceEases

LEMMA FaceEnds == ASSUME PortraitInv, FaceInv, NEW q \in Viewers, PrefetchEnds(q) PROVE FaceInv'
<1>1. /\ viewing[q] # NoViewing /\ viewing[q].step = "next" /\ UNCHANGED <<onDisk, torn, shown>>
      /\ viewing'[q] = NoViewing /\ \A o \in Viewers \ {q} : viewing'[o] = viewing[o]
  BY DEF PrefetchEnds, ViewAt, ViewOver, PortraitInv
<1>2. ~Busy(q)' /\ ~ViewAt(q, "meta") /\ OwnFace'
  BY <1>1 DEF Busy, ViewAt, FaceInv, OwnFace
<1>3. CopyAgrees'
  BY <1>1, <1>2, CopyAgreesStill
<1>. QED
  BY <1>1, <1>2, <1>3, FaceEases

\* The process dies: an agent of which a copy was half written is torn.
LEMMA FaceDies == ASSUME PortraitInv, FaceInv, GatewayDies PROVE FaceInv'
<1>1. /\ \A q \in Viewers : viewing'[q] = NoViewing
      /\ torn' = torn \cup {viewing[q].agent : q \in {o \in Viewers : ViewAt(o, "meta")}}
      /\ UNCHANGED <<onDisk, shown>>
  BY DEF GatewayDies
<1>2. CopyAgrees'
  BY <1>1 DEF FaceInv, CopyAgrees
<1>. QED
  BY <1>1, <1>2 DEF FaceInv, Busy, ViewAt, OwnFace

LEMMA FaceStepInv == PortraitInv /\ FaceInv /\ PortraitNext => FaceInv'
<1> SUFFICES ASSUME PortraitInv, FaceInv, PortraitNext PROVE FaceInv'
  OBVIOUS
<1>1. ASSUME NEW q \in Viewers, NEW a \in Faces, AskPortrait(q, a) \/ PrefetchNext(q, a) PROVE FaceInv'
  BY <1>1, FaceAsks, FacePrefetches
<1>2. ASSUME NEW q \in Viewers, NEW a \in Faces, NEW found \in Appearances, SyncFaces(q, a, found) PROVE FaceInv'
  BY <1>2, FaceSyncs
<1>3. ASSUME NEW q \in Viewers, PrefetchEnds(q) \/ AssetMissed(q) \/ CopyWritten(q) PROVE FaceInv'
  BY <1>3, FaceEnds, FaceMissed, FaceNoted
<1>4. ASSUME NEW q \in Viewers, NEW bytes \in Bytes, AssetCame(q, bytes) PROVE FaceInv'
  BY <1>4, FaceAssetCame
<1>5. ASSUME UNCHANGED <<viewing, torn, onDisk, shown>> PROVE FaceInv'
  BY <1>5 DEF FaceInv, Busy, ViewAt, OwnFace, CopyAgrees
<1>6. CASE AddressChanges
  BY <1>5, <1>6 DEF AddressChanges
<1>7. ASSUME NEW a \in Faces, NEW pkg \in Packages, ImportLocal(a, pkg) PROVE FaceInv'
  BY <1>5, <1>7 DEF ImportLocal
<1>8. ASSUME NEW alive \in SUBSET (1..Len(Candidates)), NEW first \in alive, Detect(alive, first) PROVE FaceInv'
  BY <1>5, <1>8 DEF Detect
<1>. QED
  BY <1>1, <1>2, <1>3, <1>4, <1>6, <1>7, <1>8, FaceDies DEF PortraitNext

================================================================================
