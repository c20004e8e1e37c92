-------------------------------- MODULE Cost --------------------------------
(***************************************************************************)
(* The cost guard of agent_runtime.rs and the ledger cost_repo.rs.         *)
(*                                                                         *)
(* A call to a model reserves an estimate before it is made and books the  *)
(* difference to its real cost when it has succeeded.  Amounts are whole   *)
(* multiples of a smallest amount.  A day is a number, and the days of the *)
(* model belong to one month, so that the monthly sum is the sum of them.  *)
(* An account is a provider with a project: the ceilings are called global *)
(* in the configuration and are compared with the sums of one account.     *)
(***************************************************************************)
EXTENDS Integers, FiniteSets

CONSTANTS
  Caller,       \* runs that call a model
  Account,
  Day,
  Price,        \* what a call may really cost
  Estimate,     \* the reservation, 0.05 USD
  DailyCap, MonthlyCap

ASSUME CostAssumption ==
  /\ Price \subseteq Nat /\ Estimate \in Nat
  /\ DailyCap \in Nat /\ MonthlyCap \in Nat
  /\ IsFiniteSet(Day) /\ Day = 1..Cardinality(Day) /\ 1 \in Day
  /\ Account # {}

VARIABLES
  ledger,       \* cost_entries: the sum of the rows of an account on a day
  today,
  budgetLock,   \* who holds BUDGET_LOCK: {} or one caller
  call,         \* where the call of each caller is, its account, and the daily
                \* and the monthly sum it has read
  spent,        \* history: what the calls that were answered have cost
  unanswered,   \* history: calls that failed after they had reserved
  overrun,      \* history: amounts above an estimate, booked on a day
  unread,       \* history: a sum could not be read and was taken as zero
  unwritten     \* history: a row of the ledger could not be written

costVars == <<ledger, today, budgetLock, call, spent, unanswered, overrun, unread, unwritten>>

Quiet == [at |-> "idle", account |-> CHOOSE a \in Account : TRUE, daily |-> 0, monthly |-> 0]

CostTypeOK ==
  /\ ledger \in [Account -> [Day -> Int]] /\ today \in Day
  /\ budgetLock \in SUBSET Caller /\ Cardinality(budgetLock) <= 1
  /\ call \in [Caller -> [at: {"idle", "locking", "read", "calling"},
                          account: Account, daily: Int, monthly: Int]]
  /\ spent \in [Account -> Nat] /\ unanswered \in [Account -> Nat]
  /\ overrun \in [Account -> [Day -> Nat]]
  /\ unread \in BOOLEAN /\ unwritten \in BOOLEAN

CostInit ==
  /\ ledger = [a \in Account |-> [d \in Day |-> 0]] /\ today = 1
  /\ budgetLock = {} /\ call = [r \in Caller |-> Quiet]
  /\ spent = [a \in Account |-> 0] /\ unanswered = [a \in Account |-> 0]
  /\ overrun = [a \in Account |-> [d \in Day |-> 0]]
  /\ unread = FALSE /\ unwritten = FALSE

MonthOf(days) ==
  LET sum[d \in 0..Cardinality(Day)] == IF d = 0 THEN 0 ELSE sum[d-1] + days[d]
  IN  sum[Cardinality(Day)]

Books(a, amount) == ledger' = [ledger EXCEPT ![a][today] = @ + amount]

(* With the guard enabled and a provider other than ollama. *)
BeginCall(r, a) ==
  /\ call[r].at = "idle"
  /\ call' = [call EXCEPT ![r] = [Quiet EXCEPT !.at = "locking", !.account = a]]
  /\ UNCHANGED <<ledger, today, budgetLock, spent, unanswered, overrun, unread, unwritten>>

ReadOf(r, daily, monthly) ==
  call' = [call EXCEPT ![r].at = "read", ![r].daily = daily, ![r].monthly = monthly]

(* Mutant: the sums are read before the lock is taken.                     *)
ReadUnlocked(r) ==
  /\ call[r].at = "locking"
  /\ budgetLock' = {r}
  /\ ReadOf(r, ledger[call[r].account][today], MonthOf(ledger[call[r].account]))
  /\ UNCHANGED <<ledger, today, spent, unanswered, overrun, unread, unwritten>>

(* The lock is held until the reservation is written or refused.  A query  *)
(* that fails reads as zero.                                               *)
ReadSums(r) ==
  /\ call[r].at = "locking" /\ budgetLock = {}
  /\ budgetLock' = {r}
  /\ LET days == ledger[call[r].account]
     IN \/ /\ ReadOf(r, days[today], MonthOf(days))
           /\ UNCHANGED unread
        \/ /\ \E daily \in {days[today], 0}, monthly \in {MonthOf(days), 0} :
                ReadOf(r, daily, monthly)
           /\ unread' = TRUE
  /\ UNCHANGED <<ledger, today, spent, unanswered, overrun, unwritten>>

Exceeds(r) ==
  \/ call[r].daily + Estimate >= DailyCap
  \/ call[r].monthly + Estimate >= MonthlyCap

(* With hard_block set: PolicyDenied. *)
RefuseCall(r) ==
  /\ call[r].at = "read" /\ Exceeds(r)
  /\ budgetLock' = {} /\ call' = [call EXCEPT ![r] = Quiet]
  /\ UNCHANGED <<ledger, today, spent, unanswered, overrun, unread, unwritten>>

(* The result of the write is not looked at. *)
Reserve(r) ==
  /\ call[r].at = "read" /\ ~Exceeds(r)
  /\ \/ Books(call[r].account, Estimate) /\ UNCHANGED unwritten
     \/ unwritten' = TRUE /\ UNCHANGED ledger
  /\ budgetLock' = {}
  /\ call' = [call EXCEPT ![r].at = "calling", ![r].daily = 0, ![r].monthly = 0]
  /\ UNCHANGED <<today, spent, unanswered, overrun, unread>>

(* An error after the last retry, or a cancellation: nothing is returned   *)
(* to the ledger.                                                          *)
FailCall(r) ==
  /\ call[r].at = "calling"
  /\ unanswered' = [unanswered EXCEPT ![call[r].account] = @ + 1]
  /\ call' = [call EXCEPT ![r] = Quiet]
  /\ UNCHANGED <<ledger, today, budgetLock, spent, overrun, unread, unwritten>>

(* Mutant: the real cost is booked on top of the reservation. *)
BookRealCost(r, cost) ==
  /\ call[r].at = "calling"
  /\ LET a == call[r].account
     IN /\ spent' = [spent EXCEPT ![a] = @ + cost]
        /\ Books(a, cost)
  /\ call' = [call EXCEPT ![r] = Quiet]
  /\ UNCHANGED <<today, budgetLock, unanswered, overrun, unread, unwritten>>

(* The answer and, on the day it comes, the adjustment to its real cost.   *)
Adjust(r, cost) ==
  /\ call[r].at = "calling"
  /\ LET a == call[r].account
         above == IF cost > Estimate THEN cost - Estimate ELSE 0
     IN /\ spent' = [spent EXCEPT ![a] = @ + cost]
        /\ \/ /\ Books(a, cost - Estimate)
              /\ overrun' = [overrun EXCEPT ![a][today] = @ + above]
              /\ UNCHANGED unwritten
           \/ unwritten' = TRUE /\ UNCHANGED <<ledger, overrun>>
  /\ call' = [call EXCEPT ![r] = Quiet]
  /\ UNCHANGED <<today, budgetLock, unanswered, unread>>

Midnight ==
  /\ today + 1 \in Day
  /\ today' = today + 1
  /\ UNCHANGED <<ledger, budgetLock, call, spent, unanswered, overrun, unread, unwritten>>

CallStep(r) ==
  \/ \E a \in Account : BeginCall(r, a)
  \/ ReadSums(r) \/ RefuseCall(r) \/ Reserve(r) \/ FailCall(r)
  \/ \E cost \in Price : Adjust(r, cost)

CostNext == (\E r \in Caller : CallStep(r)) \/ Midnight

CostSpec == CostInit /\ [][CostNext]_costVars

-----------------------------------------------------------------------------
(* However many runs call at a time, the sum the guard compares stays      *)
(* below the ceiling but for what single calls cost above their estimate   *)
(* -- unless a sum could not be read.  A reservation of yesterday that is  *)
(* adjusted today lowers the sum of today and does not raise it.           *)
CeilingHolds ==
  ~unread /\ Estimate < DailyCap /\ Estimate < MonthlyCap =>
    \A a \in Account :
      /\ \A d \in Day : ledger[a][d] < DailyCap + overrun[a][d]
      /\ MonthOf(ledger[a]) < MonthlyCap + MonthOf(overrun[a])

InFlight(a) == Cardinality({r \in Caller : call[r].at = "calling" /\ call[r].account = a})

(* The ledger of a month is what was really spent, and one estimate for    *)
(* each call in flight and for each call that failed -- which nobody gives *)
(* back -- unless a write failed.                                          *)
LedgerBalances ==
  ~unwritten => \A a \in Account :
    MonthOf(ledger[a]) = spent[a] + Estimate * (InFlight(a) + unanswered[a])
=============================================================================
