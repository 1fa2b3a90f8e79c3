------------------------------- MODULE Credits -------------------------------
(***************************************************************************)
(* Credits: the daily check-in, the check before a generation, the charge  *)
(* after it, and the nightly expiry of what was given and not spent.  Each *)
(* operation locks the account (charge and check the user before it), so   *)
(* it is one step; what a charge reads before it locks, and the expiry     *)
(* with its many accounts, are steps of their own.  An account that does   *)
(* not exist yet is one with balance 0 and no transactions.                *)
(***************************************************************************)
EXTENDS Integers, FiniteSets, FiniteSetsExt

CONSTANTS
    Users,
    Messages,       \* assistant messages, each the subject of one charge
    Owner,          \* Owner[m]: whose message it is
    Workers,        \* runs that settle a generation
    NoMessage,
    NoUsage,
    Grant,          \* CREDIT_DAILY_CHECKIN_AMOUNT
    ValidDays,      \* CREDIT_DAILY_CHECKIN_VALID_DAYS
    Ratio,          \* CREDIT_TO_TOKEN_RATIO
    Unit,           \* weighted tokens of one credit (1000 in the code)
    MaxTokens,      \* users.max_tokens
    Estimates,      \* estimated costs, in credits
    Bills,          \* weighted tokens of a generation
    MaxDay,         \* bound of the model
    MaxFaults       \* bound of the model: crashes and skipped accounts of the expiry

Usage == [credits : Nat, tokens : Nat, bill : Bills]

CreditsAssumption ==
    /\ IsFiniteSet(Messages) /\ Owner \in [Messages -> Users]
    /\ {Grant, ValidDays, Ratio, Unit} \subseteq Nat \ {0}
    /\ {MaxTokens, MaxDay, MaxFaults} \subseteq Nat
    /\ Estimates \subseteq Nat /\ Bills \subseteq Nat
    /\ NoMessage \notin Messages /\ NoUsage \notin Usage

VARIABLES
    day,
    balance,        \* credit_accounts.balance
    used,           \* users.used_tokens
    grants,         \* days a user checked in on: the checkin transactions
    expired,        \* sum of the expire transactions
    usage,          \* usage_records, with the spend transaction
    gen,            \* [st, est, bill, quiet] of a message's generation
    work,           \* message a worker found uncharged, before it locks
    expiry          \* [st, now, todo, took] of the nightly run, and its faults

vars == <<day, balance, used, grants, expired, usage, gen, work, expiry>>

GenStatus == {"none", "admitted", "charged", "refused"}

\* Rounding up, as math.ceil.
CeilDiv(n, d) == (n + d - 1) \div d
Cost(bill) == CeilDiv(bill, Unit)
TokenValue(bill) == CeilDiv(bill * Ratio, Unit)

SumOver(S, Val(_)) == MapThenSumSet(Val, S)
Spent(u) == SumOver({m \in Messages : Owner[m] = u /\ usage[m] # NoUsage},
                    LAMBDA m : usage[m].credits)
ExpiredGrants(u, now) == Grant * Cardinality({d \in grants[u] : d + ValidDays <= now})

\* get_protected_positive_sum: only check-ins are positive.
Protected(u, now) == Grant * Cardinality({d \in grants[u] : d + ValidDays > now})

Remaining(u) == IF used[u] >= MaxTokens THEN 0 ELSE MaxTokens - used[u]

\* The expiry has the account locked from the moment it reads it until it commits.
Locked(u) == expiry.st = "running" /\ u \in DOMAIN expiry.took

Init ==
    /\ day = 0
    /\ balance = [u \in Users |-> 0]
    /\ used = [u \in Users |-> 0]
    /\ grants = [u \in Users |-> {}]
    /\ expired = [u \in Users |-> 0]
    /\ usage = [m \in Messages |-> NoUsage]
    /\ gen = [m \in Messages |-> [st |-> "none", est |-> 0, bill |-> 0, quiet |-> TRUE]]
    /\ work = [w \in Workers |-> NoMessage]
    /\ expiry = [st |-> "idle", now |-> 0, todo |-> {}, took |-> [u \in {} |-> 0], faults |-> 0]

NewDay ==
    /\ day < MaxDay
    /\ day' = day + 1
    /\ UNCHANGED <<balance, used, grants, expired, usage, gen, work, expiry>>

\* daily_checkin.  The transaction records Grant and the UPDATE gives it, to the row and, as is
\* the library's default, to the loaded account; then the loaded account is increased as
\* well, and written: the balance grows by Grant twice.
CheckIn(u) ==
    /\ ~Locked(u)
    /\ day \notin grants[u]
    /\ grants' = [grants EXCEPT ![u] = @ \cup {day}]
    /\ LET loaded == balance[u] + Grant
       IN  balance' = [balance EXCEPT ![u] = loaded + Grant]
    /\ UNCHANGED <<day, used, expired, usage, gen, work, expiry>>

\* ensure_sufficient_balance: credits and tokens together cover the estimate.
Sufficient(u, est) == Remaining(u) + balance[u] * Ratio >= est * Ratio

\* A generation, or a retry of one, is admitted.
Admit(m, est) ==
    /\ ~Locked(Owner[m])
    /\ gen[m].st # "charged"
    /\ Sufficient(Owner[m], est)
    /\ gen' = [gen EXCEPT ![m] = [st |-> "admitted", est |-> est, bill |-> 0, quiet |-> TRUE]]
    /\ UNCHANGED <<day, balance, used, grants, expired, usage, work, expiry>>

\* spend_for_model_usage, before it locks: a message that is charged is answered with its
\* records; the charge of another goes on.
ReadCharge(w, m) ==
    /\ work[w] = NoMessage
    /\ gen[m].st # "none"
    /\ usage[m] = NoUsage
    /\ work' = [work EXCEPT ![w] = m]
    /\ UNCHANGED <<day, balance, used, grants, expired, usage, gen, expiry>>

\* Credits pay while there are enough of them; otherwise all of them and tokens for the rest.
Share(u, bill) ==
    IF balance[u] >= Cost(bill)
    THEN [credits |-> Cost(bill), tokens |-> 0, bill |-> bill]
    ELSE LET rest == TokenValue(bill) - balance[u] * Ratio
         IN  [credits |-> balance[u], tokens |-> IF rest < 0 THEN 0 ELSE rest, bill |-> bill]

\* Mutant: no unique index on usage_records.chat_message_id.
UnchargedAnyway(m) == TRUE

\* idx_usage_records_chat_message_id_unique, idx_credits_tx_idempotency.
Uncharged(m) == usage[m] = NoUsage

\* The charge: its records are unique per message, so a worker that comes second is rolled
\* back as a whole (the fence of the attempt is in ChatGeneration, and a payload without an
\* attempt has none: it is not assumed here); one whose user cannot pay is rolled back to the savepoint and its
\* generation refused.
Charge(w, bill) ==
    LET m == work[w]
        u == Owner[m]
        share == Share(u, bill)
    IN  /\ m # NoMessage
        /\ ~Locked(u)
        /\ work' = [work EXCEPT ![w] = NoMessage]
        /\ \/ /\ ~Uncharged(m)
              /\ UNCHANGED <<balance, used, usage, gen>>
           \/ /\ Uncharged(m)
              /\ used[u] + share.tokens > MaxTokens /\ share.tokens > 0
              /\ gen' = [gen EXCEPT ![m].st = "refused", ![m].bill = bill]
              /\ UNCHANGED <<balance, used, usage>>
           \/ /\ Uncharged(m)
              /\ used[u] + share.tokens <= MaxTokens \/ share.tokens = 0
              /\ balance' = [balance EXCEPT ![u] = @ - share.credits]
              /\ used' = [used EXCEPT ![u] = @ + share.tokens]
              /\ usage' = [usage EXCEPT ![m] = share]
              /\ gen' = [n \in Messages |->
                            IF n = m THEN [gen[m] EXCEPT !.st = "charged", !.bill = bill]
                            ELSE IF Owner[n] = u THEN [gen[n] EXCEPT !.quiet = FALSE]
                            ELSE gen[n]]
        /\ UNCHANGED <<day, grants, expired, expiry>>

-----------------------------------------------------------------------------
\* expire_credits: the accounts with an expired check-in, read by pages.
StartExpiry ==
    /\ expiry.st = "idle"
    /\ \E u \in Users : ExpiredGrants(u, day) > 0
    /\ expiry' = [expiry EXCEPT !.st = "running", !.now = day,
                                !.todo = {u \in Users : ExpiredGrants(u, day) > 0}]
    /\ UNCHANGED <<day, balance, used, grants, expired, usage, gen, work>>

\* expire_credits_for_account: what is left of the expired grants, out of what no other
\* grant protects.
ToExpire(u, now) ==
    LET gone == Spent(u) + expired[u]
        pending == IF ExpiredGrants(u, now) > gone THEN ExpiredGrants(u, now) - gone ELSE 0
        expirable == IF balance[u] > Protected(u, now) THEN balance[u] - Protected(u, now) ELSE 0
    IN  Min({expirable, pending})

\* One account in its savepoint.
ExpireAccount(u) ==
    /\ expiry.st = "running"
    /\ u \in expiry.todo
    /\ expiry' = [expiry EXCEPT
            !.todo = @ \ {u},
            !.took = [v \in DOMAIN @ \cup {u} |->
                        IF v = u THEN ToExpire(u, expiry.now) ELSE @[v]]]
    /\ UNCHANGED <<day, balance, used, grants, expired, usage, gen, work>>

\* An error of one account is logged and the account left to the next run.
SkipAccount(u) ==
    /\ expiry.st = "running"
    /\ u \in expiry.todo
    /\ expiry.faults < MaxFaults
    /\ expiry' = [expiry EXCEPT !.todo = @ \ {u}, !.faults = @ + 1]
    /\ UNCHANGED <<day, balance, used, grants, expired, usage, gen, work>>

Ended == [expiry EXCEPT !.st = "idle", !.todo = {}, !.took = [u \in {} |-> 0], !.now = 0]

\* The one transaction around all accounts commits.
CommitExpiry ==
    LET Took(u) == IF u \in DOMAIN expiry.took THEN expiry.took[u] ELSE 0
    IN  /\ expiry.st = "running"
        /\ expiry.todo = {}
        /\ balance' = [u \in Users |-> balance[u] - Took(u)]
        /\ expired' = [u \in Users |-> expired[u] + Took(u)]
        /\ gen' = [m \in Messages |-> [gen[m] EXCEPT !.quiet = @ /\ Took(Owner[m]) = 0]]
        /\ expiry' = Ended
        /\ UNCHANGED <<day, used, grants, usage, work>>

\* The worker dies, or the commit fails: the run leaves nothing behind.
CrashExpiry ==
    /\ expiry.st = "running"
    /\ expiry.faults < MaxFaults
    /\ expiry' = [Ended EXCEPT !.faults = expiry.faults + 1]
    /\ UNCHANGED <<day, balance, used, grants, expired, usage, gen, work>>

Expiry == StartExpiry \/ CommitExpiry \/ \E u \in Users : ExpireAccount(u)

Next ==
    \/ NewDay
    \/ \E u \in Users : CheckIn(u) \/ SkipAccount(u)
    \/ \E m \in Messages, est \in Estimates : Admit(m, est)
    \/ \E w \in Workers, m \in Messages : ReadCharge(w, m)
    \/ \E w \in Workers, bill \in Bills : Charge(w, bill)
    \/ Expiry
    \/ CrashExpiry

Safety == Init /\ [][Next]_vars

\* The scheduler starts the expiry every night, and a run goes through its accounts.
Spec == Safety /\ WF_vars(Expiry) /\ WF_vars(NewDay)
-----------------------------------------------------------------------------
(* Properties.                                                              *)

\* What a user was given and may still spend.
Valid(u, now) == Grant * Cardinality({d \in grants[u] : now < d + ValidDays})

TypeOK ==
    /\ day \in 0..MaxDay
    /\ balance \in [Users -> Nat]
    /\ used \in [Users -> 0..MaxTokens]
    /\ grants \in [Users -> SUBSET (0..MaxDay)]
    /\ expired \in [Users -> Nat]
    /\ usage \in [Messages -> Usage \cup {NoUsage}]
    /\ \A m \in Messages : gen[m].st \in GenStatus /\ gen[m].quiet \in BOOLEAN
    /\ work \in [Workers -> Messages \cup {NoMessage}]
    /\ expiry.st \in {"idle", "running"}
    /\ expiry.todo \subseteq Users /\ DOMAIN expiry.took \subseteq Users

\* Balance and tokens are what the transactions say, with every check-in counted twice: no
\* charge or expiry is recorded without its movement, or moved twice, whatever overlaps, and
\* nothing but the second write of the check-in parts the balance from its ledger
\* (credits.py:25, credit_repo.py:68, credit_service.py:181).
BalanceIsLedger ==
    \A u \in Users :
        /\ balance[u] + Spent(u) + expired[u] = 2 * Grant * Cardinality(grants[u])
        /\ used[u] = SumOver({m \in Messages : Owner[m] = u /\ usage[m] # NoUsage},
                             LAMBDA m : usage[m].tokens)

\* A generation is charged its value: to the token where tokens pay, and by less than one
\* credit more where credits pay alone; never twice rounded (credit_service.py:257).
ChargedItsValue ==
    \A m \in Messages : usage[m] # NoUsage =>
        LET paid == usage[m].credits * Ratio + usage[m].tokens
            value == TokenValue(usage[m].bill)
        IN  /\ value <= paid
            /\ IF usage[m].tokens > 0 THEN paid = value ELSE paid < value + Ratio

\* A message is charged once, and what it was charged stays (credits.py:166).
ChargedOnceStep ==
    \A m \in Messages : usage[m] # NoUsage => usage'[m] = usage[m]
ChargedOnce == [][ChargedOnceStep]_vars

\* The check is worth something: a generation that costs what it was admitted for is refused
\* only if another was charged, or credits expired, in between (credit_service.py:72).
AdmittedIsPaidStep ==
    \A m \in Messages :
        (gen'[m].st = "refused" /\ gen[m].st = "admitted") =>
            ~gen[m].quiet \/ Cost(gen'[m].bill) > gen[m].est
AdmittedIsPaid == [][AdmittedIsPaidStep]_vars

\* The expiry leaves a user at least the grants that are still valid, or all there was.
ExpiryProtectsStep ==
    \A u \in Users : expired'[u] > expired[u] =>
            balance'[u] >= Valid(u, expiry.now)
ExpiryProtects == [][ExpiryProtectsStep]_vars

\* ... and of the grants on record it takes, from an account it has dealt with, all that has
\* expired and was not spent, and no more: expired grants are spent first, and what is left
\* of them goes, however check-ins, charges and runs alternate (credit_service.py:369).
ExpiryIsExactStep ==
    \A u \in Users :
        (u \in DOMAIN expiry.took /\ expired' # expired) =>
            /\ expired'[u] + Spent(u) >= ExpiredGrants(u, expiry.now)
            /\ expired'[u] > expired[u] => expired'[u] + Spent(u) <= ExpiredGrants(u, expiry.now)
ExpiryIsExact == [][ExpiryIsExactStep]_vars

\* In the end every grant on record that has expired was spent or taken, in spite of errors
\* and crashes of some runs (credit_tasks.py:20).
ExpiredGoes ==
    \A u \in Users : <>[](day = MaxDay => ExpiredGrants(u, day) <= Spent(u) + expired[u])

\* What the task's docstring says: it revokes what has expired, so that nobody keeps credits that
\* are no longer valid (credit_tasks.py:28).
OnlyValidLeft ==
    \A u \in Users : <>[](day = MaxDay => balance[u] <= Valid(u, day))

\* What the interface promises: a check-in gives Grant credits (credit_api.py:62).
CheckInGives ==
    [][\A u \in Users : grants'[u] # grants[u] => balance'[u] = balance[u] + Grant]_vars

\* What the docstring says: every account is a transaction of its own, so an account that
\* was dealt with stays so when the run fails later (credit_service.py:403).
EachAccountOnItsOwn ==
    [][\A u \in DOMAIN expiry.took : expiry'.st = "idle" =>
            expired'[u] = expired[u] + expiry.took[u]]_vars
=============================================================================
