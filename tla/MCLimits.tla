------------------------------ MODULE MCLimits ------------------------------
(***************************************************************************)
(* What is limited, paid and locked: verification codes (SmsCodes), the    *)
(* middleware before a handler (RequestLimits), credits (Credits), the row *)
(* locks of the transactions (RowLocks) and the bundle of secrets of a     *)
(* deployment (SecretBundle).  They share no state: a behaviour runs one   *)
(* of them, and the variables of the others are Off.                       *)
(***************************************************************************)
EXTENDS SmsCodes, TLC

CONSTANTS
    Two,          \* two of what a component has two of: requests, writers, transactions
    First,        \* one of them
    Three,        \* the imports of the bundle
    None,
    Off           \* the value of a variable of a component that is not running

VARIABLES now, zset, expires, req, admitted
VARIABLES day, balance, used, grants, expired, usage, gen, work, expiry
VARIABLES fresh, kind, next, since, st
VARIABLES aws, importer, target, writer, stored, published, unrestored, runs, faults, crashes
VARIABLE running

limitVars == <<now, zset, expires, req, admitted>>
creditVars == <<day, balance, used, grants, expired, usage, gen, work, expiry>>
lockVars == <<fresh, kind, next, since, st>>
bundleVars == <<aws, importer, target, writer, stored, published, unrestored, runs, faults, crashes>>
suiteVars == <<vars, limitVars, creditVars, lockVars, bundleVars, running>>

Symmetry == Permutations(Two) \cup Permutations(Three)

\* One request of each of two clients in a window, two requests of one; and bodies.
Limits == INSTANCE RequestLimits
            WITH Senders <- Two, Proxy <- "proxy", NoHeader <- None, Times <- 1, Window <- 3,
                 MaxDelay <- 1, MaxSize <- 1, Requests <- {"q1", "q2"}, MaxTime <- 5,
                 Kinds <- {"other"}
Second == INSTANCE RequestLimits
            WITH Senders <- First, Proxy <- "proxy", NoHeader <- None, Times <- 2, Window <- 3,
                 MaxDelay <- 1, MaxSize <- 1, Requests <- Two, MaxTime <- 6,
                 Kinds <- {"other"}
Bodies == INSTANCE RequestLimits
            WITH Senders <- First, Proxy <- "proxy", NoHeader <- None, Times <- 2, Window <- 2,
                 MaxDelay <- 1, MaxSize <- 3, Requests <- Two, MaxTime <- 1,
                 Kinds <- {"json", "multipart"}

\* Charges of two workers for two messages of one user, with check-ins and the expiry.
Charges == INSTANCE Credits
            WITH Users <- {"ann"}, Messages <- Two, Owner <- [m \in Two |-> "ann"],
                 Workers <- {"w1", "w2"}, NoMessage <- None, NoUsage <- None,
                 Grant <- 2, ValidDays <- 2, Ratio <- 2, Unit <- 4, MaxTokens <- 2,
                 Estimates <- {1, 2}, Bills <- {3, 6}, MaxDay <- 3, MaxFaults <- 1

\* All transactions, three at a time.
Locks3 == INSTANCE RowLocks
            WITH Txs <- {"t1", "t2", "t3"},
                 Kinds <- {"ask", "settle", "unpaid", "fail", "retry", "recover", "merge",
                           "checkin", "open", "expire", "expire2", "ingest", "remove"}

Bundle == INSTANCE SecretBundle
            WITH Keys <- {"k1", "k2"}, Required <- {"k1"}, Importers <- Three,
                 Writers <- Two, Empty <- "empty", NoDir <- None,
                 MaxFailures <- 2, MaxCrashes <- 1, MaxRuns <- 2, failures <- faults

ASSUME LimitsSuiteAssumption ==
    /\ First \subseteq Two
    /\ Limits!LimitsAssumption /\ Second!LimitsAssumption /\ Bodies!LimitsAssumption
    /\ Charges!CreditsAssumption /\ Bundle!SecretAssumption

LimitsOff == now = Off /\ zset = Off /\ expires = Off /\ req = Off /\ admitted = Off
CreditsOff ==
    /\ day = Off /\ balance = Off /\ used = Off /\ grants = Off /\ expired = Off
    /\ usage = Off /\ gen = Off /\ work = Off /\ expiry = Off
LocksOff == fresh = Off /\ kind = Off /\ next = Off /\ since = Off /\ st = Off
BundleOff ==
    /\ aws = Off /\ importer = Off /\ target = Off /\ writer = Off /\ stored = Off
    /\ published = Off /\ unrestored = Off /\ runs = Off /\ faults = Off /\ crashes = Off

SuiteInit ==
    /\ running \in {"codes", "limits", "second", "bodies", "charges", "locks", "bundle"}
    /\ Init
    /\ CASE running = "limits" -> Limits!Init
         [] running = "second" -> Second!Init
         [] running = "bodies" -> Bodies!Init
         [] OTHER -> LimitsOff
    /\ IF running = "charges" THEN Charges!Init ELSE CreditsOff
    /\ IF running = "locks" THEN Locks3!Init ELSE LocksOff
    /\ IF running = "bundle" THEN Bundle!Init ELSE BundleOff

SuiteNext ==
    /\ UNCHANGED running
    /\ \/ /\ running = "codes" /\ Next
          /\ UNCHANGED <<limitVars, creditVars, lockVars, bundleVars>>
       \/ /\ \/ running = "limits" /\ Limits!Next
             \/ running = "second" /\ Second!Next
             \/ running = "bodies" /\ Bodies!Next
          /\ UNCHANGED <<vars, creditVars, lockVars, bundleVars>>
       \/ /\ running = "charges" /\ Charges!Next
          /\ UNCHANGED <<vars, limitVars, lockVars, bundleVars>>
       \/ /\ running = "locks" /\ Locks3!Next
          /\ UNCHANGED <<vars, limitVars, creditVars, bundleVars>>
       \/ /\ running = "bundle" /\ Bundle!Next
          /\ UNCHANGED <<vars, limitVars, creditVars, lockVars>>

SuiteSpec == SuiteInit /\ [][SuiteNext]_suiteVars
-----------------------------------------------------------------------------
\* One client gets at most its requests through in a window, whatever stamps and headers say,
\* and is turned away only when it has had them; a measured JSON body is within the limit; and
\* between two locks of a phone fewer than Limit wrong codes are looked at.
LimitsHold ==
    /\ [](/\ TriesBounded
          /\ running = "limits" => Limits!TypeOK /\ Limits!WindowHolds
          /\ running = "second" => Second!WindowHolds
          /\ running = "bodies" => Bodies!BodyBounded)
    /\ [][/\ running = "limits" => Limits!RejectedOnlyWhenFullStep
          /\ running = "second" => Second!RejectedOnlyWhenFullStep]_suiteVars

\* A message is charged once and its value, what was admitted is paid, the balance is what the
\* transactions say with every check-in counted twice, and the expiry takes just what has
\* expired of the grants on record and was not spent (credit_service.py).
ChargesRight ==
    /\ [](running = "charges" => Charges!TypeOK /\ Charges!ChargedItsValue /\ Charges!BalanceIsLedger)
    /\ [][running = "charges" =>
             /\ Charges!ChargedOnceStep /\ Charges!AdmittedIsPaidStep
             /\ Charges!ExpiryProtectsStep /\ Charges!ExpiryIsExactStep]_suiteVars

\* Two transactions never hold conflicting locks, and every deadlock has a known pair in it
\* that takes rows the other way round (credit_repo.py, session_orchestrator.py).
LocksKept == running = "locks" => Locks3!NeverBoth /\ Locks3!OnlyInversions

\* The directory of secrets has the files of one bundle that was in AWS and stays where it is
\* unless it cannot be put back, copies are left by runs that could not remove them only, and
\* imports that overlap keep the keys of the first (secret_bundle.py).
BundleWhole ==
    running = "bundle" =>
        /\ Bundle!TypeOK
        /\ Bundle!TargetIsOneBundle /\ Bundle!TargetStays /\ Bundle!NothingLeft /\ Bundle!FirstKeysStay
=============================================================================
