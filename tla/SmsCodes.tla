------------------------------ MODULE SmsCodes ------------------------------
(***************************************************************************)
(* The verification codes of one phone, in four keys of Redis: the code,   *)
(* the sending interval, the count of failures and the lock.  Sending a    *)
(* code is three commands of a web process, checking one is a script that  *)
(* Redis runs atomically.  Every key may expire when its time is over.     *)
(***************************************************************************)
EXTENDS Naturals, FiniteSets

CONSTANTS
    Senders,        \* requests for a code that may be under way
    Limit,          \* SMS_VERIFY_FAILURE_LIMIT, 0 for none
    MaxCodes,       \* bound of the model: codes sent
    MaxExpiries     \* bound of the model: keys that expire

ASSUME SmsAssumption == /\ {Limit, MaxExpiries} \subseteq Nat /\ MaxCodes \in Nat \ {0}

NoCode == 0
Codes == 1..MaxCodes    \* the codes in the order they were made up; they differ

VARIABLES
    code,       \* the stored code
    rate,       \* the key of the sending interval is there
    failures,   \* the counter, 0 when its key is not there
    locked,     \* the lock is there
    sender,     \* per request for a code: [st, code]
    made,       \* codes made up so far
    accepted,   \* history: how often each code was accepted
    tried,      \* history: wrong codes looked at since the counter last started afresh
    sent,       \* history: codes sent since the interval last expired
    expiries

vars == <<code, rate, failures, locked, sender, made, accepted, tried, sent, expiries>>

Init ==
    /\ code = NoCode /\ rate = FALSE /\ failures = 0 /\ locked = FALSE
    /\ sender = [s \in Senders |-> [st |-> "idle", code |-> NoCode]]
    /\ made = 0
    /\ accepted = [c \in Codes |-> 0]
    /\ tried = 0 /\ sent = 0 /\ expiries = 0

\* send_code: the interval is looked up and a code is made up.
CheckRate(s) ==
    /\ sender[s].st = "idle"
    /\ ~rate /\ made < MaxCodes
    /\ made' = made + 1
    /\ sender' = [sender EXCEPT ![s] = [st |-> "store", code |-> made']]
    /\ UNCHANGED <<code, rate, failures, locked, accepted, tried, sent, expiries>>

\* The failures after a new code was stored.
FailuresKept == failures

\* The code is stored over an earlier one.
StoreCode(s) ==
    /\ sender[s].st = "store"
    /\ code' = sender[s].code
    /\ failures' = FailuresKept
    /\ sender' = [sender EXCEPT ![s].st = "interval"]
    /\ UNCHANGED <<rate, locked, made, accepted, tried, sent, expiries>>

\* The interval starts and the code goes to the phone; between the commands the process may
\* die, and the code is never sent.
StartInterval(s) ==
    /\ sender[s].st = "interval"
    /\ rate' = TRUE
    /\ sent' = sent + 1
    /\ sender' = [sender EXCEPT ![s].st = "idle"]
    /\ UNCHANGED <<code, failures, locked, made, accepted, tried, expiries>>

Die(s) ==
    /\ sender[s].st \in {"store", "interval"}
    /\ sender' = [sender EXCEPT ![s].st = "idle"]
    /\ UNCHANGED <<code, rate, failures, locked, made, accepted, tried, sent, expiries>>

\* Mutant: the code stays where it is.
CodeKept == code
\* The key of the code after it was accepted.
CodeAfterUse == NoCode
\* A failure count that locks.
Locks(n) == n >= Limit

\* LUA_VERIFY_CODE, for a code that was made up at some time, or a guess (NoCode).
Verify == \E c \in 0..made :
    /\ ~locked /\ code # NoCode
    /\ IF c = code
         THEN /\ accepted' = [accepted EXCEPT ![c] = @ + 1]
              /\ code' = CodeAfterUse /\ failures' = 0 /\ tried' = 0
              /\ UNCHANGED locked
         ELSE /\ tried' = IF Limit = 0 \/ Locks(failures + 1) THEN 0 ELSE tried + 1
              /\ locked' = (Limit > 0 /\ Locks(failures + 1))
              /\ failures' = IF Limit = 0 \/ Locks(failures + 1) THEN 0 ELSE failures + 1
              /\ UNCHANGED <<code, accepted>>
    /\ UNCHANGED <<rate, sender, made, sent, expiries>>

\* Keys expire: the interval, the code, the failures (a window from the first of them) and the
\* lock.
Expire ==
    /\ expiries < MaxExpiries
    /\ expiries' = expiries + 1
    /\ \/ /\ rate /\ rate' = FALSE /\ sent' = 0
          /\ UNCHANGED <<code, failures, locked, tried>>
       \/ /\ code # NoCode /\ code' = NoCode
          /\ UNCHANGED <<rate, failures, locked, tried, sent>>
       \/ /\ failures > 0 /\ failures' = 0 /\ tried' = 0
          /\ UNCHANGED <<code, rate, locked, sent>>
       \/ /\ locked /\ locked' = FALSE
          /\ UNCHANGED <<code, rate, failures, tried, sent>>
    /\ UNCHANGED <<sender, made, accepted>>

Next == Verify \/ Expire
        \/ \E s \in Senders : CheckRate(s) \/ StoreCode(s) \/ StartInterval(s) \/ Die(s)

Safety == Init /\ [][Next]_vars

-----------------------------------------------------------------------------
\* Every variable has its type, and a locked phone has no count that goes on (sms_service.py).
TypeOK ==
    /\ code \in Codes \cup {NoCode} /\ rate \in BOOLEAN /\ locked \in BOOLEAN
    /\ failures \in Nat /\ (Limit > 0 => failures < Limit)
    /\ sender \in [Senders -> [st : {"idle", "store", "interval"}, code : Codes \cup {NoCode}]]
    /\ made \in 0..MaxCodes /\ accepted \in [Codes -> Nat] /\ tried \in Nat /\ sent \in Nat
    /\ expiries \in 0..MaxExpiries
    /\ locked => failures = 0

\* A code is accepted once, however many codes and checks are under way (sms_service.py:121-156).
CodeIsOneTime == \A c \in Codes : accepted[c] <= 1

\* Between two locks fewer than Limit wrong codes are looked at without the failures being
\* counted afresh: asking for another code gives no further tries (sms_service.py:47-59).
TriesBounded == Limit > 0 => tried < Limit

\* Codes are sent to one phone an interval apart (config/web_settings.py:100).
OnePerInterval == sent <= 1
=============================================================================
