--------------------------- MODULE LoginThrottle ---------------------------
(***************************************************************************)
(* RedisLoginThrottle around Login.Execute (and, under a key of its own,   *)
(* ResetPassword): one submitted identifier, and the attempts that race    *)
(* for it between the check of the counter and its increment.              *)
(***************************************************************************)
EXTENDS Naturals, FiniteSets

CONSTANTS Logins,       \* goroutines serving attempts
          MaxFailures,  \* throttleMaxFailures
          Window,       \* throttleWindow, in ticks
          MaxFaults     \* bound on failed Redis commands

VARIABLES fails,   \* value of login:fails:<hash>, 0 when there is no key
          ttl,     \* ticks the key has left
          login,   \* what each attempt is about to do
          recent,  \* history: wrong guesses at most so many ticks old, since the last reset
          faults

vars == <<fails, ttl, login, recent, faults>>

Ages == 0..(Window - 1)

TypeOK == /\ fails \in Nat /\ ttl \in 0..Window
          /\ login \in [Logins -> {"idle", "verify", "record", "reset"}]
          /\ recent \in [Ages -> Nat]
          /\ faults \in 0..MaxFaults

Init == /\ fails = 0 /\ ttl = 0
        /\ login = [l \in Logins |-> "idle"]
        /\ recent = [a \in Ages |-> 0]
        /\ faults = 0

Goto(l, pc) == login' = [login EXCEPT ![l] = pc]
Fault == faults < MaxFaults /\ faults' = faults + 1

\* Mutant: an attempt on a locked identifier renews the lock.
RenewsWhileLocked(l) ==
  /\ login[l] = "idle"
  /\ \/ fails < MaxFailures /\ Goto(l, "verify") /\ UNCHANGED <<ttl, faults>>
     \/ fails >= MaxFailures /\ ttl' = Window /\ UNCHANGED <<login, faults>>
  /\ UNCHANGED <<fails, recent>>

\* Allowed: a counter that cannot be read allows.
Check(l) ==
  /\ login[l] = "idle"
  /\ \/ fails < MaxFailures /\ Goto(l, "verify") /\ UNCHANGED faults
     \/ fails >= MaxFailures /\ Fault /\ Goto(l, "verify")
  /\ UNCHANGED <<fails, ttl, recent>>

\* Unknown address, unknown user and wrong password are recorded alike; a
\* disabled account with the right password is not.
Verify(l) ==
  /\ login[l] = "verify"
  /\ \/ Goto(l, "record") /\ recent' = [a \in Ages |-> recent[a] + 1]
     \/ Goto(l, "reset") /\ UNCHANGED recent
     \/ Goto(l, "idle") /\ UNCHANGED recent
  /\ UNCHANGED <<fails, ttl, faults>>

\* Mutant: the window starts on the first failure, as the comment has it.
StartsOnFirst == IF fails = 0 THEN Window ELSE ttl

\* EXPIRE renews the time to live with every failure.
Renewed == Window

\* RecordFailure: INCR and EXPIRE in one transaction, or neither.
Record(l) ==
  /\ login[l] = "record"
  /\ Goto(l, "idle")
  /\ \/ fails' = fails + 1 /\ ttl' = Renewed /\ UNCHANGED faults
     \/ Fault /\ UNCHANGED <<fails, ttl>>
  /\ UNCHANGED recent

\* Reset after the right password.
Reset(l) ==
  /\ login[l] = "reset"
  /\ Goto(l, "idle")
  /\ \/ /\ fails' = 0 /\ ttl' = 0
        /\ recent' = [a \in Ages |-> 0]
        /\ UNCHANGED faults
     \/ Fault /\ UNCHANGED <<fails, ttl, recent>>

Tick ==
  /\ ttl' = IF ttl = 0 THEN 0 ELSE ttl - 1
  /\ fails' = IF ttl <= 1 THEN 0 ELSE fails
  /\ recent' = [a \in Ages |-> IF a = 0 THEN 0 ELSE recent[a - 1]]
  /\ UNCHANGED <<login, faults>>

Step(l) == Check(l) \/ Verify(l) \/ Record(l) \/ Reset(l)

Next == Tick \/ \E l \in Logins : Step(l)

Spec == Init /\ [][Next]_vars

\* Time passes, and an attempt that has begun ends.
FairSpec == /\ Spec /\ WF_vars(Tick)
            /\ \A l \in Logins : WF_vars(Verify(l) \/ Record(l) \/ Reset(l))

-----------------------------------------------------------------------------

\* In any stretch of one window, wherever it begins, the wrong guesses since
\* the owner last signed in are at most MaxFailures, plus the other attempts
\* that had passed the check when the last failure was counted, plus one for
\* each failed Redis command (Allowed, RecordFailure).
GuessesBounded == \A a \in Ages :
                    recent[a] <= MaxFailures - 1 + Cardinality(Logins) + faults

\* A lock ends: attempts on a locked identifier do not prolong it for ever.
LockEnds == (fails >= MaxFailures) ~> (fails < MaxFailures)
=============================================================================
