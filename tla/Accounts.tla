----------------------------- MODULE Accounts -----------------------------
(***************************************************************************)
(* The operator account (internal/auth, api/auth.go, tnp's account.go):    *)
(* setup, sign-in with its limiter and lockout, refresh, the change of the *)
(* name or the password, and the reset by tnp beside the running panel.    *)
(* Hashing takes time, so every request works on the row it read before.   *)
(* A password is a number; a refusal by address can happen to any attempt. *)
(***************************************************************************)
EXTENDS Integers, FiniteSets

CONSTANTS Clients, Limit,   \* security.login_rate_limit_per_minute
          Passwords, MaxVersion    \* bound: writes of the password

VARIABLES user,        \* the row, NoUser before setup
          accounts,    \* rows ever inserted
          hits,        \* the limiter's attempts, by half minutes of age
          jobs,        \* client -> the request it is making
          sessions,    \* sessions issued: [version, password: history, by]
          checked      \* history: password checks since the last success, by age

vars == <<user, accounts, hits, jobs, sessions, checked>>

NoUser == [password |-> 0, version |-> 0, failed |-> 0, locked |-> 0]
Idle == [at |-> "idle"]
Ages == {0, 1}                        \* a minute is two ticks
NoHits == [a \in Ages |-> 0]
Recent(h) == h[0] + h[1]
Count(h) == [h EXCEPT ![0] = IF @ > Limit THEN @ ELSE @ + 1]
Become(c, job) == jobs' = [jobs EXCEPT ![c] = job]
Accepted(s) == s.version = user.version

Init == user = NoUser /\ accounts = 0 /\ hits = NoHits /\ sessions = {}
        /\ jobs = [c \in Clients |-> Idle] /\ checked = NoHits

(* Setup asks for an account, hashes, and asks again in its transaction.   *)
AskSetup(c, p) == /\ jobs[c] = Idle /\ user = NoUser
                  /\ Become(c, [at |-> "setup", password |-> p])
                  /\ UNCHANGED <<user, accounts, hits, sessions, checked>>

Setup(c) == /\ jobs[c].at = "setup"
            /\ IF user # NoUser THEN UNCHANGED <<user, accounts, sessions>>
               ELSE LET p == jobs[c].password
                    IN /\ user' = [password |-> p, version |-> 1, failed |-> 0, locked |-> 0]
                       /\ accounts' = accounts + 1
                       /\ sessions' = sessions \cup {[version |-> 1, password |-> p, by |-> "login"]}
            /\ Become(c, Idle) /\ UNCHANGED <<hits, checked>>

(* A sign-in: the row, the lock, the limiter, then the password's check.   *)
Authenticate(c, p) ==
    /\ jobs[c] = Idle /\ user # NoUser /\ user.locked = 0
    /\ hits' = Count(hits)
    /\ \/ Recent(hits) < Limit
          /\ checked' = Count(checked)
          /\ Become(c, [at |-> "check", password |-> p, row |-> user])
       \/ UNCHANGED <<checked, jobs>>            \* over the limit, or the address is
    /\ UNCHANGED <<user, accounts, sessions>>

RecordFailure(c) ==
    /\ jobs[c].at = "check" /\ jobs[c].password # jobs[c].row.password
    /\ LET failures == jobs[c].row.failed + 1
       IN user' = IF failures >= Limit THEN [user EXCEPT !.failed = 0, !.locked = 2]
                  ELSE [user EXCEPT !.failed = failures]
    /\ Become(c, Idle)
    /\ UNCHANGED <<accounts, hits, sessions, checked>>

RecordSuccess(c) ==
    /\ jobs[c].at = "check" /\ jobs[c].password = jobs[c].row.password
    /\ user' = [user EXCEPT !.failed = 0, !.locked = 0]
    /\ hits' = NoHits /\ checked' = NoHits
    /\ Become(c, [jobs[c] EXCEPT !.at = "issue"])
    /\ UNCHANGED <<accounts, sessions>>

\* Mutant: the session is issued for the row as it is now.
IssueForNow(c) == /\ jobs[c].at = "issue"
                  /\ sessions' = sessions \cup {[version |-> user.version, by |-> "login",
                                                 password |-> jobs[c].row.password]}
                  /\ Become(c, Idle) /\ UNCHANGED <<user, accounts, hits, checked>>

(* A session carries the version of the row the password was checked on.   *)
IssueSession(c) == /\ jobs[c].at = "issue"
                   /\ sessions' = sessions \cup {[version |-> jobs[c].row.version, by |-> "login",
                                                  password |-> jobs[c].row.password]}
                   /\ Become(c, Idle) /\ UNCHANGED <<user, accounts, hits, checked>>

(* A refresh resolves its token and issues a session for the row it read.  *)
ResolveToken(c, s) == /\ jobs[c] = Idle /\ Accepted(s)
                      /\ Become(c, [at |-> "refresh", session |-> s])
                      /\ UNCHANGED <<user, accounts, hits, sessions, checked>>

Refresh(c) == /\ jobs[c].at = "refresh"
              /\ sessions' = sessions \cup {jobs[c].session}
              /\ Become(c, Idle) /\ UNCHANGED <<user, accounts, hits, checked>>

(* A change resolves the session and verifies the current password on the  *)
(* row it read; a new name or password is written, the row read again, and *)
(* a session issued for that reading. With both, the password's check is   *)
(* repeated; the renaming in between changes nothing modelled.             *)
UpdateMe(c, s, p) == /\ jobs[c] = Idle /\ Accepted(s) /\ s.password = user.password
                     /\ Become(c, [at |-> "change", password |-> p])
                     /\ UNCHANGED <<user, accounts, hits, sessions, checked>>

WritePassword(p) == /\ user.version < MaxVersion
                    /\ user' = [user EXCEPT !.password = p, !.version = @ + 1]

ChangePassword(c) == /\ jobs[c].at = "change" /\ WritePassword(jobs[c].password)
                     /\ Become(c, [at |-> "reread"])
                     /\ UNCHANGED <<accounts, hits, sessions, checked>>

ChangeUsername(c) == /\ jobs[c].at = "change"
                     /\ Become(c, [at |-> "reread"])
                     /\ UNCHANGED <<user, accounts, hits, sessions, checked>>

UserByID(c) == /\ jobs[c].at = "reread"
               /\ sessions' = sessions \cup {[version |-> user.version, by |-> "change",
                                              password |-> user.password]}
               /\ Become(c, Idle) /\ UNCHANGED <<user, accounts, hits, checked>>

(* tnp writes the row beside the panel.                                    *)
ResetPassword(p) == /\ user # NoUser /\ user.version < MaxVersion
                    /\ user' = [password |-> p, version |-> user.version + 1,
                                failed |-> 0, locked |-> 0]
                    /\ UNCHANGED <<accounts, hits, jobs, sessions, checked>>

Tick == /\ user' = [user EXCEPT !.locked = IF @ = 0 THEN 0 ELSE @ - 1]
        /\ hits' = [h \in Ages |-> IF h = 0 THEN 0 ELSE hits[0]]
        /\ checked' = [h \in Ages |-> IF h = 0 THEN 0 ELSE checked[0]]
        /\ UNCHANGED <<accounts, jobs, sessions>>

(* The limiter lives in memory; the row and the signing key are kept.      *)
Restart == /\ jobs' = [c \in Clients |-> Idle] /\ hits' = NoHits /\ checked' = NoHits
           /\ UNCHANGED <<user, accounts, sessions>>

Next == \/ Tick \/ Restart
        \/ \E p \in Passwords : ResetPassword(p)
        \/ \E c \in Clients :
             \/ Setup(c) \/ RecordFailure(c) \/ RecordSuccess(c) \/ IssueSession(c)
             \/ Refresh(c) \/ ChangePassword(c) \/ ChangeUsername(c) \/ UserByID(c)
             \/ \E p \in Passwords : AskSetup(c, p) \/ Authenticate(c, p)
             \/ \E s \in sessions : \/ ResolveToken(c, s)
                                    \/ \E p \in Passwords : UpdateMe(c, s, p)

-----------------------------------------------------------------------------
(* However requests, changes and resets interleave: a session opened by    *)
(* signing in is accepted only while the password it was opened with is in *)
(* force; no minute without a success sees more password checks than the   *)
(* limit, though the failure count loses concurrent updates; and setup     *)
(* makes one account.                                                      *)
SessionsFollowThePassword ==
    \A s \in sessions : (s.by = "login" /\ Accepted(s)) => s.password = user.password
Throttled == Recent(checked) <= Limit
AccountIsGuarded == SessionsFollowThePassword /\ Throttled /\ accounts <= 1

-----------------------------------------------------------------------------
(* Why: whatever was read of the row or issued for it is of a version no   *)
(* newer than the row's, and of the row's password when it is the row's;   *)
(* and the limiter has counted every check that was made.                  *)
Rows == [password : Passwords \cup {0}, version : Nat, failed : Nat, locked : Nat]
OfTheRow(s) == s.version \in Nat /\ s.version <= user.version
               /\ (s.version = user.version => s.password = user.password)
JobKnown(job) ==
    /\ job.at \in {"setup", "change"} => job.password \in Passwords
    /\ job.at \in {"check", "issue"} =>
          /\ job \in [at : {"check", "issue"}, password : Passwords, row : Rows]
          /\ OfTheRow(job.row)
          /\ job.at = "issue" => job.password = job.row.password
    /\ job.at = "refresh" => job.session \in sessions

AccountKnown ==
    /\ user \in Rows /\ jobs = [c \in Clients |-> jobs[c]] /\ \A c \in Clients : JobKnown(jobs[c])
    /\ \A s \in sessions : OfTheRow(s)
    /\ accounts \in {0, 1} /\ (user.version = 0 => accounts = 0)
LimiterSound ==
    /\ hits \in [Ages -> Nat] /\ checked \in [Ages -> Nat]
    /\ \A a \in Ages : checked[a] <= hits[a]
    /\ Throttled
AccountsInv == AccountKnown /\ LimiterSound
=============================================================================
