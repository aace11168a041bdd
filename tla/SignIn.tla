------------------------------- MODULE SignIn -------------------------------
(***************************************************************************)
(* Registration, e-mail verification and password login of one address     *)
(* (routes/auth.ts, services/auth/otpService.ts).  Every request reads the *)
(* user row once, computes (bcrypt is slow), and writes; nothing orders    *)
(* requests among each other.  A code is a number in order of issue.       *)
(***************************************************************************)
EXTENDS Integers, FiniteSets

CONSTANTS
    Reqs,           \* requests that may be in flight at once
    MaxAttempts,    \* OTP_MAX_ATTEMPTS
    MaxFailed,      \* MAX_FAILED_LOGIN_ATTEMPTS
    MaxCodes, MaxSent   \* bounds: codes issued, requests sent

SignInAssumption ==
    /\ MaxAttempts \in Nat \ {0} /\ MaxFailed \in Nat \ {0}
    /\ MaxCodes \in Nat /\ MaxSent \in Nat /\ IsFiniteSet(Reqs)

VARIABLES
    user,      \* the row
    codes,     \* codes issued so far
    http,      \* the requests in flight
    sentReqs,
    tried,     \* history: wrong guesses compared with each code
    signedIn   \* history: a session was created

signInVars == <<user, codes, http, sentReqs, tried, signedIn>>

NoCode == 0
NoUser == [exists |-> FALSE, verified |-> FALSE, code |-> NoCode, live |-> FALSE, attempts |-> 0,
           justSent |-> FALSE, failed |-> 0, locked |-> FALSE]
NewUser == [NoUser EXCEPT !.exists = TRUE]
Off == [pc |-> "idle", kind |-> "none", right |-> FALSE, read |-> NoUser]

Init ==
    /\ user = NoUser /\ codes = 0 /\ sentReqs = 0 /\ signedIn = FALSE
    /\ http = [q \in Reqs |-> Off]
    /\ tried = [k \in 1..MaxCodes |-> 0]

Respond(q) == http' = [http EXCEPT ![q] = Off]
Then(q, pc) == http' = [http EXCEPT ![q].pc = pc]

(* A request arrives and reads the row.  "right" is whether the code or    *)
(* the password the client sends is the right one for that row.            *)
Receive(q, kind, right) ==
    /\ http[q].pc = "idle" /\ sentReqs < MaxSent
    /\ sentReqs' = sentReqs + 1
    /\ http' = [http EXCEPT ![q] = [pc |-> kind, kind |-> kind, right |-> right, read |-> user]]
    /\ UNCHANGED <<user, codes, tried, signedIn>>

MaySend(u) == u.exists /\ ~u.verified /\ ~u.justSent

-----------------------------------------------------------------------------
(* POST /register: a new account, a repeated registration that resumes     *)
(* verification, or a refusal.                                             *)
Register(q) ==
    /\ http[q].pc = "register"
    /\ LET u == http[q].read
       IN  \/ ~u.exists /\ Then(q, "createUser")
           \/ MaySend(u) /\ Then(q, "issue")
           \/ u.exists /\ ~MaySend(u) /\ Respond(q)
    /\ UNCHANGED <<user, codes, sentReqs, tried, signedIn>>

(* The transaction; the unique address refuses a second account.           *)
CreateUser(q) ==
    /\ http[q].pc = "createUser"
    /\ IF user.exists THEN Respond(q) /\ UNCHANGED user
       ELSE user' = NewUser /\ http' = [http EXCEPT ![q].pc = "issue", ![q].kind = "created"]
    /\ UNCHANGED <<codes, sentReqs, tried, signedIn>>

(* issueAndSendOtp: the hash of a new code, its expiry and fresh attempts  *)
(* in the row (an error if the account is gone), then the mail.            *)
IssueOtp(q) ==
    /\ http[q].pc = "issue"
    /\ IF ~user.exists THEN Respond(q) /\ UNCHANGED <<user, codes>>
       ELSE /\ codes < MaxCodes
            /\ codes' = codes + 1
            /\ user' = [user EXCEPT !.code = codes + 1, !.live = TRUE, !.attempts = 0, !.justSent = TRUE]
            /\ Then(q, "mail")
    /\ UNCHANGED <<sentReqs, tried, signedIn>>

(* A mail that fails (or seems to) rolls a registration back.              *)
SendMail(q) ==
    /\ http[q].pc = "mail"
    /\ \/ Respond(q)
       \/ Then(q, IF http[q].kind = "created" THEN "rollback" ELSE "answer")
    /\ UNCHANGED <<user, codes, sentReqs, tried, signedIn>>

(* user.delete by id, its own errors ignored.                              *)
RollBack(q) ==
    /\ http[q].pc = "rollback"
    /\ user' \in {NoUser, user}
    /\ Respond(q)
    /\ UNCHANGED <<codes, sentReqs, tried, signedIn>>

(* POST /resend-otp.                                                       *)
ResendOtp(q) ==
    /\ http[q].pc = "resend"
    /\ IF MaySend(http[q].read) THEN Then(q, "issue") ELSE Respond(q)
    /\ UNCHANGED <<user, codes, sentReqs, tried, signedIn>>

-----------------------------------------------------------------------------
(* POST /verify-email: the row as read has a live code with attempts left. *)
MayGuess(u) == /\ u.exists /\ ~u.verified /\ u.code # NoCode /\ u.live
               /\ u.attempts < MaxAttempts

VerifyEmail(q) ==
    /\ http[q].pc = "verify"
    /\ IF ~MayGuess(http[q].read) THEN Respond(q) /\ UNCHANGED tried
       ELSE IF http[q].right THEN Then(q, "verified") /\ UNCHANGED tried
       ELSE /\ tried' = [tried EXCEPT ![http[q].read.code] = @ + 1]
            /\ Then(q, "countAttempt")
    /\ UNCHANGED <<user, codes, sentReqs, signedIn>>

(* Mutant: the attempts read before, plus one.                             *)
CountedAttempt(q) == [user EXCEPT !.attempts = http[q].read.attempts + 1]

(* increment: 1, in the database.                                          *)
IncrementAttempts(q) == [user EXCEPT !.attempts = @ + 1]

CountAttempt(q) ==
    /\ http[q].pc = "countAttempt"
    /\ user' = IF user.exists THEN IncrementAttempts(q) ELSE user
    /\ Respond(q)
    /\ UNCHANGED <<codes, sentReqs, tried, signedIn>>

MarkVerified(q) ==
    /\ http[q].pc = "verified"
    /\ IF user.exists
         THEN /\ user' = [user EXCEPT !.verified = TRUE, !.code = NoCode, !.live = FALSE, !.attempts = 0,
                                      !.failed = 0, !.locked = FALSE]
              /\ signedIn' = TRUE
         ELSE UNCHANGED <<user, signedIn>>
    /\ Respond(q)
    /\ UNCHANGED <<codes, sentReqs, tried>>

-----------------------------------------------------------------------------
(* POST /login: a locked account is refused; then the password decides.    *)
Login(q) ==
    /\ http[q].pc = "login"
    /\ LET u == http[q].read
       IN  \/ (~u.exists \/ u.locked) /\ Respond(q)
           \/ u.exists /\ ~u.locked /\ ~http[q].right /\ Then(q, "countFailure")
           \/ u.exists /\ ~u.locked /\ http[q].right /\ Then(q, "clearFailures")
    /\ UNCHANGED <<user, codes, sentReqs, tried, signedIn>>

(* Mutant: the lockout comes one failure late.                             *)
LocksLate(failed) == failed > MaxFailed

Locks(failed) == failed >= MaxFailed

(* From the failures read before, plus one; the last one locks and starts  *)
(* over, any other writes lockoutUntil away.                               *)
CountFailure(q) ==
    LET failed == http[q].read.failed + 1
    IN  /\ http[q].pc = "countFailure"
        /\ user' = IF ~user.exists THEN user
                   ELSE [user EXCEPT !.failed = IF Locks(failed) THEN 0 ELSE failed,
                                     !.locked = Locks(failed)]
        /\ Respond(q)
        /\ UNCHANGED <<codes, sentReqs, tried, signedIn>>

(* A right password clears both; an unverified account gets a code instead *)
(* of a session.                                                           *)
ClearFailures(q) ==
    /\ http[q].pc = "clearFailures"
    /\ user' = IF user.exists THEN [user EXCEPT !.failed = 0, !.locked = FALSE] ELSE user
    /\ LET u == http[q].read
       IN  IF ~user.exists \/ (~u.verified /\ ~MaySend(u)) THEN Respond(q) /\ UNCHANGED signedIn
           ELSE IF ~u.verified THEN Then(q, "issue") /\ UNCHANGED signedIn
           ELSE Respond(q) /\ signedIn' = TRUE
    /\ UNCHANGED <<codes, sentReqs, tried>>

(* After a failed mail only the answer is left.                            *)
Answer(q) ==
    /\ http[q].pc = "answer"
    /\ Respond(q)
    /\ UNCHANGED <<user, codes, sentReqs, tried, signedIn>>

-----------------------------------------------------------------------------
(* Time: a code expires, the 60 s between two mails or a lockout passes.   *)
TimePasses ==
    /\ \/ user.live /\ user' = [user EXCEPT !.live = FALSE]
       \/ user.justSent /\ user' = [user EXCEPT !.justSent = FALSE]
       \/ user.locked /\ user' = [user EXCEPT !.locked = FALSE]
    /\ UNCHANGED <<codes, http, sentReqs, tried, signedIn>>

Next ==
    \/ \E q \in Reqs :
          \/ \E kind \in {"register", "resend"} : Receive(q, kind, FALSE)
          \/ \E kind \in {"verify", "login"}, right \in BOOLEAN : Receive(q, kind, right)
          \/ Register(q) \/ CreateUser(q) \/ IssueOtp(q) \/ SendMail(q) \/ RollBack(q) \/ ResendOtp(q)
          \/ VerifyEmail(q) \/ CountAttempt(q) \/ MarkVerified(q)
          \/ Login(q) \/ CountFailure(q) \/ ClearFailures(q) \/ Answer(q)
    \/ TimePasses

Spec == Init /\ [][Next]_signInVars

-----------------------------------------------------------------------------
UserType ==
    [exists : BOOLEAN, verified : BOOLEAN, code : 0..MaxCodes, live : BOOLEAN, attempts : Nat,
     justSent : BOOLEAN, failed : 0..(MaxFailed - 1), locked : BOOLEAN]

(* Every variable keeps its shape; the failures stay below the lockout.    *)
TypeOK ==
    /\ user \in UserType /\ codes \in 0..MaxCodes /\ sentReqs \in 0..MaxSent /\ signedIn \in BOOLEAN
    /\ tried \in [1..MaxCodes -> Nat]
    /\ http \in [Reqs -> [pc : {"idle", "register", "createUser", "issue", "mail", "rollback", "resend",
                                "verify", "countAttempt", "verified", "login", "countFailure",
                                "clearFailures", "answer"},
                          kind : {"none", "register", "created", "resend", "verify", "login"},
                          right : BOOLEAN, read : UserType]]

(* auth.ts:343-357: the attempts are checked on the row as read and counted*)
(* after a slow comparison, and a resend starts the count anew.  Guesses   *)
(* that overlap slip through, but only as many as can be in flight at      *)
(* once: the increment happens in the database and loses none.             *)
OtpGuessesBounded ==
    \A k \in 1..MaxCodes : tried[k] <= MaxAttempts + Cardinality(Reqs) - 1
=============================================================================
