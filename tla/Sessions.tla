------------------------------ MODULE Sessions ------------------------------
(***************************************************************************)
(* Sign-up, sign-in and sessions of one user (apps/accounts/services.py).   *)
(* But for the sign-up none of these services opens a transaction: every    *)
(* statement commits by itself, other requests run between any two of them,  *)
(* and a worker may die there.                                              *)
(* Passwords, hashes and devices are left out, and so is the clock: tokens  *)
(* expire at any time.  A request may be refused at any time, a login for    *)
(* its password or the failures before it, a code for its age: the          *)
(* LoginAttempt it may leave is nothing that the rest depends on.           *)
(***************************************************************************)
EXTENDS Integers, Sequences

CONSTANTS
  Client,          \* workers serving the user's requests
  CodesPerWindow,  \* codes a phone gets in fifteen minutes (5)
  MaxAttempts,     \* OTP_MAX_ATTEMPTS
  MaxTokens        \* bound on the tokens

ASSUME SessionsAssumption ==
  {CodesPerWindow, MaxAttempts, MaxTokens} \subseteq Nat \ {0}

VARIABLES
  user,     \* the phone number has a User
  tokens,   \* AuthToken rows in the order of creation
  codes,    \* OTPCode rows of one purpose in the order of creation
  request   \* what each worker is doing

sessions == <<user, tokens, codes, request>>

Token == [kind : {"ACCESS", "REFRESH"}, predecessor : Nat,
          revoked : BOOLEAN, expired : BOOLEAN]
Code == [attempts : 0..MaxAttempts, consumed : BOOLEAN]

Idle == [does |-> "nothing"]

SessionsInit ==
  /\ user = FALSE
  /\ tokens = <<>>
  /\ codes = <<>>
  /\ request = [c \in Client |-> Idle]

Goes(c, r) == request' = [request EXCEPT ![c] = r]
Is(c, does) == request[c].does = does
Active(t) == ~t.revoked /\ ~t.expired

\* What is left of a request that may sign in: two rows, one after the other.
Issuing(predecessor) == [does |-> "issue_access", predecessor |-> predecessor]
-----------------------------------------------------------------------------
\* request_otp, one row; that two requests may both count the rows of the window
\* before either adds its own changes only how many there are.
SendCode ==
  /\ Len(codes) < CodesPerWindow
  /\ codes' = Append(codes, [attempts |-> 0, consumed |-> FALSE])
  /\ UNCHANGED <<user, tokens, request>>

\* Mutant: the attempts are not looked at.
OpenUnlessConsumed(code) == ~code.consumed

\* The guards of verify_otp on a code it read.
Open(code) == ~code.consumed /\ code.attempts < MaxAttempts

\* verify_otp reads the newest code, for itself or for a login ...
ReadCode(c, login) ==
  /\ request[c] = Idle
  /\ codes # <<>>
  /\ Open(codes[Len(codes)])
  /\ Goes(c, [does |-> "verify", login |-> login, code |-> Len(codes),
              attempts |-> codes[Len(codes)].attempts])
  /\ UNCHANGED <<user, tokens, codes>>

VerifyOtp(c) == ReadCode(c, FALSE)
LoginWithOtp(c) == ReadCode(c, TRUE)

\* Mutant: save() without update_fields, every column of the copy.
SavedWhole(row, attempts, right) ==
  [row EXCEPT !.attempts = attempts, !.consumed = right]

\* save(update_fields): attempts, and consumed_at when the code was right.
Saved(row, attempts, right) ==
  [row EXCEPT !.attempts = attempts, !.consumed = right \/ @]

\* ... and counts the attempt on the copy it read; a code may be right though
\* nobody has an account, and is then used up without a login.
TryCode(c) ==
  /\ Is(c, "verify")
  /\ \E right \in BOOLEAN :
       /\ codes' = [codes EXCEPT ![request[c].code] =
            Saved(@, request[c].attempts + 1, right)]
       /\ Goes(c, IF right /\ request[c].login /\ user THEN Issuing(0) ELSE Idle)
  /\ UNCHANGED <<user, tokens>>

\* register_customer, in a transaction of its own; the session follows.
Register(c) ==
  /\ request[c] = Idle
  /\ ~user
  /\ user' = TRUE
  /\ Goes(c, Issuing(0))
  /\ UNCHANGED <<tokens, codes>>

\* login by password
Login(c) ==
  /\ request[c] = Idle
  /\ user
  /\ Goes(c, Issuing(0))
  /\ UNCHANGED <<user, tokens, codes>>

\* issue_token_pair
Issue(kind, predecessor) ==
  /\ Len(tokens) < MaxTokens
  /\ tokens' = Append(tokens, [kind |-> kind, predecessor |-> predecessor,
                               revoked |-> FALSE, expired |-> FALSE])

IssueAccess(c) ==
  /\ Is(c, "issue_access")
  /\ Issue("ACCESS", 0)
  /\ Goes(c, [request[c] EXCEPT !.does = "issue_refresh"])
  /\ UNCHANGED <<user, codes>>

IssueRefresh(c) ==
  /\ Is(c, "issue_refresh")
  /\ Issue("REFRESH", request[c].predecessor)
  /\ Goes(c, Idle)
  /\ UNCHANGED <<user, codes>>

\* refresh_access reads a refresh token that is active ...
ReadRefresh(c) ==
  /\ request[c] = Idle
  /\ \E n \in DOMAIN tokens :
       /\ tokens[n].kind = "REFRESH" /\ Active(tokens[n])
       /\ Goes(c, [does |-> "revoke", token |-> n])
  /\ UNCHANGED <<user, tokens, codes>>

\* ... and revokes it before it issues the next pair.
Revoke(c) ==
  /\ Is(c, "revoke")
  /\ tokens' = [tokens EXCEPT ![request[c].token].revoked = TRUE]
  /\ Goes(c, Issuing(request[c].token))
  /\ UNCHANGED <<user, codes>>

\* A request by the bearer of an access token, to log out.
ResolveToken(c) ==
  /\ request[c] = Idle
  /\ \E n \in DOMAIN tokens : tokens[n].kind = "ACCESS" /\ Active(tokens[n])
  /\ Goes(c, [does |-> "log_out"])
  /\ UNCHANGED <<user, tokens, codes>>

\* revoke_user_tokens, one statement
Revoked(t) == [t EXCEPT !.revoked = @ \/ ~t.expired]

Logout(c) ==
  /\ Is(c, "log_out")
  /\ tokens' = [n \in DOMAIN tokens |-> Revoked(tokens[n])]
  /\ Goes(c, Idle)
  /\ UNCHANGED <<user, codes>>

Fail(c) ==
  /\ request[c] # Idle
  /\ Goes(c, Idle)
  /\ UNCHANGED <<user, tokens, codes>>

\* Tokens of one kind live equally long, so the oldest expires first.
Expire ==
  /\ \E n \in DOMAIN tokens :
       /\ \A older \in 1..(n - 1) :
            tokens[older].kind = tokens[n].kind => tokens[older].expired
       /\ ~tokens[n].expired
       /\ tokens' = [tokens EXCEPT ![n].expired = TRUE]
  /\ UNCHANGED <<user, codes, request>>

SessionsNext ==
  \/ SendCode \/ Expire
  \/ \E c \in Client :
       \/ VerifyOtp(c) \/ LoginWithOtp(c) \/ TryCode(c)
       \/ Register(c) \/ Login(c) \/ IssueAccess(c) \/ IssueRefresh(c)
       \/ ReadRefresh(c) \/ Revoke(c)
       \/ ResolveToken(c) \/ Logout(c)
       \/ Fail(c)
-----------------------------------------------------------------------------
SessionsTypeOK ==
  /\ user \in BOOLEAN
  /\ tokens \in Seq(Token)
  /\ codes \in Seq(Code)

\* Whatever requests run at once and wherever they end, what was used up stays
\* used up: a refresh token that was rotated into another is revoked, none comes
\* back once revoked, and a code that was consumed is never open again through
\* the write of an attempt that read it earlier.
SpentStaysSpent ==
  /\ [](\A n \in DOMAIN tokens :
          LET p == tokens[n].predecessor
          IN p # 0 => tokens[n].kind = "REFRESH" /\ tokens[p].revoked)
  /\ [][/\ \A n \in DOMAIN tokens : tokens[n].revoked => tokens'[n].revoked
        /\ \A n \in DOMAIN codes : codes[n].consumed => codes'[n].consumed]_<<tokens, codes>>
=============================================================================
