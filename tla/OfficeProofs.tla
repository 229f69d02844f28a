---------------------------- MODULE OfficeProofs ----------------------------
(***************************************************************************)
(* Proofs about module Office: for every desk its inductive invariant and   *)
(* the property of its service that follows from it, and at the end that    *)
(* every variable keeps its type.  A desk stands still while another is     *)
(* busy, so that each invariant is one of the whole office.                 *)
(***************************************************************************)
EXTENDS Office, SumTheorems
-----------------------------------------------------------------------------
(***************************************************************************)
(* A step is one of one desk, and what the others have stands still.       *)
(***************************************************************************)
LEMMA StepsOfDesks ==
  ASSUME [Next]_vars
  PROVE  /\ SessionsNext \/ UNCHANGED sessions
         /\ ReconciliationNext \/ UNCHANGED books
         /\ CalendarNext \/ UNCHANGED schedule
         /\ ListsNext \/ UNCHANGED lists
         /\ RiskNext \/ UNCHANGED risk
         /\ LimiterNext \/ UNCHANGED limiter
         /\ VerificationNext \/ UNCHANGED ledger
         /\ \/ FilesNext
            \/ UNCHANGED files /\ (AnyEvent \/ Dispatch \/ UNCHANGED outboxVars)
<1>1. CASE UNCHANGED vars
  BY <1>1 DEF vars, books, queries, schedule
<1>2. CASE AtDispatch
  BY <1>2 DEF AtDispatch, books, queries, schedule
<1>3. CASE AtFiles
  BY <1>3 DEF AtFiles, books, queries, schedule
<1>4. CASE AtSessions
  BY <1>4 DEF AtSessions, books, queries, schedule
<1>5. CASE AtReconciliation
  BY <1>5 DEF AtReconciliation, queries, schedule
<1>6. CASE AtCalendar
  BY <1>6 DEF AtCalendar, books, CalendarNext
<1>7. CASE AtLists
  BY <1>7 DEF AtLists, books
<1>8. CASE AtRisk
  BY <1>8 DEF AtRisk, books
<1>9. CASE AtLimiter
  BY <1>9 DEF AtLimiter, books
<1>10. CASE AtVerification
  BY <1>10 DEF AtVerification, books
<1>. QED
  BY <1>1, <1>2, <1>3, <1>4, <1>5, <1>6, <1>7, <1>8, <1>9, <1>10 DEF Next
-----------------------------------------------------------------------------
(***************************************************************************)
(* Sessions.                                                               *)
(***************************************************************************)
\* What a request goes by is there, and is revoked if its tokens replace it.
RequestOK(r) ==
  /\ r.does = "verify" => r.code \in DOMAIN codes /\ r.attempts \in 0..(MaxAttempts - 1)
  /\ r.does = "revoke" => r.token \in DOMAIN tokens
  /\ r.does \in {"issue_access", "issue_refresh"} =>
       /\ r.predecessor \in Nat
       /\ r.predecessor # 0 => /\ r.predecessor \in DOMAIN tokens
                               /\ tokens[r.predecessor].revoked

RotatedOK ==
  \A n \in DOMAIN tokens :
    tokens[n].predecessor # 0 =>
      /\ tokens[n].kind = "REFRESH"
      /\ tokens[n].predecessor \in DOMAIN tokens
      /\ tokens[tokens[n].predecessor].revoked

SessionsInv ==
  /\ SessionsTypeOK
  /\ DOMAIN request = Client
  /\ \A c \in Client : RequestOK(request[c])
  /\ RotatedOK

\* What is used up stays so.
Spends ==
  /\ DOMAIN tokens \subseteq DOMAIN tokens'
  /\ DOMAIN codes \subseteq DOMAIN codes'
  /\ \A n \in DOMAIN tokens : tokens[n].revoked => tokens'[n].revoked
  /\ \A n \in DOMAIN codes : codes[n].consumed => codes'[n].consumed

\* Where nothing comes back, the other requests are as good as they were.
LEMMA RequestsStay ==
  ASSUME SessionsInv, Spends, NEW c \in Client, NEW r, Goes(c, r), RequestOK(r)'
  PROVE  DOMAIN request' = Client /\ \A d \in Client : RequestOK(request[d])'
<1>1. DOMAIN request' = Client /\ request'[c] = r
  BY DEF SessionsInv, Goes
<1>2. ASSUME NEW d \in Client, d # c
      PROVE  RequestOK(request[d])'
  <2>1. request'[d] = request[d] /\ RequestOK(request[d])
    BY <1>2 DEF SessionsInv, Goes
  <2>. QED
    BY <2>1 DEF RequestOK, Spends
<1>. QED
  BY <1>1, <1>2 DEF RequestOK

\* A client that asked for nothing goes by nothing.
LEMMA NothingAsked == RequestOK(Idle)
  BY DEF RequestOK, Idle

\* Tokens and codes stand still.
LEMMA TokensStand ==
  ASSUME SessionsInv, UNCHANGED <<tokens, codes>>
  PROVE  Spends /\ RotatedOK' /\ (user' \in BOOLEAN => SessionsTypeOK')
  BY DEF SessionsInv, Spends, RotatedOK, SessionsTypeOK

\* A token that replaces none, or a revoked refresh token, brings nothing back.
LEMMA TokenIssued ==
  ASSUME SessionsInv, NEW kind \in {"ACCESS", "REFRESH"}, NEW p \in Nat, Issue(kind, p),
         p # 0 => kind = "REFRESH" /\ p \in DOMAIN tokens /\ tokens[p].revoked,
         UNCHANGED <<user, codes>>
  PROVE  Spends /\ RotatedOK' /\ SessionsTypeOK'
<1>. DEFINE t == [kind |-> kind, predecessor |-> p, revoked |-> FALSE, expired |-> FALSE]
<1>1. t \in Token /\ tokens' = Append(tokens, t) /\ tokens \in Seq(Token)
  BY DEF Token, Issue, SessionsInv, SessionsTypeOK
<1>2. t.kind = kind /\ t.predecessor = p
  OBVIOUS
<1>. HIDE DEF t
<1>3. /\ tokens' \in Seq(Token) /\ Len(tokens') = Len(tokens) + 1
      /\ DOMAIN tokens = 1..Len(tokens) /\ DOMAIN tokens' = 1..(Len(tokens) + 1)
      /\ Len(tokens) \in Nat
      /\ \A n \in DOMAIN tokens : tokens'[n] = tokens[n]
      /\ tokens'[Len(tokens) + 1] = t
  BY <1>1
<1>4. Spends
  BY <1>3 DEF Spends
<1>5. RotatedOK'
  BY <1>2, <1>3 DEF SessionsInv, RotatedOK
<1>6. SessionsTypeOK'
  BY <1>3 DEF SessionsInv, SessionsTypeOK
<1>. QED
  BY <1>4, <1>5, <1>6

\* A request that is over, or whose next step needs nothing.
LEMMA SessionsStep ==
  ASSUME SessionsInv, SessionsNext
  PROVE  SessionsInv' /\ Spends
<1>1. ASSUME SendCode PROVE SessionsInv' /\ Spends
  <2>1. /\ codes' \in Seq(Code) /\ DOMAIN codes \subseteq DOMAIN codes'
        /\ \A n \in DOMAIN codes : codes'[n] = codes[n]
    <3>1. codes \in Seq(Code) /\ [attempts |-> 0, consumed |-> FALSE] \in Code
      BY SessionsAssumption DEF SessionsInv, SessionsTypeOK, Code
    <3>. QED
      BY <1>1, <3>1 DEF SendCode
  <2>2. UNCHANGED <<user, tokens, request>>
    BY <1>1 DEF SendCode
  <2>3. \A c \in Client : RequestOK(request[c])'
    BY <2>1, <2>2 DEF SessionsInv, RequestOK
  <2>. QED
    BY <2>1, <2>2, <2>3 DEF SessionsInv, SessionsTypeOK, RotatedOK, Spends
<1>2. ASSUME Expire PROVE SessionsInv' /\ Spends
  <2>1. PICK n \in DOMAIN tokens : tokens' = [tokens EXCEPT ![n].expired = TRUE]
    BY <1>2 DEF Expire
  <2>2. UNCHANGED <<user, codes, request>>
    BY <1>2 DEF Expire
  <2>3. /\ tokens' \in Seq(Token) /\ DOMAIN tokens' = DOMAIN tokens
        /\ \A m \in DOMAIN tokens : /\ tokens'[m].revoked = tokens[m].revoked
                                    /\ tokens'[m].kind = tokens[m].kind
                                    /\ tokens'[m].predecessor = tokens[m].predecessor
    <3>1. tokens \in Seq(Token) /\ tokens[n] \in Token
      BY DEF SessionsInv, SessionsTypeOK
    <3>2. [tokens[n] EXCEPT !.expired = TRUE] \in Token
      BY <3>1 DEF Token
    <3>3. \A m \in DOMAIN tokens : tokens[m] \in Token
      BY <3>1
    <3>. QED
      BY <2>1, <3>1, <3>2, <3>3 DEF Token
  <2>4. \A c \in Client : RequestOK(request[c])'
    BY <2>2, <2>3 DEF SessionsInv, RequestOK
  <2>. QED
    BY <2>2, <2>3, <2>4 DEF SessionsInv, SessionsTypeOK, RotatedOK, Spends
<1>3. ASSUME NEW c \in Client, NEW r, Goes(c, r), RequestOK(r)',
             user' \in BOOLEAN, UNCHANGED <<tokens, codes>>
      PROVE  SessionsInv' /\ Spends
  <2>1. Spends /\ RotatedOK' /\ SessionsTypeOK'
    BY <1>3, TokensStand
  <2>. QED
    BY <1>3, <2>1, RequestsStay DEF SessionsInv
<1>4. user \in BOOLEAN
  BY DEF SessionsInv, SessionsTypeOK
<1>5. ASSUME NEW c \in Client, VerifyOtp(c) \/ LoginWithOtp(c)
      PROVE  SessionsInv' /\ Spends
  <2>1. PICK login \in BOOLEAN : ReadCode(c, login)
    BY <1>5 DEF VerifyOtp, LoginWithOtp
  <2>2. PICK r : /\ r = [does |-> "verify", login |-> login, code |-> Len(codes),
                         attempts |-> codes[Len(codes)].attempts]
                 /\ Goes(c, r)
    BY <2>1 DEF ReadCode
  <2>3. /\ codes # <<>> /\ codes[Len(codes)].attempts < MaxAttempts
        /\ UNCHANGED <<user, tokens, codes>>
    BY <2>1 DEF ReadCode, Open
  <2>4. codes \in Seq(Code) /\ Len(codes) \in DOMAIN codes /\ codes[Len(codes)] \in Code
    BY <2>3 DEF SessionsInv, SessionsTypeOK
  <2>5. RequestOK(r)'
    BY <2>2, <2>3, <2>4, SessionsAssumption DEF RequestOK, Code
  <2>. QED
    BY <1>3, <1>4, <2>2, <2>3, <2>5
<1>6. ASSUME NEW c \in Client, TryCode(c) PROVE SessionsInv' /\ Spends
  <2>1. PICK q : q = request[c]
    OBVIOUS
  <2>2. q.code \in DOMAIN codes /\ q.attempts \in 0..(MaxAttempts - 1)
    BY <1>6, <2>1 DEF TryCode, Is, SessionsInv, RequestOK
  <2>3. PICK right \in BOOLEAN :
          /\ codes' = [codes EXCEPT ![q.code] = Saved(@, q.attempts + 1, right)]
          /\ Goes(c, IF right /\ q.login /\ user THEN Issuing(0) ELSE Idle)
    BY <1>6, <2>1 DEF TryCode
  <2>4. UNCHANGED <<user, tokens>>
    BY <1>6 DEF TryCode
  <2>5. codes \in Seq(Code) /\ codes[q.code] \in Code
    BY <2>2 DEF SessionsInv, SessionsTypeOK
  <2>6. q.attempts + 1 \in 0..MaxAttempts
    BY <2>2, SessionsAssumption
  <2>7. /\ Saved(codes[q.code], q.attempts + 1, right) \in Code
        /\ codes[q.code].consumed => Saved(codes[q.code], q.attempts + 1, right).consumed
    BY <2>5, <2>6 DEF Saved, Code
  <2>8. /\ codes' \in Seq(Code) /\ DOMAIN codes' = DOMAIN codes
        /\ \A n \in DOMAIN codes : codes[n].consumed => codes'[n].consumed
    BY <2>2, <2>3, <2>5, <2>7
  <2>9. Spends /\ SessionsTypeOK' /\ RotatedOK'
    BY <2>4, <2>8 DEF SessionsInv, Spends, SessionsTypeOK, RotatedOK
  <2>10. PICK r \in {Issuing(0), Idle} : Goes(c, r)
    BY <2>3
  <2>11. RequestOK(r)'
    BY <2>10 DEF RequestOK, Issuing, Idle
  <2>. QED
    BY <2>9, <2>10, <2>11, RequestsStay DEF SessionsInv
<1>7. ASSUME NEW c \in Client, Register(c) \/ Login(c) PROVE SessionsInv' /\ Spends
  <2>1. RequestOK(Issuing(0))'
    BY DEF RequestOK, Issuing
  <2>2. Goes(c, Issuing(0)) /\ user' \in BOOLEAN /\ UNCHANGED <<tokens, codes>>
    BY <1>4, <1>7 DEF Register, Login
  <2>. QED
    BY <1>3, <2>1, <2>2
<1>8. ASSUME NEW c \in Client, IssueAccess(c) PROVE SessionsInv' /\ Spends
  <2>1. PICK q : q = request[c]
    OBVIOUS
  <2>2. RequestOK(q) /\ q.does = "issue_access" /\ c \in DOMAIN request
    BY <1>8, <2>1 DEF IssueAccess, Is, SessionsInv
  <2>3. PICK r : r = [q EXCEPT !.does = "issue_refresh"] /\ Goes(c, r)
    BY <1>8, <2>1 DEF IssueAccess
  <2>4. Spends /\ RotatedOK' /\ SessionsTypeOK'
    BY <1>8, TokenIssued DEF IssueAccess
  <2>5. r.predecessor = q.predecessor /\ r.does \in {q.does, "issue_refresh"}
    BY <2>3
  <2>6. RequestOK(r)'
    BY <2>2, <2>4, <2>5 DEF RequestOK, Spends
  <2>. QED
    BY <2>3, <2>4, <2>6, RequestsStay DEF SessionsInv
<1>9. ASSUME NEW c \in Client, IssueRefresh(c) PROVE SessionsInv' /\ Spends
  <2>1. PICK q : q = request[c]
    OBVIOUS
  <2>2. RequestOK(q) /\ q.does = "issue_refresh"
    BY <1>9, <2>1 DEF IssueRefresh, Is, SessionsInv
  <2>3. Issue("REFRESH", q.predecessor) /\ Goes(c, Idle) /\ UNCHANGED <<user, codes>>
    BY <1>9, <2>1 DEF IssueRefresh
  <2>4. Spends /\ RotatedOK' /\ SessionsTypeOK'
    BY <2>2, <2>3, TokenIssued DEF RequestOK
  <2>5. RequestOK(Idle)'
    BY DEF RequestOK, Idle
  <2>. QED
    BY <2>3, <2>4, <2>5, RequestsStay DEF SessionsInv
<1>10. ASSUME NEW c \in Client, ReadRefresh(c) PROVE SessionsInv' /\ Spends
  <2>1. PICK n \in DOMAIN tokens : Goes(c, [does |-> "revoke", token |-> n])
    BY <1>10 DEF ReadRefresh
  <2>2. UNCHANGED <<user, tokens, codes>>
    BY <1>10 DEF ReadRefresh
  <2>3. RequestOK([does |-> "revoke", token |-> n])'
    BY <2>2 DEF RequestOK
  <2>. QED
    BY <1>3, <1>4, <2>1, <2>2, <2>3
<1>11. ASSUME NEW c \in Client, Revoke(c) PROVE SessionsInv' /\ Spends
  <2>1. PICK q : q = request[c]
    OBVIOUS
  <2>2. q.token \in DOMAIN tokens
    BY <1>11, <2>1 DEF Revoke, Is, SessionsInv, RequestOK
  <2>3. /\ tokens' = [tokens EXCEPT ![q.token].revoked = TRUE]
        /\ Goes(c, Issuing(q.token)) /\ UNCHANGED <<user, codes>>
    BY <1>11, <2>1 DEF Revoke
  <2>4. tokens \in Seq(Token) /\ tokens[q.token] \in Token /\ q.token \in Nat
        /\ \A m \in DOMAIN tokens : tokens[m] \in Token
    BY <2>2 DEF SessionsInv, SessionsTypeOK
  <2>5. [tokens[q.token] EXCEPT !.revoked = TRUE] \in Token
    BY <2>4 DEF Token
  <2>6. /\ tokens' \in Seq(Token) /\ DOMAIN tokens' = DOMAIN tokens
        /\ tokens'[q.token].revoked
        /\ \A m \in DOMAIN tokens : /\ tokens[m].revoked => tokens'[m].revoked
                                    /\ tokens'[m].kind = tokens[m].kind
                                    /\ tokens'[m].predecessor = tokens[m].predecessor
    BY <2>2, <2>3, <2>4, <2>5 DEF Token
  <2>7. Spends /\ SessionsTypeOK' /\ RotatedOK'
    BY <2>3, <2>6 DEF SessionsInv, Spends, SessionsTypeOK, RotatedOK
  <2>8. RequestOK(Issuing(q.token))'
    BY <2>2, <2>4, <2>6 DEF RequestOK, Issuing
  <2>. QED
    BY <2>3, <2>7, <2>8, RequestsStay DEF SessionsInv
<1>12. ASSUME NEW c \in Client, ResolveToken(c) PROVE SessionsInv' /\ Spends
  <2>1. RequestOK([does |-> "log_out"])'
    BY DEF RequestOK
  <2>. QED
    BY <1>3, <1>4, <1>12, <2>1 DEF ResolveToken
<1>13. ASSUME NEW c \in Client, Logout(c) PROVE SessionsInv' /\ Spends
  <2>1. /\ tokens' = [n \in DOMAIN tokens |-> Revoked(tokens[n])]
        /\ Goes(c, Idle) /\ UNCHANGED <<user, codes>>
    BY <1>13 DEF Logout
  <2>2. /\ tokens \in Seq(Token) /\ DOMAIN tokens = 1..Len(tokens) /\ Len(tokens) \in Nat
        /\ \A m \in DOMAIN tokens : tokens[m] \in Token
    BY DEF SessionsInv, SessionsTypeOK
  <2>3. \A m \in DOMAIN tokens :
          /\ Revoked(tokens[m]) \in Token
          /\ tokens[m].revoked => Revoked(tokens[m]).revoked
          /\ Revoked(tokens[m]).kind = tokens[m].kind
          /\ Revoked(tokens[m]).predecessor = tokens[m].predecessor
    BY <2>2 DEF Token, Revoked
  <2>4. /\ tokens' \in Seq(Token) /\ DOMAIN tokens' = DOMAIN tokens
        /\ \A m \in DOMAIN tokens : tokens'[m] = Revoked(tokens[m])
    BY <2>1, <2>2, <2>3
  <2>5. Spends /\ SessionsTypeOK' /\ RotatedOK'
    <3>1. \A m \in DOMAIN tokens : /\ tokens[m].revoked => tokens'[m].revoked
                                   /\ tokens'[m].kind = tokens[m].kind
                                   /\ tokens'[m].predecessor = tokens[m].predecessor
      BY <2>3, <2>4
    <3>2. RotatedOK'
      BY <2>4, <3>1 DEF SessionsInv, RotatedOK
    <3>. QED
      BY <2>1, <2>4, <3>1, <3>2 DEF SessionsInv, Spends, SessionsTypeOK
  <2>6. RequestOK(Idle)'
    BY DEF RequestOK, Idle
  <2>. QED
    BY <2>1, <2>5, <2>6, RequestsStay DEF SessionsInv
<1>14. ASSUME NEW c \in Client, Fail(c) PROVE SessionsInv' /\ Spends
  <2>1. RequestOK(Idle)'
    BY DEF RequestOK, Idle
  <2>. QED
    BY <1>3, <1>4, <1>14, <2>1 DEF Fail
<1>. QED
  BY <1>1, <1>2, <1>5, <1>6, <1>7, <1>8, <1>9, <1>10, <1>11, <1>12, <1>13, <1>14
  DEF SessionsNext

\* Every step of the office keeps the invariant and brings nothing back.
LEMMA SessionsSteps ==
  ASSUME SessionsInv, [Next]_vars
  PROVE  SessionsInv' /\ Spends
<1>1. CASE SessionsNext
  BY <1>1, SessionsStep
<1>2. CASE UNCHANGED sessions
  <2>1. UNCHANGED <<user, tokens, codes, request>>
    BY <1>2 DEF sessions
  <2>. QED
    BY <2>1 DEF SessionsInv, SessionsTypeOK, RequestOK, RotatedOK, Spends
<1>. QED
  BY <1>1, <1>2, StepsOfDesks

\* At the beginning there are no tokens, codes or requests.
LEMMA SessionsStart == Init => SessionsInv
<1>. SUFFICES ASSUME Init PROVE SessionsInv
  OBVIOUS
<1>1. /\ user = FALSE /\ tokens = <<>> /\ codes = <<>>
      /\ request = [c \in Client |-> Idle]
  BY DEF Init, SessionsInit
<1>2. DOMAIN tokens = {} /\ tokens \in Seq(Token) /\ codes \in Seq(Code)
  BY <1>1
<1>3. SessionsTypeOK /\ RotatedOK
  BY <1>1, <1>2 DEF SessionsTypeOK, RotatedOK
<1>. QED
  BY <1>1, <1>3, NothingAsked DEF SessionsInv

\* Tokens and codes keep their types, a request that reached issue_tokens goes by
\* a token that is revoked, and a refresh token replaces a revoked one.
THEOREM SessionsSound == Spec => []SessionsInv
<1>1. SessionsInv /\ [Next]_vars => SessionsInv'
  BY SessionsSteps
<1>. QED
  BY SessionsStart, <1>1, PTL DEF Spec

\* Whatever requests run at once and wherever they end, nothing that was used up
\* comes back.
THEOREM SpentStays == Spec => SpentStaysSpent
<1>1. SessionsInv => \A n \in DOMAIN tokens :
                       LET p == tokens[n].predecessor
                       IN p # 0 => tokens[n].kind = "REFRESH" /\ tokens[p].revoked
  BY DEF SessionsInv, RotatedOK
<1>2. SessionsInv /\ [Next]_vars =>
        [/\ \A n \in DOMAIN tokens : tokens[n].revoked => tokens'[n].revoked
         /\ \A n \in DOMAIN codes : codes[n].consumed => codes'[n].consumed]_<<tokens, codes>>
  BY SessionsSteps DEF Spends
<1>. QED
  BY SessionsSound, <1>1, <1>2, PTL DEF Spec, SpentStaysSpent
-----------------------------------------------------------------------------
(***************************************************************************)
(* Sequences of whatever.                                                  *)
(***************************************************************************)
IsSeq(s) == \E S : s \in Seq(S)
Appends(t, s, x) == t = Append(s, x)

\* What appending a row does to a table.
LEMMA SeqAppended ==
  ASSUME NEW s, IsSeq(s), NEW x, NEW t, Appends(t, s, x)
  PROVE  /\ IsSeq(t) /\ Len(s) \in Nat /\ Len(t) = Len(s) + 1
         /\ DOMAIN s = 1..Len(s) /\ DOMAIN t = 1..(Len(s) + 1)
         /\ \A i \in 1..Len(s) : t[i] = s[i]
         /\ t[Len(s) + 1] = x
<1>1. PICK S : s \in Seq(S)
  BY DEF IsSeq
<1>2. PICK T : T = S \cup {x}
  OBVIOUS
<1>3. s \in Seq(T) /\ x \in T
  BY <1>1, <1>2
<1>4. t \in Seq(T) /\ Len(s) \in Nat /\ Len(t) = Len(s) + 1
      /\ DOMAIN s = 1..Len(s) /\ DOMAIN t = 1..(Len(s) + 1)
      /\ (\A i \in 1..Len(s) : t[i] = s[i]) /\ t[Len(s) + 1] = x
  BY <1>3 DEF Appends
<1>. QED
  BY <1>4 DEF IsSeq

\* What changing a row does to a table.
LEMMA SeqChanged ==
  ASSUME NEW s, IsSeq(s), NEW n \in DOMAIN s, NEW x, NEW t, t = [s EXCEPT ![n] = x]
  PROVE  /\ IsSeq(t) /\ DOMAIN t = DOMAIN s /\ Len(t) = Len(s) /\ Len(s) \in Nat
         /\ DOMAIN s = 1..Len(s)
         /\ t[n] = x /\ \A i \in DOMAIN s \ {n} : t[i] = s[i]
<1>1. PICK S : s \in Seq(S)
  BY DEF IsSeq
<1>2. PICK T : T = S \cup {x}
  OBVIOUS
<1>3. s \in Seq(T) /\ x \in T
  BY <1>1, <1>2
<1>4. /\ t \in Seq(T) /\ DOMAIN t = DOMAIN s /\ Len(t) = Len(s) /\ Len(s) \in Nat
      /\ DOMAIN s = 1..Len(s)
      /\ t[n] = x /\ \A i \in DOMAIN s \ {n} : t[i] = s[i]
  BY <1>3
<1>. QED
  BY <1>4 DEF IsSeq
-----------------------------------------------------------------------------
(***************************************************************************)
(* Reconciliation.                                                         *)
(***************************************************************************)
Unmatched(run) == {r \in DOMAIN run.items : run.items[r].exception # "none"}

\* What a run that was committed accounts for.
Accounts(run) ==
  /\ run = [items |-> run.items, matched_count |-> run.matched_count,
            exception_count |-> run.exception_count, saw |-> run.saw]
  /\ run.items = [r \in DOMAIN run.items |-> run.items[r]]
  /\ \A r \in DOMAIN run.items :
       /\ run.items[r] \in Item
       /\ run.items[r].status = "MANUAL_REVIEW" <=> run.items[r].exception = "resolved"
  /\ \A r \in DOMAIN run.saw :
       /\ r \in DOMAIN run.items <=> run.saw[r].settled \/ run.saw[r].seen
       /\ r \in DOMAIN run.items \ Unmatched(run)
            <=> run.saw[r].settled /\ run.saw[r].seen /\ run.saw[r].agree
  /\ run.exception_count = Cardinality(Unmatched(run))
  /\ run.matched_count + run.exception_count = Cardinality(DOMAIN run.items)

\* What a job under way has read is true of the payments that stood still, and the
\* exception somebody is about to resolve is there.
JobOK(j) ==
  /\ j.does = "read_mirror" =>
       /\ j = [does |-> "read_mirror", end |-> j.end, internal |-> j.internal,
               steady |-> j.steady]
       /\ j.internal \subseteq Ref /\ j.steady \subseteq Ref
       /\ \A r \in j.steady : r \in j.internal <=> r \in Internal(j.end)
  /\ j.does = "write" =>
       /\ j.internal \subseteq Ref /\ DOMAIN j.events \subseteq Ref
       /\ DOMAIN j.saw \subseteq Ref
       /\ \A r \in DOMAIN j.saw :
            /\ j.saw[r].settled <=> r \in j.internal
            /\ j.saw[r].seen <=> r \in DOMAIN j.events
            /\ r \in DOMAIN j.events => (j.saw[r].agree <=> j.events[r] = "due")
  /\ j.does = "resolve" =>
       /\ j.run \in DOMAIN runs /\ j.ref \in DOMAIN runs[j.run].items
       /\ runs[j.run].items[j.ref].exception # "none"

BooksOK ==
  /\ paid \in [Ref -> PaymentRow \cup {Absent}]
  /\ mirror \in [Ref -> MirrorRow \cup {Unmirrored}]
  /\ now \in 0..MaxTime

RunsOK == IsSeq(runs) /\ \A n \in DOMAIN runs : Accounts(runs[n])

JobsOK == DOMAIN job = Reader /\ \A w \in Reader : JobOK(job[w])

ReconciliationInv == BooksOK /\ RunsOK /\ JobsOK

\* A step of one job that changes no table it has read.
LEMMA JobTurns ==
  ASSUME ReconciliationInv, NEW w \in Reader, NEW j, Turns(w, j), JobOK(j)',
         UNCHANGED <<paid, mirror, now, runs>>
  PROVE  ReconciliationInv'
<1>1. BooksOK' /\ RunsOK'
  BY DEF ReconciliationInv, BooksOK, RunsOK
<1>2. \A v \in Reader \ {w} : job'[v] = job[v] /\ JobOK(job[v])
  BY DEF ReconciliationInv, JobsOK, Turns
<1>3. DOMAIN job' = Reader /\ job'[w] = j
  BY DEF ReconciliationInv, JobsOK, Turns
<1>4. ASSUME NEW v \in Reader, v # w PROVE JobOK(job[v])'
  <2>1. job'[v] = job[v] /\ JobOK(job[v])
    BY <1>2, <1>4
  <2>2. UNCHANGED <<paid, runs>>
    OBVIOUS
  <2>. QED
    BY <2>1, <2>2 DEF JobOK, Internal
<1>5. JobOK(job[w])'
  BY <1>3 DEF JobOK, Internal
<1>. QED
  BY <1>1, <1>3, <1>4, <1>5 DEF ReconciliationInv, JobsOK

\* A reader without a job has read nothing.
LEMMA NoJob == JobOK(Unoccupied)
  BY DEF JobOK, Unoccupied

\* A payment that moves disturbs what the runs under way have read of it alone.
LEMMA PaymentMoves ==
  ASSUME ReconciliationInv, NEW r \in Ref, Disturbs(r), BooksOK',
         \A s \in Ref \ {r} : paid'[s] = paid[s], UNCHANGED <<now, runs>>
  PROVE  ReconciliationInv'
<1>1. RunsOK'
  BY DEF ReconciliationInv, RunsOK
<1>2. DOMAIN job' = Reader
  BY DEF Disturbs
<1>3. ASSUME NEW w \in Reader PROVE JobOK(job[w])'
  <2>1. PICK j : j = job[w]
    OBVIOUS
  <2>2. JobOK(j)
    BY <2>1 DEF ReconciliationInv, JobsOK
  <2>3. CASE j.does = "read_mirror"
    <3>1. PICK k : k = [j EXCEPT !.steady = j.steady \ {r}]
      OBVIOUS
    <3>2. job'[w] = k
      BY <2>1, <2>3, <3>1 DEF Disturbs
    <3>3. /\ k.does = "read_mirror" /\ k.end = j.end /\ k.internal = j.internal
          /\ k.steady = j.steady \ {r}
          /\ k = [does |-> "read_mirror", end |-> k.end, internal |-> k.internal,
                  steady |-> k.steady]
          /\ j.internal \subseteq Ref /\ j.steady \subseteq Ref
          /\ \A s \in j.steady : s \in j.internal <=> s \in Internal(j.end)
      BY <2>2, <2>3, <3>1 DEF JobOK
    <3>4. \A s \in k.steady : s \in k.internal <=> s \in Internal(k.end)'
      BY <3>3 DEF Internal
    <3>. QED
      BY <3>2, <3>3, <3>4 DEF JobOK, Internal
  <2>4. CASE j.does # "read_mirror"
    <3>1. job'[w] = j
      BY <2>1, <2>4 DEF Disturbs
    <3>. QED
      BY <2>2, <2>4, <3>1 DEF JobOK
  <2>. QED
    BY <2>3, <2>4
<1>. QED
  BY <1>1, <1>2, <1>3 DEF ReconciliationInv, JobsOK

\* The run that is written accounts for what its two reads saw.
LEMMA RunWritten ==
  ASSUME ReconciliationInv, NEW w \in Reader, WriteRun(w)
  PROVE  ReconciliationInv'
<1>1. PICK j : j = job[w]
  OBVIOUS
<1>2. j.does = "write" /\ JobOK(j)
  BY <1>1 DEF WriteRun, ReconciliationInv, JobsOK
<1>3. PICK I, E, saw : I = j.internal /\ E = j.events /\ saw = j.saw
  OBVIOUS
<1>. DEFINE U == I \cup DOMAIN E
            M == {r \in U : Compare(r, I, E) = "MATCHED"}
            items == [r \in U |-> [status |-> Compare(r, I, E),
                                   exception |-> IF r \in M THEN "none" ELSE "open"]]
            run == [items |-> items, matched_count |-> Cardinality(M),
                    exception_count |-> Cardinality(U \ M), saw |-> saw]
<1>4. runs' = Append(runs, run) /\ Turns(w, Unoccupied) /\ UNCHANGED <<paid, mirror, now>>
  BY <1>1, <1>3 DEF WriteRun
<1>5. /\ I \subseteq Ref /\ DOMAIN E \subseteq Ref
      /\ \A r \in DOMAIN saw :
           /\ saw[r].settled <=> r \in I
           /\ saw[r].seen <=> r \in DOMAIN E
           /\ r \in DOMAIN E => (saw[r].agree <=> E[r] = "due")
  BY <1>2, <1>3 DEF JobOK
<1>6. IsFiniteSet(U) /\ M \subseteq U
  BY <1>5, ReconciliationAssumption, FS_Subset
<1>7. \A r \in U :
        /\ Compare(r, I, E) \in {"MATCHED"} \cup Exceptions
        /\ Compare(r, I, E) = "MATCHED" <=> r \in I /\ r \in DOMAIN E /\ E[r] = "due"
  BY DEF Compare, Exceptions
<1>8. \A r \in U : /\ items[r] \in Item
                   /\ items[r].status # "MANUAL_REVIEW" /\ items[r].exception # "resolved"
                   /\ items[r].exception # "none" <=> r \notin M
  BY <1>7 DEF Item, Exceptions
<1>9. /\ run.items = items /\ run.matched_count = Cardinality(M)
      /\ run.exception_count = Cardinality(U \ M) /\ run.saw = saw
      /\ DOMAIN items = U /\ items = [r \in DOMAIN items |-> items[r]]
  OBVIOUS
<1>10. run = [items |-> run.items, matched_count |-> run.matched_count,
              exception_count |-> run.exception_count, saw |-> run.saw]
  OBVIOUS
<1>11. \A r \in U : r \in M <=> r \in I /\ r \in DOMAIN E /\ E[r] = "due"
  BY <1>7
<1>12. Cardinality(M) + Cardinality(U \ M) = Cardinality(U)
  <2>1. Cardinality(U) \in Nat /\ Cardinality(M) \in Nat /\ IsFiniteSet(M)
    BY <1>6, FS_CardinalityType, FS_Subset
  <2>2. Cardinality(U \ M) = Cardinality(U) - Cardinality(U \cap M)
    BY <1>6, FS_Difference
  <2>3. U \cap M = M
    BY <1>6
  <2>. QED
    BY <2>1, <2>2, <2>3
<1>. HIDE DEF items, M, U, run
<1>13. Unmatched(run) = U \ M
  BY <1>8, <1>9 DEF Unmatched
<1>14. \A r \in DOMAIN saw :
         /\ r \in U <=> saw[r].settled \/ saw[r].seen
         /\ r \in M <=> saw[r].settled /\ saw[r].seen /\ saw[r].agree
  BY <1>5, <1>6, <1>11 DEF U
<1>15. DOMAIN run.items \ Unmatched(run) = M
  BY <1>6, <1>9, <1>13
<1>16. Accounts(run)
  BY <1>8, <1>9, <1>10, <1>12, <1>13, <1>14, <1>15 DEF Accounts
<1>17. IsSeq(runs) /\ \A n \in DOMAIN runs : Accounts(runs[n])
  BY DEF ReconciliationInv, RunsOK
<1>18. /\ IsSeq(runs') /\ DOMAIN runs \subseteq DOMAIN runs'
       /\ \A n \in DOMAIN runs : runs'[n] = runs[n]
       /\ \A n \in DOMAIN runs' : n \in DOMAIN runs \/ runs'[n] = run
  <2>1. /\ IsSeq(runs') /\ Len(runs) \in Nat
        /\ DOMAIN runs = 1..Len(runs) /\ DOMAIN runs' = 1..(Len(runs) + 1)
        /\ \A n \in 1..Len(runs) : runs'[n] = runs[n]
        /\ runs'[Len(runs) + 1] = run
    <3>1. Appends(runs', runs, run) /\ IsSeq(runs)
      BY <1>4, <1>17 DEF Appends
    <3>. QED
      BY <3>1, SeqAppended
  <2>. QED
    BY <2>1
<1>19. RunsOK'
  BY <1>16, <1>17, <1>18 DEF RunsOK
<1>20. BooksOK'
  BY <1>4 DEF ReconciliationInv, BooksOK
<1>21. ASSUME NEW v \in Reader PROVE JobOK(job[v])'
  <2>1. CASE v = w
    <3>1. job'[v] = Unoccupied
      BY <1>4, <2>1 DEF ReconciliationInv, JobsOK, Turns
    <3>. QED
      BY <3>1 DEF JobOK, Unoccupied
  <2>2. CASE v # w
    <3>1. job'[v] = job[v] /\ JobOK(job[v])
      BY <1>4, <2>2 DEF ReconciliationInv, JobsOK, Turns
    <3>. QED
      BY <1>4, <1>18, <3>1 DEF JobOK, Internal
  <2>. QED
    BY <2>1, <2>2
<1>22. DOMAIN job' = Reader
  BY <1>4 DEF ReconciliationInv, JobsOK, Turns
<1>. QED
  BY <1>19, <1>20, <1>21, <1>22 DEF ReconciliationInv, JobsOK

\* Somebody who resolves an exception changes the status of its item.
LEMMA ExceptionResolved ==
  ASSUME ReconciliationInv, NEW w \in Reader, ResolveException(w)
  PROVE  ReconciliationInv'
<1>1. PICK j : j = job[w]
  OBVIOUS
<1>2. j.does = "resolve" /\ JobOK(j)
  BY <1>1 DEF ResolveException, ReconciliationInv, JobsOK
<1>3. PICK n, r : n = j.run /\ r = j.ref
  OBVIOUS
<1>4. /\ n \in DOMAIN runs /\ r \in DOMAIN runs[n].items
      /\ runs[n].items[r].exception # "none"
  BY <1>2, <1>3 DEF JobOK
<1>5. PICK old : old = runs[n]
  OBVIOUS
<1>6. IsSeq(runs) /\ Accounts(old) /\ \A m \in DOMAIN runs : Accounts(runs[m])
  BY <1>4, <1>5 DEF ReconciliationInv, RunsOK
<1>. DEFINE item == [status |-> "MANUAL_REVIEW", exception |-> "resolved"]
            items == [old.items EXCEPT ![r] = item]
            run == [old EXCEPT !.items = items]
<1>7. runs' = [runs EXCEPT ![n] = run] /\ Turns(w, Unoccupied)
      /\ UNCHANGED <<paid, mirror, now>>
  BY <1>1, <1>3, <1>5 DEF ResolveException
<1>8. /\ DOMAIN items = DOMAIN old.items /\ items[r] = item
      /\ \A s \in DOMAIN old.items \ {r} : items[s] = old.items[s]
      /\ items = [s \in DOMAIN items |-> items[s]]
  BY <1>4, <1>5, <1>6 DEF Accounts
<1>9. item \in Item /\ item.status = "MANUAL_REVIEW" /\ item.exception = "resolved"
  BY DEF Item
<1>. HIDE DEF item, items
<1>10. /\ run.items = items /\ run.matched_count = old.matched_count
       /\ run.exception_count = old.exception_count /\ run.saw = old.saw
       /\ run = [items |-> run.items, matched_count |-> run.matched_count,
                 exception_count |-> run.exception_count, saw |-> run.saw]
  BY <1>6 DEF Accounts
<1>. HIDE DEF run
<1>11. Unmatched(run) = Unmatched(old)
  BY <1>4, <1>5, <1>8, <1>9, <1>10 DEF Unmatched
<1>12. \A s \in DOMAIN items :
         items[s] \in Item
         /\ (items[s].status = "MANUAL_REVIEW" <=> items[s].exception = "resolved")
  BY <1>6, <1>8, <1>9 DEF Accounts
<1>13. Accounts(run)
  BY <1>6, <1>8, <1>10, <1>11, <1>12 DEF Accounts
<1>14. /\ IsSeq(runs') /\ DOMAIN runs' = DOMAIN runs /\ runs'[n] = run
       /\ \A m \in DOMAIN runs \ {n} : runs'[m] = runs[m]
  BY <1>4, <1>6, <1>7, SeqChanged
<1>15. RunsOK'
  BY <1>6, <1>13, <1>14 DEF RunsOK
<1>16. BooksOK'
  BY <1>7 DEF ReconciliationInv, BooksOK
<1>17. \A m \in DOMAIN runs : \A s \in DOMAIN runs[m].items :
         /\ s \in DOMAIN runs'[m].items
         /\ runs[m].items[s].exception # "none" => runs'[m].items[s].exception # "none"
  BY <1>5, <1>8, <1>9, <1>10, <1>14
<1>18. ASSUME NEW v \in Reader PROVE JobOK(job[v])'
  <2>1. CASE v = w
    <3>1. job'[v] = Unoccupied
      BY <1>7, <2>1 DEF ReconciliationInv, JobsOK, Turns
    <3>. QED
      BY <3>1 DEF JobOK, Unoccupied
  <2>2. CASE v # w
    <3>1. job'[v] = job[v] /\ JobOK(job[v])
      BY <1>7, <2>2 DEF ReconciliationInv, JobsOK, Turns
    <3>. QED
      BY <1>7, <1>14, <1>17, <3>1 DEF JobOK, Internal
  <2>. QED
    BY <2>1, <2>2
<1>19. DOMAIN job' = Reader
  BY <1>7 DEF ReconciliationInv, JobsOK, Turns
<1>. QED
  BY <1>15, <1>16, <1>18, <1>19 DEF ReconciliationInv, JobsOK

\* Every step of payments, provider, clock, runs and officers keeps the invariant.
LEMMA ReconciliationStep ==
  ASSUME ReconciliationInv, ReconciliationNext
  PROVE  ReconciliationInv'
<1>1. ASSUME TimePasses PROVE ReconciliationInv'
  <2>1. now' \in 0..MaxTime /\ UNCHANGED <<paid, mirror, runs, job>>
    BY <1>1, ReconciliationAssumption DEF TimePasses, ReconciliationInv, BooksOK
  <2>2. BooksOK' /\ RunsOK'
    BY <2>1 DEF ReconciliationInv, BooksOK, RunsOK
  <2>3. ASSUME NEW v \in Reader PROVE JobOK(job[v])'
    <3>1. job'[v] = job[v] /\ JobOK(job[v])
      BY <2>1 DEF ReconciliationInv, JobsOK
    <3>. QED
      BY <2>1, <3>1 DEF JobOK, Internal
  <2>. QED
    BY <2>1, <2>2, <2>3 DEF ReconciliationInv, JobsOK
<1>2. ASSUME NEW r \in Ref, OpenPayment(r) PROVE ReconciliationInv'
  <2>1. [status |-> "UNSETTLED", created |-> now] \in PaymentRow
    BY DEF PaymentRow, ReconciliationInv, BooksOK
  <2>2. BooksOK' /\ (\A s \in Ref \ {r} : paid'[s] = paid[s])
    BY <1>2, <2>1 DEF OpenPayment, ReconciliationInv, BooksOK
  <2>. QED
    BY <1>2, <2>2, PaymentMoves DEF OpenPayment
<1>3. ASSUME NEW r \in Ref, paid[r] # Absent, NEW status \in {"UNSETTLED", "SUCCESS"},
             paid' = [paid EXCEPT ![r].status = status]
      PROVE  /\ paid' \in [Ref -> PaymentRow \cup {Absent}]
             /\ \A s \in Ref \ {r} : paid'[s] = paid[s]
  <2>1. paid[r] \in PaymentRow /\ paid \in [Ref -> PaymentRow \cup {Absent}]
    BY <1>3 DEF ReconciliationInv, BooksOK
  <2>2. [paid[r] EXCEPT !.status = status] \in PaymentRow
    BY <2>1 DEF PaymentRow
  <2>. QED
    BY <1>3, <2>1, <2>2
<1>4. ASSUME NEW r \in Ref, Verify(r) PROVE ReconciliationInv'
  <2>1. PICK status \in {"UNSETTLED", "SUCCESS"} :
          paid' = [paid EXCEPT ![r].status = status]
    BY <1>4 DEF Verify
  <2>2. paid[r] # Absent /\ Disturbs(r) /\ UNCHANGED <<mirror, now, runs>>
    BY <1>4 DEF Verify
  <2>3. BooksOK' /\ (\A s \in Ref \ {r} : paid'[s] = paid[s])
    BY <1>3, <2>1, <2>2 DEF ReconciliationInv, BooksOK
  <2>. QED
    BY <2>2, <2>3, PaymentMoves
<1>5. ASSUME NEW r \in Ref, Webhook(r) PROVE ReconciliationInv'
  <2>1. PICK amount \in {"due", "other"} :
          mirror' = [mirror EXCEPT ![r] = [amount |-> amount, occurred |-> now]]
    BY <1>5 DEF Webhook
  <2>2. /\ paid' = [paid EXCEPT ![r].status = "SUCCESS"]
        /\ paid[r] # Absent /\ Disturbs(r) /\ UNCHANGED <<now, runs>>
    BY <1>5 DEF Webhook
  <2>3. [amount |-> amount, occurred |-> now] \in MirrorRow
    BY DEF MirrorRow, ReconciliationInv, BooksOK
  <2>4. mirror' \in [Ref -> MirrorRow \cup {Unmirrored}]
    BY <2>1, <2>3 DEF ReconciliationInv, BooksOK
  <2>5. BooksOK' /\ (\A s \in Ref \ {r} : paid'[s] = paid[s])
    BY <1>3, <2>2, <2>4 DEF ReconciliationInv, BooksOK
  <2>. QED
    BY <2>2, <2>5, PaymentMoves
<1>6. ASSUME NEW w \in Reader, ReadPayments(w) PROVE ReconciliationInv'
  <2>1. PICK j : /\ j = [does |-> "read_mirror", end |-> now,
                         internal |-> Internal(now), steady |-> Ref]
                 /\ Turns(w, j)
    BY <1>6 DEF ReadPayments
  <2>2. UNCHANGED <<paid, mirror, now, runs>>
    BY <1>6 DEF ReadPayments
  <2>3. JobOK(j)'
    BY <2>1, <2>2 DEF JobOK, Internal
  <2>. QED
    BY <2>1, <2>2, <2>3, JobTurns
<1>7. ASSUME NEW w \in Reader, ReadMirror(w) PROVE ReconciliationInv'
  <2>1. PICK j : j = job[w]
    OBVIOUS
  <2>2. JobOK(j) /\ j.does = "read_mirror"
    BY <1>7, <2>1 DEF ReadMirror, ReconciliationInv, JobsOK
  <2>3. PICK k : /\ k = [does |-> "write", internal |-> j.internal,
                  events |-> [r \in External(j.end) |-> mirror[r].amount],
                  saw |-> [r \in j.steady |->
                             [settled |-> r \in Internal(j.end),
                              seen |-> r \in External(j.end),
                              agree |-> mirror[r].amount = "due"]]]
                 /\ Turns(w, k)
    BY <1>7, <2>1 DEF ReadMirror
  <2>4. UNCHANGED <<paid, mirror, now, runs>>
    BY <1>7 DEF ReadMirror
  <2>5. /\ k.does = "write" /\ k.internal = j.internal
        /\ DOMAIN k.events = External(j.end) /\ DOMAIN k.saw = j.steady
        /\ \A r \in External(j.end) : k.events[r] = mirror[r].amount
        /\ \A r \in j.steady : /\ k.saw[r].settled <=> r \in Internal(j.end)
                               /\ k.saw[r].seen <=> r \in External(j.end)
                               /\ k.saw[r].agree <=> mirror[r].amount = "due"
    BY <2>3
  <2>6. JobOK(k)
    BY <2>2, <2>5 DEF JobOK, External
  <2>7. JobOK(k)'
    BY <2>4, <2>5, <2>6 DEF JobOK
  <2>. QED
    BY <2>3, <2>4, <2>7, JobTurns
<1>8. ASSUME NEW w \in Reader, ReadException(w) PROVE ReconciliationInv'
  <2>1. PICK n \in DOMAIN runs : \E r \in DOMAIN runs[n].items :
          /\ runs[n].items[r].exception = "open"
          /\ Turns(w, [does |-> "resolve", run |-> n, ref |-> r])
    BY <1>8 DEF ReadException
  <2>2. PICK r \in DOMAIN runs[n].items :
          /\ runs[n].items[r].exception = "open"
          /\ Turns(w, [does |-> "resolve", run |-> n, ref |-> r])
    BY <2>1
  <2>3. UNCHANGED <<paid, mirror, now, runs>>
    BY <1>8 DEF ReadException
  <2>4. JobOK([does |-> "resolve", run |-> n, ref |-> r])'
    BY <2>2, <2>3 DEF JobOK
  <2>. QED
    BY <2>2, <2>3, <2>4, JobTurns
<1>9. ASSUME NEW w \in Reader, RunFails(w) PROVE ReconciliationInv'
  <2>1. JobOK(Unoccupied)'
    BY DEF JobOK, Unoccupied
  <2>. QED
    BY <1>9, <2>1, JobTurns DEF RunFails
<1>. QED
  BY <1>1, <1>2, <1>4, <1>5, <1>6, <1>7, <1>8, <1>9, RunWritten, ExceptionResolved
  DEF ReconciliationNext

\* Committed runs account for what they saw, and what a run under way has read is
\* true of the payments that stood still.
THEOREM ReconciliationSound == Spec => []ReconciliationInv
<1>1. ASSUME Init PROVE ReconciliationInv
  <2>1. /\ paid = [r \in Ref |-> Absent] /\ mirror = [r \in Ref |-> Unmirrored]
        /\ now = 0 /\ runs = <<>> /\ job = [w \in Reader |-> Unoccupied]
    BY <1>1 DEF Init, ReconciliationInit
  <2>2. BooksOK
    BY <2>1, ReconciliationAssumption DEF BooksOK
  <2>3. DOMAIN runs = {} /\ runs \in Seq({})
    BY <2>1
  <2>4. RunsOK
    BY <2>3 DEF RunsOK, IsSeq
  <2>. QED
    BY <2>1, <2>2, <2>4, NoJob DEF ReconciliationInv, JobsOK
<1>2. ASSUME ReconciliationInv, [Next]_vars PROVE ReconciliationInv'
  <2>1. CASE ReconciliationNext
    BY <1>2, <2>1, ReconciliationStep
  <2>2. CASE UNCHANGED books
    <3>1. UNCHANGED <<paid, mirror, now, runs, job>>
      BY <2>2 DEF books
    <3>2. \A w \in Reader : JobOK(job[w])'
      BY <1>2, <3>1 DEF ReconciliationInv, JobsOK, JobOK, Internal
    <3>. QED
      BY <1>2, <3>1, <3>2 DEF ReconciliationInv, BooksOK, RunsOK, JobsOK
  <2>. QED
    BY <1>2, <2>1, <2>2, StepsOfDesks
<1>. QED
  BY <1>1, <1>2, PTL DEF Spec

\* Whatever others commit between the two reads of a run, it accounts for every
\* payment that stood still, counts each item once, and stays so as exceptions
\* are resolved, for any number of payments, readers and runs.
THEOREM AllAccountedFor == Spec => []RunAccountsForAll
<1>1. ReconciliationInv => RunAccountsForAll
  BY DEF ReconciliationInv, RunsOK, Accounts, Unmatched, RunAccountsForAll
<1>. QED
  BY ReconciliationSound, <1>1, PTL
-----------------------------------------------------------------------------
(***************************************************************************)
(* The outbox.                                                             *)
(***************************************************************************)
LEMMA CountIsNat ==
  ASSUME NEW s, IsSeq(s), NEW x
  PROVE  Count(s, x) \in Nat /\ (Count(s, x) > 0 => \E n \in DOMAIN s : s[n] = x)
<1>1. DOMAIN s = 1..Len(s) /\ Len(s) \in Nat
  BY DEF IsSeq
<1>2. IsFiniteSet(1..Len(s))
  BY <1>1, FS_Interval
<1>3. PICK P : P = {n \in DOMAIN s : s[n] = x}
  OBVIOUS
<1>4. IsFiniteSet(P)
  BY <1>1, <1>2, <1>3, FS_Subset
<1>5. Cardinality(P) \in Nat /\ (P = {} => Cardinality(P) = 0)
  BY <1>4, FS_CardinalityType, FS_EmptySet
<1>. QED
  BY <1>3, <1>5 DEF Count

\* A row more is counted for itself.
LEMMA CountAppended ==
  ASSUME NEW s, IsSeq(s), NEW y, NEW t, Appends(t, s, y), NEW x
  PROVE  Count(t, x) = Count(s, x) + IF x = y THEN 1 ELSE 0
<1>1. /\ IsSeq(t) /\ Len(s) \in Nat /\ DOMAIN s = 1..Len(s)
      /\ DOMAIN t = 1..(Len(s) + 1)
      /\ \A i \in 1..Len(s) : t[i] = s[i]
      /\ t[Len(s) + 1] = y
  BY SeqAppended
<1>2. PICK P, Q : P = {n \in DOMAIN s : s[n] = x} /\ Q = {n \in DOMAIN t : t[n] = x}
  OBVIOUS
<1>3. IsFiniteSet(1..Len(s))
  BY <1>1, FS_Interval
<1>4. IsFiniteSet(P) /\ Cardinality(P) \in Nat
  BY <1>1, <1>2, <1>3, FS_Subset, FS_CardinalityType
<1>5. CASE x = y
  <2>1. Q = P \cup {Len(s) + 1} /\ Len(s) + 1 \notin P
    BY <1>1, <1>2, <1>5
  <2>2. Cardinality(Q) = Cardinality(P) + 1
    BY <1>4, <2>1, FS_AddElement
  <2>. QED
    BY <1>2, <1>5, <2>2 DEF Count
<1>6. CASE x # y
  <2>1. Q = P
    BY <1>1, <1>2, <1>6
  <2>. QED
    BY <1>2, <1>4, <1>6, <2>1 DEF Count
<1>. QED
  BY <1>5, <1>6

\* The rows of two tables are counted in either.
LEMMA CountJoined ==
  ASSUME NEW S, NEW s \in Seq(S), NEW u \in Seq(S), NEW x
  PROVE  Count(s \o u, x) = Count(s, x) + Count(u, x)
<1>1. PICK t : t = s \o u
  OBVIOUS
<1>2. PICK p \in Nat, q \in Nat : p = Len(s) /\ q = Len(u)
  OBVIOUS
<1>3. /\ DOMAIN s = 1..p /\ DOMAIN u = 1..q /\ DOMAIN t = 1..(p + q)
      /\ \A i \in 1..p : t[i] = s[i]
      /\ \A i \in 1..q : t[p + i] = u[i]
  BY <1>1, <1>2
<1>4. PICK P, Q, R : /\ P = {n \in 1..p : s[n] = x} /\ Q = {n \in 1..q : u[n] = x}
                     /\ R = {n \in 1..(p + q) : t[n] = x}
  OBVIOUS
<1>5. PICK B : B = {n \in (p + 1)..(p + q) : t[n] = x}
  OBVIOUS
<1>6. /\ IsFiniteSet(P) /\ IsFiniteSet(Q) /\ IsFiniteSet(B)
      /\ Cardinality(P) \in Nat /\ Cardinality(Q) \in Nat /\ Cardinality(B) \in Nat
  <2>1. IsFiniteSet(1..p) /\ IsFiniteSet(1..q) /\ IsFiniteSet((p + 1)..(p + q))
    BY FS_Interval
  <2>2. IsFiniteSet(P) /\ IsFiniteSet(Q) /\ IsFiniteSet(B)
    BY <1>4, <1>5, <2>1, FS_Subset
  <2>. QED
    BY <2>2, FS_CardinalityType
<1>7. R = P \cup B /\ P \cap B = {}
  BY <1>3, <1>4, <1>5
<1>8. Cardinality(R) = Cardinality(P) + Cardinality(B)
  <2>1. Cardinality(P \cup B) = Cardinality(P) + Cardinality(B) - Cardinality(P \cap B)
    BY <1>6, FS_Union
  <2>2. Cardinality(P \cap B) = 0
    BY <1>7, FS_EmptySet
  <2>. QED
    BY <1>6, <1>7, <2>1, <2>2
<1>9. Cardinality(B) = Cardinality(Q)
  <2>. DEFINE f == [n \in Q |-> p + n]
  <2>1. \A n \in Q : f[n] \in B
    BY <1>3, <1>4, <1>5
  <2>2. \A m \in B : m - p \in Q /\ f[m - p] = m
    <3>1. ASSUME NEW m \in B
          PROVE  m - p \in Q /\ f[m - p] = m
      <4>1. m - p \in 1..q /\ p + (m - p) = m /\ t[m] = x
        BY <1>5
      <4>2. u[m - p] = x
        BY <1>3, <4>1
      <4>. QED
        BY <1>4, <4>1, <4>2
    <3>. QED
      BY <3>1
  <2>3. \A m, n \in Q : f[m] = f[n] => m = n
    BY <1>4
  <2>4. f \in [Q -> B]
    BY <2>1
  <2>. HIDE DEF f
  <2>5. f \in Bijection(Q, B)
    BY <2>2, <2>3, <2>4 DEF Bijection, Injection, Surjection, IsInjective
  <2>6. ExistsBijection(Q, B)
    BY <2>5 DEF ExistsBijection
  <2>. QED
    BY <1>6, <2>6, FS_Bijection
<1>. QED
  BY <1>1, <1>2, <1>3, <1>4, <1>8, <1>9 DEF Count

Channel == {"SMS", "EMAIL"}

\* An event has each of its channels once.
LEMMA RecipientsAre ==
  ASSUME NEW code
  PROVE  /\ Recipients(code) \in Seq(Channel)
         /\ Len(Recipients(code)) \in Nat
         /\ DOMAIN Recipients(code) = 1..Len(Recipients(code))
         /\ \A i, j \in DOMAIN Recipients(code) :
              Recipients(code)[i] = Recipients(code)[j] => i = j
<1>1. Recipients(code) \in {<<>>, <<"SMS", "EMAIL">>, <<"SMS">>}
  BY DEF Recipients
<1>2. CASE Recipients(code) = <<>>
  BY <1>2
<1>3. CASE Recipients(code) = <<"SMS", "EMAIL">>
  <2>1. /\ Len(Recipients(code)) = 2 /\ DOMAIN Recipients(code) = 1..2
        /\ Recipients(code)[1] = "SMS" /\ Recipients(code)[2] = "EMAIL"
        /\ Recipients(code) \in Seq(Channel)
    BY <1>3 DEF Channel
  <2>. QED
    BY <2>1
<1>4. CASE Recipients(code) = <<"SMS">>
  <2>1. /\ Len(Recipients(code)) = 1 /\ DOMAIN Recipients(code) = 1..1
        /\ Recipients(code) \in Seq(Channel)
    BY <1>4 DEF Channel
  <2>. QED
    BY <2>1
<1>. QED
  BY <1>1, <1>2, <1>3, <1>4

\* The channels of event n.
ChannelsOf(n) == Recipients(outbox[n].code)

\* Channel number i of event n was tried, in a transaction that has committed or
\* may still.
Reached(n, i) ==
  \/ outbox[n].dispatched
  \/ \E d \in Dispatcher : sending[d].event = n /\ i <= Len(sending[d].done)

\* A run holds the row of an event that is not dispatched, and has tried the first
\* of its channels.
SendingOK(s) ==
  /\ s = [event |-> s.event, left |-> s.left, done |-> s.done]
  /\ s.event \in DOMAIN outbox /\ ~outbox[s.event].dispatched
  /\ s.left \in Seq(Channel) /\ s.done \in Seq(Nat \X Channel \X Outcome)
  /\ Len(s.done) + Len(s.left) = Len(ChannelsOf(s.event))
  /\ \A j \in 1..Len(s.left) : s.left[j] = ChannelsOf(s.event)[Len(s.done) + j]
  /\ \A j \in 1..Len(s.done) :
       \/ s.done[j] = <<s.event, ChannelsOf(s.event)[j], "SENT">>
       \/ s.done[j] = <<s.event, ChannelsOf(s.event)[j], "PENDING">>

OutboxRowsOK ==
  /\ outbox \in Seq(Event)
  /\ messages \in Seq(Nat \X Channel)
  /\ deliveries \in Seq(Nat \X Channel \X Outcome)
  /\ deaths \in Seq(Nat)
  /\ \A m \in DOMAIN messages : messages[m][1] \in DOMAIN outbox
  /\ \A m \in DOMAIN deliveries : deliveries[m][1] \in DOMAIN outbox

\* No two runs hold the same event.
DispatchersOK ==
  /\ DOMAIN pending = Dispatcher /\ DOMAIN sending = Dispatcher
  /\ \A d \in Dispatcher :
       /\ pending[d] \subseteq DOMAIN outbox
       /\ sending[d] = Nothing \/ SendingOK(sending[d])
  /\ \A d, e \in Dispatcher :
       d # e /\ sending[d] # Nothing => sending[d].event # sending[e].event

\* Over a channel an event was sent once for each run that died with it, and once
\* more when the channel is reached.
SentOK(n) ==
  \A i \in DOMAIN ChannelsOf(n) :
    Count(messages, <<n, ChannelsOf(n)[i]>>)
      <= Count(deaths, n) + IF Reached(n, i) THEN 1 ELSE 0

TriedOK(n) ==
  \A i \in DOMAIN ChannelsOf(n) :
    Count(deliveries, <<n, ChannelsOf(n)[i], "SENT">>)
        + Count(deliveries, <<n, ChannelsOf(n)[i], "PENDING">>)
      = IF outbox[n].dispatched THEN 1 ELSE 0

OutboxInv ==
  /\ OutboxRowsOK
  /\ DispatchersOK
  /\ \A n \in DOMAIN outbox : SentOK(n) /\ TriedOK(n)

\* The tables of the outbox are sequences, and events are numbered from 1.
LEMMA OutboxFacts ==
  ASSUME OutboxRowsOK
  PROVE  /\ IsSeq(outbox) /\ IsSeq(messages) /\ IsSeq(deliveries) /\ IsSeq(deaths)
         /\ Len(outbox) \in Nat /\ DOMAIN outbox = 1..Len(outbox)
         /\ \A n \in DOMAIN outbox : outbox[n] \in Event /\ n \in Nat /\ n > 0
  BY DEF OutboxRowsOK, IsSeq

\* A run that holds an event holds something.
LEMMA NothingIsNone ==
  ASSUME NEW s, SendingOK(s), OutboxRowsOK
  PROVE  s # Nothing /\ s.event \in Nat /\ s.event > 0
<1>1. s.event \in Nat /\ s.event > 0
  BY OutboxFacts DEF SendingOK
<1>. QED
  BY <1>1 DEF Nothing

\* emit_event: the others' events stay what they are, and nothing has been done
\* about the new one.
LEMMA EmitKeeps ==
  ASSUME OutboxInv, NEW code \in DOMAIN Addressee, Emit(code)
  PROVE  OutboxInv'
<1>1. /\ IsSeq(outbox) /\ IsSeq(messages) /\ IsSeq(deliveries) /\ IsSeq(deaths)
      /\ outbox \in Seq(Event)
      /\ Len(outbox) \in Nat /\ DOMAIN outbox = 1..Len(outbox)
  BY OutboxFacts DEF OutboxInv, OutboxRowsOK
<1>2. PICK e \in Event : e = [code |-> code, dispatched |-> FALSE]
  BY DEF Event
<1>3. /\ outbox' = Append(outbox, e)
      /\ UNCHANGED <<deliveries, pending, sending, messages, deaths>>
  BY <1>2 DEF Emit, dispatch
<1>4. PICK N \in Nat : N = Len(outbox) + 1
  BY <1>1
<1>5. /\ outbox' \in Seq(Event) /\ DOMAIN outbox' = 1..N
      /\ \A n \in DOMAIN outbox : outbox'[n] = outbox[n]
      /\ outbox'[N] = e /\ DOMAIN outbox \subseteq DOMAIN outbox'
      /\ N \notin DOMAIN outbox
      /\ \A n \in DOMAIN outbox' : n \in DOMAIN outbox \/ n = N
  BY <1>1, <1>3, <1>4
<1>6. OutboxRowsOK'
  BY <1>3, <1>5 DEF OutboxInv, OutboxRowsOK
<1>7. ASSUME NEW d \in Dispatcher
      PROVE  pending'[d] \subseteq DOMAIN outbox'
             /\ (sending'[d] = Nothing \/ SendingOK(sending[d])')
  <2>1. /\ pending'[d] = pending[d] /\ sending'[d] = sending[d]
        /\ pending[d] \subseteq DOMAIN outbox
        /\ sending[d] = Nothing \/ SendingOK(sending[d])
    BY <1>3 DEF OutboxInv, DispatchersOK
  <2>2. PICK s : s = sending[d]
    OBVIOUS
  <2>3. SendingOK(s) => SendingOK(s)'
    <3>1. SendingOK(s) => s.event \in DOMAIN outbox' /\ outbox'[s.event] = outbox[s.event]
      BY <1>5 DEF SendingOK
    <3>. QED
      BY <3>1 DEF SendingOK, ChannelsOf
  <2>. QED
    BY <1>5, <2>1, <2>2, <2>3
<1>8. DispatchersOK'
  BY <1>3, <1>7 DEF OutboxInv, DispatchersOK
<1>9. ASSUME NEW n \in DOMAIN outbox
      PROVE  SentOK(n)' /\ TriedOK(n)'
  <2>1. SentOK(n) /\ TriedOK(n)
    BY DEF OutboxInv
  <2>2. outbox'[n] = outbox[n]
    BY <1>5
  <2>. QED
    BY <1>3, <2>1, <2>2 DEF SentOK, TriedOK, ChannelsOf, Reached
<1>10. SentOK(N)' /\ TriedOK(N)'
  <2>1. ASSUME NEW ch, NEW o
        PROVE  Count(messages, <<N, ch>>) = 0 /\ Count(deliveries, <<N, ch, o>>) = 0
    <3>1. \A m \in DOMAIN messages : messages[m] # <<N, ch>>
      BY <1>5 DEF OutboxInv, OutboxRowsOK
    <3>2. \A m \in DOMAIN deliveries : deliveries[m] # <<N, ch, o>>
      BY <1>5 DEF OutboxInv, OutboxRowsOK
    <3>3. Count(messages, <<N, ch>>) \in Nat /\ ~(Count(messages, <<N, ch>>) > 0)
      BY <1>1, <3>1, CountIsNat
    <3>4. Count(deliveries, <<N, ch, o>>) \in Nat /\ ~(Count(deliveries, <<N, ch, o>>) > 0)
      BY <1>1, <3>2, CountIsNat
    <3>. QED
      BY <3>3, <3>4
  <2>2. Count(deaths, N) \in Nat
    BY <1>1, CountIsNat
  <2>3. ~outbox'[N].dispatched
    BY <1>2, <1>5
  <2>4. SentOK(N)'
    <3>1. ASSUME NEW i \in DOMAIN ChannelsOf(N)'
          PROVE  Count(messages, <<N, ChannelsOf(N)'[i]>>)
                   <= Count(deaths, N) + IF Reached(N, i)' THEN 1 ELSE 0
      <4>1. PICK ch : ch = ChannelsOf(N)'[i]
        OBVIOUS
      <4>2. Count(messages, <<N, ch>>) = 0
        BY <2>1
      <4>. QED
        BY <2>2, <4>1, <4>2
    <3>. QED
      BY <1>3, <3>1 DEF SentOK
  <2>5. TriedOK(N)'
    <3>1. ASSUME NEW i \in DOMAIN ChannelsOf(N)'
          PROVE  Count(deliveries, <<N, ChannelsOf(N)'[i], "SENT">>)
                   + Count(deliveries, <<N, ChannelsOf(N)'[i], "PENDING">>) = 0
      <4>1. PICK ch : ch = ChannelsOf(N)'[i]
        OBVIOUS
      <4>2. Count(deliveries, <<N, ch, "SENT">>) = 0
            /\ Count(deliveries, <<N, ch, "PENDING">>) = 0
        BY <2>1
      <4>. QED
        BY <4>1, <4>2
    <3>. QED
      BY <1>3, <2>3, <3>1 DEF TriedOK
  <2>. QED
    BY <2>4, <2>5
<1>. QED
  BY <1>5, <1>6, <1>8, <1>9, <1>10 DEF OutboxInv
-----------------------------------------------------------------------------
\* The oldest of the events a run found is one of them.
LEMMA MinOf ==
  ASSUME NEW N \in Nat, NEW S \in SUBSET (1..N), S # {}
  PROVE  Min(S) \in S /\ \A y \in S : Min(S) <= y
<1>0. \A x \in S : N + 1 - x \in 1..N
  OBVIOUS
<1>1. PICK T \in SUBSET (1..N) : T = {N + 1 - x : x \in S}
  BY <1>0
<1>2. T # {}
  BY <1>1
<1>3. Max(T) \in T /\ \A y \in T : Max(T) >= y
  BY <1>2, MaxOf
<1>4. PICK x \in S : Max(T) = N + 1 - x
  BY <1>1, <1>3
<1>5. ASSUME NEW y \in S PROVE x <= y
  <2>1. N + 1 - y \in T
    BY <1>1
  <2>2. N + 1 - x >= N + 1 - y /\ x \in Int /\ y \in Int
    BY <1>3, <1>4, <2>1
  <2>. QED
    BY <2>2
<1>. QED
  BY <1>5 DEF Min

\* What a run does to its own list alone.
LEMMA ListingKeeps ==
  ASSUME OutboxInv,
         DOMAIN pending' = Dispatcher,
         \A d \in Dispatcher : pending'[d] \subseteq DOMAIN outbox,
         UNCHANGED <<outbox, deliveries, sending, messages, deaths>>
  PROVE  OutboxInv'
<1>1. OutboxRowsOK'
  BY DEF OutboxInv, OutboxRowsOK
<1>2. ASSUME NEW d \in Dispatcher
      PROVE  sending'[d] = Nothing \/ SendingOK(sending[d])'
  BY DEF OutboxInv, DispatchersOK, SendingOK, ChannelsOf
<1>3. DispatchersOK'
  BY <1>2 DEF OutboxInv, DispatchersOK
<1>4. ASSUME NEW n \in DOMAIN outbox'
      PROVE  SentOK(n)' /\ TriedOK(n)'
  BY DEF OutboxInv, SentOK, TriedOK, ChannelsOf, Reached
<1>. QED
  BY <1>1, <1>3, <1>4 DEF OutboxInv

\* An event about which nothing was sent, and of which no more channel was given
\* up than runs have died with it.
LEMMA SentKeeps ==
  ASSUME OutboxRowsOK, NEW n \in DOMAIN outbox, SentOK(n),
         ChannelsOf(n)' = ChannelsOf(n),
         UNCHANGED <<messages, deaths>>,
         \A i \in DOMAIN ChannelsOf(n) : Reached(n, i) => Reached(n, i)'
  PROVE  SentOK(n)'
<1>1. PICK R : R = ChannelsOf(n)
  OBVIOUS
<1>2. ASSUME NEW i \in DOMAIN R
      PROVE  Count(messages, <<n, R[i]>>)
               <= Count(deaths, n) + IF Reached(n, i)' THEN 1 ELSE 0
  <2>1. Count(messages, <<n, R[i]>>) \in Nat /\ Count(deaths, n) \in Nat
    BY OutboxFacts, CountIsNat
  <2>2. Count(messages, <<n, R[i]>>)
          <= Count(deaths, n) + IF Reached(n, i) THEN 1 ELSE 0
    BY <1>1 DEF SentOK
  <2>3. Reached(n, i) => Reached(n, i)'
    BY <1>1
  <2>. QED
    BY <2>1, <2>2, <2>3
<1>. QED
  BY <1>1, <1>2 DEF SentOK

\* Locking a row: no other run holds it, and it was not dispatched.
LEMMA LockKeeps ==
  ASSUME OutboxInv, NEW d \in Dispatcher, Lock(d)
  PROVE  OutboxInv'
<1>1. /\ OutboxRowsOK /\ DispatchersOK
      /\ Len(outbox) \in Nat /\ DOMAIN outbox = 1..Len(outbox)
  BY OutboxFacts DEF OutboxInv
<1>2. PICK n : n = Min(pending[d])
  OBVIOUS
<1>3. n \in DOMAIN outbox /\ n > 0 /\ n \in Nat
  <2>1. pending[d] # {} /\ pending[d] \in SUBSET (1..Len(outbox))
    BY <1>1 DEF Lock, DispatchersOK
  <2>2. n \in pending[d]
    BY <1>1, <1>2, <2>1, MinOf
  <2>. QED
    BY <1>1, <2>1, <2>2
<1>4. PICK s : s = [event |-> n, left |-> ChannelsOf(n), done |-> <<>>]
  OBVIOUS
<1>5. /\ sending[d] = Nothing /\ RowIsFree(n) /\ ~outbox[n].dispatched
      /\ sending' = [sending EXCEPT ![d] = s]
      /\ UNCHANGED <<outbox, deliveries, pending, messages, deaths>>
  BY <1>2, <1>4 DEF Lock, StillUndispatched, ChannelsOf
<1>6. SendingOK(s)
  <2>1. ChannelsOf(n) \in Seq(Channel) /\ Len(ChannelsOf(n)) \in Nat
    BY RecipientsAre DEF ChannelsOf
  <2>2. <<>> \in Seq(Nat \X Channel \X Outcome) /\ Len(<<>>) = 0
    OBVIOUS
  <2>. QED
    BY <1>3, <1>4, <1>5, <2>1, <2>2 DEF SendingOK
<1>7. OutboxRowsOK'
  BY <1>1, <1>5 DEF OutboxRowsOK
<1>8. ASSUME NEW e \in Dispatcher
      PROVE  /\ pending'[e] \subseteq DOMAIN outbox'
             /\ sending'[e] = Nothing \/ SendingOK(sending[e])'
  <2>1. sending'[e] = IF e = d THEN s ELSE sending[e]
    BY <1>1, <1>5 DEF DispatchersOK
  <2>2. PICK r : r = sending'[e]
    OBVIOUS
  <2>3. r = Nothing \/ SendingOK(r)
    BY <1>1, <1>6, <2>1, <2>2 DEF DispatchersOK
  <2>4. SendingOK(r) => SendingOK(r)'
    BY <1>5 DEF SendingOK, ChannelsOf
  <2>. QED
    BY <1>1, <1>5, <2>2, <2>3, <2>4 DEF DispatchersOK
<1>9. ASSUME NEW e \in Dispatcher, NEW g \in Dispatcher, e # g, sending'[e] # Nothing
      PROVE  sending'[e].event # sending'[g].event
  <2>1. sending'[e] = (IF e = d THEN s ELSE sending[e])
        /\ sending'[g] = (IF g = d THEN s ELSE sending[g])
    BY <1>1, <1>5 DEF DispatchersOK
  <2>2. s.event = n
    BY <1>4
  <2>. QED
    BY <1>1, <1>5, <1>9, <2>1, <2>2 DEF DispatchersOK, RowIsFree
<1>10. DispatchersOK'
  BY <1>1, <1>5, <1>8, <1>9 DEF DispatchersOK
<1>11. ASSUME NEW m \in DOMAIN outbox
       PROVE  SentOK(m)' /\ TriedOK(m)'
  <2>1. SentOK(m) /\ TriedOK(m) /\ m > 0
    BY <1>1 DEF OutboxInv
  <2>2. ASSUME NEW i, Reached(m, i) PROVE Reached(m, i)'
    <3>1. ASSUME NEW e \in Dispatcher, sending[e].event = m
          PROVE  sending'[e] = sending[e]
      <4>1. e # d
        BY <1>5, <2>1, <3>1 DEF Nothing
      <4>. QED
        BY <1>1, <1>5, <4>1 DEF DispatchersOK
    <3>. QED
      BY <1>5, <2>2, <3>1 DEF Reached
  <2>3. SentOK(m)'
    BY <1>1, <1>5, <2>1, <2>2, SentKeeps DEF ChannelsOf
  <2>4. TriedOK(m)'
    BY <1>5, <2>1 DEF TriedOK, ChannelsOf
  <2>. QED
    BY <2>3, <2>4
<1>. QED
  BY <1>5, <1>7, <1>10, <1>11 DEF OutboxInv

\* The next channel of an event is one that nobody has reached.
LEMMA SendKeeps ==
  ASSUME OutboxInv, NEW d \in Dispatcher, Send(d)
  PROVE  OutboxInv'
<1>1. /\ OutboxRowsOK /\ DispatchersOK
      /\ IsSeq(messages) /\ IsSeq(deaths) /\ DOMAIN sending = Dispatcher
  BY OutboxFacts DEF OutboxInv, DispatchersOK
<1>2. PICK s : s = sending[d]
  OBVIOUS
<1>3. SendingOK(s) /\ s # Nothing /\ s.left # <<>>
  BY <1>1, <1>2 DEF Send, DispatchersOK
<1>4. PICK n \in DOMAIN outbox : n = s.event
  BY <1>3 DEF SendingOK
<1>5. n \in Nat /\ n > 0 /\ ~outbox[n].dispatched
  BY <1>1, <1>3, <1>4, OutboxFacts DEF SendingOK
<1>6. PICK R : R = ChannelsOf(n)
  OBVIOUS
<1>7. /\ R \in Seq(Channel) /\ Len(R) \in Nat /\ DOMAIN R = 1..Len(R)
      /\ \A i, j \in DOMAIN R : R[i] = R[j] => i = j
  BY <1>6, RecipientsAre DEF ChannelsOf
<1>8. PICK left \in Seq(Channel), done \in Seq(Nat \X Channel \X Outcome) :
        s = [event |-> n, left |-> left, done |-> done]
  BY <1>3, <1>4 DEF SendingOK
<1>9. /\ left # <<>> /\ Len(left) \in Nat /\ Len(left) > 0 /\ Len(done) \in Nat
      /\ Len(done) + Len(left) = Len(R)
      /\ \A j \in 1..Len(left) : left[j] = R[Len(done) + j]
      /\ \A j \in 1..Len(done) : \/ done[j] = <<n, R[j], "SENT">>
                                 \/ done[j] = <<n, R[j], "PENDING">>
  BY <1>3, <1>6, <1>8 DEF SendingOK
<1>10. PICK k \in DOMAIN R : k = Len(done) + 1
  BY <1>7, <1>9
<1>11. /\ Head(left) = R[k] /\ R[k] \in Channel
       /\ sending[d].event = n /\ Head(sending[d].left) = R[k]
  BY <1>2, <1>7, <1>8, <1>9, <1>10
<1>12. PICK res \in Outcome :
         /\ sending' = [sending EXCEPT ![d].left = Tail(@),
                                       ![d].done = Append(@, <<n, R[k], res>>)]
         /\ \/ messages' = Append(messages, <<n, R[k]>>)
            \/ UNCHANGED messages
  BY <1>11 DEF Send
<1>13. PICK t : t = [event |-> n, left |-> Tail(left),
                     done |-> Append(done, <<n, R[k], res>>)]
  OBVIOUS
<1>14. DOMAIN sending' = Dispatcher
       /\ \A e \in Dispatcher : sending'[e] = IF e = d THEN t ELSE sending[e]
  <2>1. sending[d] = [event |-> n, left |-> left, done |-> done]
    BY <1>2, <1>8
  <2>2. PICK tl, dn : tl = Tail(left) /\ dn = Append(done, <<n, R[k], res>>)
    OBVIOUS
  <2>3. sending[d].left = left /\ sending[d].done = done
    BY <2>1
  <2>4. sending' = [sending EXCEPT ![d].left = tl, ![d].done = dn]
    BY <1>12, <2>2, <2>3
  <2>5. ASSUME NEW a, NEW b, NEW c, NEW a2, NEW b2, NEW c2
        PROVE  /\ [[event |-> a, left |-> b, done |-> c] EXCEPT !.left = b2]
                    = [event |-> a, left |-> b2, done |-> c]
               /\ [[event |-> a, left |-> b2, done |-> c] EXCEPT !.done = c2]
                    = [event |-> a, left |-> b2, done |-> c2]
    BY ONLY TRUE
  <2>6. t = [event |-> n, left |-> tl, done |-> dn]
    BY <1>13, <2>2
  <2>7. DOMAIN sending' = Dispatcher
        /\ \A e \in Dispatcher \ {d} : sending'[e] = sending[e]
    BY <1>1, <2>4
  <2>8. sending'[d] = [[sending[d] EXCEPT !.left = tl] EXCEPT !.done = dn]
    BY <1>1, <2>4
  <2>9. sending'[d] = t
    <3>1. [sending[d] EXCEPT !.left = tl] = [event |-> n, left |-> tl, done |-> done]
      BY <2>1, <2>5
    <3>2. sending'[d] = [[event |-> n, left |-> tl, done |-> done] EXCEPT !.done = dn]
      BY ONLY <2>8, <3>1
    <3>. QED
      BY ONLY <2>5, <2>6, <3>2
  <2>. QED
    BY <2>7, <2>9
<1>15. UNCHANGED <<outbox, deliveries, pending, deaths>>
  BY DEF Send
<1>16. /\ Len(t.done) = k /\ t.event = n
       /\ t.done \in Seq(Nat \X Channel \X Outcome)
       /\ \A j \in 1..Len(done) : t.done[j] = done[j]
       /\ t.done[k] = <<n, R[k], res>>
  <2>1. <<n, R[k], res>> \in Nat \X Channel \X Outcome
    BY <1>5, <1>11
  <2>. QED
    BY <1>8, <1>9, <1>10, <1>13, <2>1
<1>17. SendingOK(t)
  <2>1. t.left \in Seq(Channel) /\ Len(t.left) = Len(left) - 1
        /\ \A j \in 1..Len(t.left) : t.left[j] = left[j + 1]
    BY <1>8, <1>9, <1>13
  <2>2. Len(t.done) + Len(t.left) = Len(R)
    BY <1>9, <1>10, <1>16, <2>1
  <2>3. \A j \in 1..Len(t.left) : t.left[j] = R[Len(t.done) + j]
    <3>1. ASSUME NEW j \in 1..Len(t.left) PROVE t.left[j] = R[Len(t.done) + j]
      <4>1. j + 1 \in 1..Len(left) /\ Len(done) + (j + 1) = Len(t.done) + j
        BY <1>9, <1>10, <1>16, <2>1
      <4>. QED
        BY <1>9, <2>1, <4>1
    <3>. QED
      BY <3>1
  <2>4. \A j \in 1..Len(t.done) : \/ t.done[j] = <<n, R[j], "SENT">>
                                  \/ t.done[j] = <<n, R[j], "PENDING">>
    <3>1. ASSUME NEW j \in 1..Len(t.done)
          PROVE  t.done[j] = <<n, R[j], "SENT">> \/ t.done[j] = <<n, R[j], "PENDING">>
      <4>1. j \in 1..Len(done) \/ j = k
        BY <1>9, <1>10, <1>16
      <4>. QED
        BY <1>9, <1>16, <4>1 DEF Outcome
    <3>. QED
      BY <3>1
  <2>. QED
    BY <1>5, <1>6, <1>13, <1>16, <2>1, <2>2, <2>3, <2>4 DEF SendingOK
<1>18. OutboxRowsOK'
  <2>1. <<n, R[k]>> \in Nat \X Channel
    BY <1>5, <1>11
  <2>2. CASE UNCHANGED messages
    BY <1>1, <1>15, <2>2 DEF OutboxRowsOK
  <2>3. CASE messages' = Append(messages, <<n, R[k]>>)
    <3>1. messages' \in Seq(Nat \X Channel)
      BY <1>1, <2>1, <2>3 DEF OutboxRowsOK
    <3>2. \A m \in DOMAIN messages' : messages'[m][1] \in DOMAIN outbox
      <4>1. PICK x : x = <<n, R[k]>>
        OBVIOUS
      <4>2. Appends(messages', messages, x)
        BY <2>3, <4>1 DEF Appends
      <4>3. PICK M : M = messages'
        OBVIOUS
      <4>4. /\ DOMAIN messages = 1..Len(messages) /\ Len(messages) \in Nat
            /\ DOMAIN M = 1..(Len(messages) + 1)
            /\ \A i \in 1..Len(messages) : M[i] = messages[i]
            /\ M[Len(messages) + 1] = x
        BY <1>1, <4>2, <4>3, SeqAppended
      <4>5. \A i \in DOMAIN M : i \in 1..Len(messages) \/ i = Len(messages) + 1
        BY <4>4
      <4>6. x[1] = n
        BY <4>1
      <4>. QED
        BY <1>1, <4>3, <4>4, <4>5, <4>6 DEF OutboxRowsOK
    <3>. QED
      BY <1>1, <1>15, <3>1, <3>2 DEF OutboxRowsOK
  <2>. QED
    BY <1>12, <2>2, <2>3
<1>19. ASSUME NEW e \in Dispatcher
       PROVE  /\ pending'[e] \subseteq DOMAIN outbox'
              /\ sending'[e] = Nothing \/ SendingOK(sending[e])'
  <2>1. sending'[e] = IF e = d THEN t ELSE sending[e]
    BY <1>1, <1>14
  <2>2. PICK r : r = sending'[e]
    OBVIOUS
  <2>3. r = Nothing \/ SendingOK(r)
    BY <1>1, <1>17, <2>1, <2>2 DEF DispatchersOK
  <2>4. SendingOK(r) => SendingOK(r)'
    BY <1>15 DEF SendingOK, ChannelsOf
  <2>. QED
    BY <1>1, <1>15, <2>2, <2>3, <2>4 DEF DispatchersOK
<1>20. ASSUME NEW e \in Dispatcher PROVE sending'[e].event = sending[e].event
  <2>1. sending'[e] = IF e = d THEN t ELSE sending[e]
    BY <1>1, <1>14
  <2>. QED
    BY <1>2, <1>4, <1>16, <2>1
<1>21. ASSUME NEW e \in Dispatcher, sending'[e] # Nothing PROVE sending[e] # Nothing
  <2>1. sending'[e] = IF e = d THEN t ELSE sending[e]
    BY <1>1, <1>14
  <2>. QED
    BY <1>2, <1>3, <1>21, <2>1
<1>22. DispatchersOK'
  <2>1. DOMAIN pending' = Dispatcher /\ DOMAIN sending' = Dispatcher
    BY <1>1, <1>14, <1>15 DEF DispatchersOK
  <2>2. ASSUME NEW e \in Dispatcher, NEW g \in Dispatcher, e # g, sending'[e] # Nothing
        PROVE  sending'[e].event # sending'[g].event
    BY <1>1, <1>20, <1>21, <2>2 DEF DispatchersOK
  <2>. QED
    BY <1>19, <2>1, <2>2 DEF DispatchersOK
<1>23. ASSUME NEW m \in DOMAIN outbox
       PROVE  SentOK(m)' /\ TriedOK(m)'
  <2>1. SentOK(m) /\ TriedOK(m) /\ m > 0
    BY <1>1, OutboxFacts DEF OutboxInv
  <2>2. TriedOK(m)'
    BY <1>15, <2>1 DEF TriedOK, ChannelsOf
  <2>3. PICK Q : Q = ChannelsOf(m)
    OBVIOUS
  <2>4. ASSUME NEW i \in DOMAIN Q
        PROVE  Count(messages', <<m, Q[i]>>)
                 <= Count(deaths, m) + IF Reached(m, i)' THEN 1 ELSE 0
    <3>0. PICK x, y : x = <<m, Q[i]>> /\ y = <<n, R[k]>>
      OBVIOUS
    <3>1. Count(messages, x) \in Nat /\ Count(deaths, m) \in Nat
      BY <1>1, CountIsNat
    <3>2. Count(messages, x) <= Count(deaths, m) + IF Reached(m, i) THEN 1 ELSE 0
      BY <2>1, <2>3, <3>0 DEF SentOK
    <3>3. Reached(m, i) => Reached(m, i)'
      <4>1. CASE outbox[m].dispatched
        BY <1>15, <4>1 DEF Reached
      <4>2. ASSUME NEW e \in Dispatcher, sending[e].event = m, i <= Len(sending[e].done)
            PROVE  Reached(m, i)'
        <5>1. i <= Len(sending'[e].done)
          <6>1. sending'[e] = IF e = d THEN t ELSE sending[e]
            BY <1>1, <1>14
          <6>2. i \in Nat
            BY <2>3, RecipientsAre DEF ChannelsOf
          <6>3. CASE e = d
            <7>0. sending[d].done = done
              BY <1>2, <1>8
            <7>1. i <= Len(done)
              BY <4>2, <6>3, <7>0
            <7>. QED
              BY <1>9, <1>10, <1>16, <6>1, <6>2, <6>3, <7>1
          <6>. QED
            BY <4>2, <6>1, <6>3
        <5>. QED
          BY <1>20, <4>2, <5>1 DEF Reached
      <4>. QED
        BY <4>1, <4>2 DEF Reached
    <3>4. Count(messages', x) = Count(messages, x)
          \/ (x = y /\ Count(messages', x) = Count(messages, x) + 1)
      <4>1. CASE UNCHANGED messages
        BY <4>1
      <4>2. CASE messages' = Append(messages, <<n, R[k]>>)
        <5>1. PICK M : M = messages'
          OBVIOUS
        <5>2. Appends(M, messages, y)
          BY <3>0, <4>2, <5>1 DEF Appends
        <5>3. Count(M, x) = Count(messages, x) + IF x = y THEN 1 ELSE 0
          BY <1>1, <5>2, CountAppended
        <5>. QED
          BY <3>1, <5>1, <5>3
      <4>. QED
        BY <1>12, <4>1, <4>2
    <3>5. CASE x # y
      BY <3>0, <3>1, <3>2, <3>3, <3>4, <3>5
    <3>6. CASE x = y
      <4>0. m = n /\ Q[i] = R[k]
        BY <3>0, <3>6
      <4>1. m = n /\ Q = R /\ i = k
        BY <1>6, <1>7, <2>3, <4>0
      <4>2. ~Reached(m, i)
        <5>1. \A e \in Dispatcher : sending[e].event = n => e = d
          BY <1>1, <1>2, <1>3, <1>4 DEF DispatchersOK
        <5>2. ~(k <= Len(done))
          BY <1>9, <1>10
        <5>3. sending[d].done = done
          BY <1>2, <1>8
        <5>. QED
          BY <1>5, <4>1, <5>1, <5>2, <5>3 DEF Reached
      <4>3. Reached(m, i)'
        <5>1. sending'[d] = t
          BY <1>1, <1>14
        <5>. QED
          BY <1>10, <1>16, <4>1, <5>1 DEF Reached
      <4>. QED
        BY <3>0, <3>1, <3>2, <3>4, <4>2, <4>3
    <3>. QED
      BY <3>5, <3>6
  <2>5. ChannelsOf(m)' = Q
    BY <1>15, <2>3 DEF ChannelsOf
  <2>6. SentOK(m)'
    BY <1>15, <2>4, <2>5 DEF SentOK
  <2>. QED
    BY <2>2, <2>6
<1>. QED
  BY <1>15, <1>18, <1>22, <1>23 DEF OutboxInv

\* A row that is held and has no channel left has one delivery on each.
LEMMA DoneOnce ==
  ASSUME OutboxRowsOK, NEW s, SendingOK(s), NEW i \in 1..Len(s.done),
         NEW R, R = ChannelsOf(s.event)
  PROVE  Count(s.done, <<s.event, R[i], "SENT">>)
           + Count(s.done, <<s.event, R[i], "PENDING">>) = 1
<1>1. PICK n, done : n = s.event /\ done = s.done
  OBVIOUS
<1>2. /\ done \in Seq(Nat \X Channel \X Outcome)
      /\ Len(done) \in Nat /\ DOMAIN done = 1..Len(done)
      /\ DOMAIN R = 1..Len(R) /\ Len(R) \in Nat
      /\ \A g, j \in DOMAIN R : R[g] = R[j] => g = j
      /\ \A j \in 1..Len(done) : \/ done[j] = <<n, R[j], "SENT">>
                                 \/ done[j] = <<n, R[j], "PENDING">>
  BY <1>1, RecipientsAre DEF SendingOK, ChannelsOf
<1>3. Len(done) <= Len(R)
  BY <1>1, <1>2 DEF SendingOK
<1>4. PICK sent, error : /\ sent = {j \in DOMAIN done : done[j] = <<n, R[i], "SENT">>}
                         /\ error = {j \in DOMAIN done : done[j] = <<n, R[i], "PENDING">>}
  OBVIOUS
<1>5. /\ Count(done, <<n, R[i], "SENT">>) = Cardinality(sent)
       /\ Count(done, <<n, R[i], "PENDING">>) = Cardinality(error)
  BY <1>4 DEF Count
<1>6. \A j \in DOMAIN done : j \in sent \/ j \in error => j = i
  <2>1. ASSUME NEW j \in DOMAIN done, j \in sent \/ j \in error
        PROVE  j = i
    <3>1. done[j] = <<n, R[i], "SENT">> \/ done[j] = <<n, R[i], "PENDING">>
      BY <1>4, <2>1
    <3>2. done[j] = <<n, R[j], "SENT">> \/ done[j] = <<n, R[j], "PENDING">>
      BY <1>2
    <3>3. R[i] = R[j]
      BY <3>1, <3>2
    <3>4. i \in DOMAIN R /\ j \in DOMAIN R
      BY <1>1, <1>2, <1>3
    <3>. QED
      BY <1>2, <3>3, <3>4
  <2>. QED
    BY <2>1
<1>7. i \in DOMAIN done
      /\ (done[i] = <<n, R[i], "SENT">> \/ done[i] = <<n, R[i], "PENDING">>)
  BY <1>1, <1>2
<1>8. Cardinality({}) = 0 /\ Cardinality({i}) = 1
  BY FS_EmptySet, FS_Singleton
<1>9. CASE done[i] = <<n, R[i], "SENT">>
  <2>1. i \in sent /\ i \notin error
    BY <1>4, <1>7, <1>9
  <2>2. sent \subseteq DOMAIN done /\ error \subseteq DOMAIN done
    BY <1>4
  <2>3. sent = {i} /\ error = {}
    BY <1>6, <2>1, <2>2
  <2>. QED
    BY <1>1, <1>8, <1>5, <2>3
<1>10. CASE done[i] = <<n, R[i], "PENDING">>
  <2>1. i \notin sent /\ i \in error
    BY <1>4, <1>7, <1>10
  <2>2. sent \subseteq DOMAIN done /\ error \subseteq DOMAIN done
    BY <1>4
  <2>3. sent = {} /\ error = {i}
    BY <1>6, <2>1, <2>2
  <2>. QED
    BY <1>1, <1>8, <1>5, <2>3
<1>. QED
  BY <1>7, <1>9, <1>10

\* The commit of an event's deliveries makes it dispatched.
LEMMA CommitKeeps ==
  ASSUME OutboxInv, NEW d \in Dispatcher, Commit(d)
  PROVE  OutboxInv'
<1>1. /\ OutboxRowsOK /\ DispatchersOK
      /\ IsSeq(outbox) /\ IsSeq(messages) /\ IsSeq(deaths)
      /\ DOMAIN sending = Dispatcher /\ DOMAIN pending = Dispatcher
  BY OutboxFacts DEF OutboxInv, DispatchersOK
<1>2. PICK s : s = sending[d]
  OBVIOUS
<1>3. SendingOK(s) /\ s # Nothing /\ s.left = <<>>
  BY <1>1, <1>2 DEF Commit, DispatchersOK, Done
<1>4. PICK n \in DOMAIN outbox : n = s.event
  BY <1>3 DEF SendingOK
<1>5. PICK done \in Seq(Nat \X Channel \X Outcome) : done = s.done
  BY <1>3 DEF SendingOK
<1>6. /\ n \in Nat /\ n > 0 /\ outbox[n] \in Event /\ ~outbox[n].dispatched
      /\ outbox \in Seq(Event)
  BY <1>1, <1>3, <1>4, OutboxFacts DEF SendingOK, OutboxRowsOK
<1>7. /\ outbox' = [outbox EXCEPT ![n].dispatched = TRUE]
      /\ deliveries' = deliveries \o done
      /\ pending' = [pending EXCEPT ![d] = @ \ {n}]
      /\ sending' = [sending EXCEPT ![d] = Nothing]
      /\ UNCHANGED <<messages, deaths>>
  BY <1>2, <1>4, <1>5 DEF Commit
<1>8. PICK row1 : row1 = [outbox[n] EXCEPT !.dispatched = TRUE]
  OBVIOUS
<1>9. row1 \in Event /\ row1.code = outbox[n].code /\ row1.dispatched
  BY <1>6, <1>8 DEF Event
<1>10. /\ outbox' = [outbox EXCEPT ![n] = row1]
       /\ DOMAIN outbox' = DOMAIN outbox
       /\ \A m \in DOMAIN outbox : outbox'[m] = IF m = n THEN row1 ELSE outbox[m]
       /\ outbox' \in Seq(Event)
  BY <1>6, <1>7, <1>8, <1>9
<1>11. \A m \in DOMAIN outbox : outbox'[m].code = outbox[m].code
  BY <1>9, <1>10
<1>12. deliveries \in Seq(Nat \X Channel \X Outcome)
  BY <1>1 DEF OutboxRowsOK
<1>13. PICK R : R = ChannelsOf(n)
  OBVIOUS
<1>14. /\ Len(done) \in Nat /\ DOMAIN done = 1..Len(done) /\ Len(done) = Len(R)
       /\ DOMAIN R = 1..Len(R)
       /\ \A j \in 1..Len(done) : \/ done[j] = <<n, R[j], "SENT">>
                                  \/ done[j] = <<n, R[j], "PENDING">>
  <2>1. Len(s.left) = 0
    BY <1>3
  <2>2. Len(R) \in Nat /\ DOMAIN R = 1..Len(R)
    BY <1>13, RecipientsAre DEF ChannelsOf
  <2>3. Len(done) + 0 = Len(R) /\ Len(done) \in Nat /\ DOMAIN done = 1..Len(done)
    BY <1>3, <1>4, <1>5, <1>13, <2>1 DEF SendingOK
  <2>. QED
    BY <1>3, <1>4, <1>5, <1>13, <2>2, <2>3 DEF SendingOK
<1>15. OutboxRowsOK'
  <2>1. deliveries' \in Seq(Nat \X Channel \X Outcome)
    BY <1>7, <1>12
  <2>2. ASSUME NEW m \in DOMAIN deliveries' PROVE deliveries'[m][1] \in DOMAIN outbox
    <3>1a. PICK p \in Nat, q \in Nat : \E D :
            p = Len(deliveries) /\ q = Len(done)
             /\ D = deliveries'
      BY <1>12
    <3>1. PICK D :
            p = Len(deliveries) /\ q = Len(done)
             /\ D = deliveries'
      BY <3>1a
    <3>2. /\ DOMAIN D = 1..(p + q) /\ DOMAIN deliveries = 1..p
          /\ \A j \in 1..p : D[j] = deliveries[j]
          /\ \A j \in 1..q : D[p + j] = done[j]
      BY <1>7, <1>12, <3>1
    <3>3. CASE m \in 1..p
      BY <1>1, <3>1, <3>2, <3>3 DEF OutboxRowsOK
    <3>4. CASE m \notin 1..p
      <4>1. m - p \in 1..q /\ p + (m - p) = m
        BY <3>1, <3>2, <3>4
      <4>2. D[m] = done[m - p]
        BY <3>2, <4>1
      <4>3. done[m - p][1] = n
        BY <1>14, <3>1, <4>1
      <4>. QED
        BY <3>1, <4>2, <4>3
    <3>. QED
      BY <3>3, <3>4
  <2>. QED
    BY <1>1, <1>7, <1>10, <2>1, <2>2 DEF OutboxRowsOK
<1>16. ASSUME NEW e \in Dispatcher
       PROVE  sending'[e] = IF e = d THEN Nothing ELSE sending[e]
  BY <1>1, <1>7
<1>17. ASSUME NEW e \in Dispatcher
       PROVE  sending'[e] = Nothing \/ SendingOK(sending[e])'
  <2>1. CASE e = d
    BY <1>16, <2>1
  <2>2. CASE e # d /\ sending[e] # Nothing
    <3>1. PICK r : r = sending[e]
      OBVIOUS
    <3>2. SendingOK(r) /\ r.event # n /\ sending'[e] = r
      BY <1>1, <1>2, <1>4, <1>16, <2>2, <3>1 DEF DispatchersOK
    <3>3. r.event \in DOMAIN outbox /\ outbox'[r.event] = outbox[r.event]
      BY <1>10, <3>2 DEF SendingOK
    <3>4. SendingOK(r)'
      BY <1>10, <3>2, <3>3 DEF SendingOK, ChannelsOf
    <3>. QED
      BY <3>2, <3>4
  <2>. QED
    BY <1>16, <2>1, <2>2
<1>18. DispatchersOK'
  <2>1. DOMAIN pending' = Dispatcher /\ DOMAIN sending' = Dispatcher
    BY <1>1, <1>7
  <2>2. ASSUME NEW e \in Dispatcher PROVE pending'[e] \subseteq DOMAIN outbox'
    BY <1>1, <1>7, <1>10 DEF DispatchersOK
  <2>3. ASSUME NEW e \in Dispatcher, NEW g \in Dispatcher, e # g, sending'[e] # Nothing
        PROVE  sending'[e].event # sending'[g].event
    <3>1. e # d /\ sending'[e] = sending[e]
      BY <1>16, <2>3
    <3>2. SendingOK(sending[e]) /\ sending[e] # Nothing
      BY <1>1, <2>3, <3>1 DEF DispatchersOK
    <3>3. sending[e].event > 0
      BY <1>1, <3>2, NothingIsNone
    <3>. QED
      BY <1>1, <1>16, <2>3, <3>1, <3>2, <3>3 DEF DispatchersOK, Nothing
  <2>. QED
    BY <1>17, <2>1, <2>2, <2>3 DEF DispatchersOK
<1>19. ASSUME NEW m \in DOMAIN outbox
       PROVE  SentOK(m)'
  <2>1. SentOK(m)
    BY DEF OutboxInv
  <2>2. ASSUME NEW i, Reached(m, i) PROVE Reached(m, i)'
    <3>1. CASE m = n
      BY <1>9, <1>10, <3>1 DEF Reached
    <3>2. CASE m # n
      <4>1. \A e \in Dispatcher : sending[e].event = m => sending'[e] = sending[e]
        BY <1>2, <1>4, <1>16, <3>2
      <4>2. outbox'[m] = outbox[m]
        BY <1>10, <3>2
      <4>. QED
        BY <2>2, <4>1, <4>2 DEF Reached
    <3>. QED
      BY <3>1, <3>2
  <2>3. ChannelsOf(m)' = ChannelsOf(m)
    BY <1>11 DEF ChannelsOf
  <2>. QED
    BY <1>1, <1>7, <2>1, <2>2, <2>3, SentKeeps
<1>20. ASSUME NEW m \in DOMAIN outbox
       PROVE  TriedOK(m)'
  <2>1. PICK Q : Q = ChannelsOf(m)
    OBVIOUS
  <2>2. ChannelsOf(m)' = Q
    BY <1>11, <2>1 DEF ChannelsOf
  <2>3. ASSUME NEW i \in DOMAIN Q
        PROVE  Count(deliveries', <<m, Q[i], "SENT">>)
                   + Count(deliveries', <<m, Q[i], "PENDING">>)
                 = IF outbox'[m].dispatched THEN 1 ELSE 0
    <3>1. PICK x, y : x = <<m, Q[i], "SENT">> /\ y = <<m, Q[i], "PENDING">>
      OBVIOUS
    <3>2. /\ Count(deliveries', x) = Count(deliveries, x) + Count(done, x)
          /\ Count(deliveries', y) = Count(deliveries, y) + Count(done, y)
      BY <1>7, <1>12, CountJoined
    <3>3. Count(deliveries, x) + Count(deliveries, y)
            = IF outbox[m].dispatched THEN 1 ELSE 0
      BY <2>1, <3>1 DEF OutboxInv, TriedOK
    <3>4. /\ Count(deliveries, x) \in Nat /\ Count(deliveries, y) \in Nat
          /\ Count(done, x) \in Nat /\ Count(done, y) \in Nat
      BY <1>12, CountIsNat DEF IsSeq
    <3>5. CASE m = n
      <4>1. Count(done, x) + Count(done, y) = 1
        <5>1. Q = R /\ i \in 1..Len(s.done) /\ R = ChannelsOf(s.event)
          BY <1>4, <1>5, <1>13, <1>14, <2>1, <3>5
        <5>2. Count(s.done, <<s.event, R[i], "SENT">>)
                + Count(s.done, <<s.event, R[i], "PENDING">>) = 1
          BY <1>1, <1>3, <5>1, DoneOnce
        <5>. QED
          BY <1>4, <1>5, <3>1, <3>5, <5>1, <5>2
      <4>2. outbox'[m].dispatched /\ ~outbox[m].dispatched
        BY <1>6, <1>9, <1>10, <3>5
      <4>. QED
        BY <3>1, <3>2, <3>3, <3>4, <4>1, <4>2
    <3>6. CASE m # n
      <4>1. \A j \in DOMAIN done : done[j] # x /\ done[j] # y
        BY <1>14, <3>1, <3>6
      <4>2. IsSeq(done)
        BY DEF IsSeq
      <4>3. ~(Count(done, x) > 0) /\ ~(Count(done, y) > 0)
        BY <4>1, <4>2, CountIsNat
      <4>4. outbox'[m] = outbox[m]
        BY <1>10, <3>6
      <4>5. Count(done, x) = 0 /\ Count(done, y) = 0
        BY <3>4, <4>3
      <4>. QED
        BY <3>1, <3>2, <3>3, <3>4, <4>4, <4>5
    <3>. QED
      BY <3>5, <3>6
  <2>. QED
    BY <2>2, <2>3 DEF TriedOK
<1>. QED
  BY <1>10, <1>15, <1>18, <1>19, <1>20 DEF OutboxInv

\* A run that dies is remembered with the event it held.
LEMMA DieKeeps ==
  ASSUME OutboxInv, NEW d \in Dispatcher, Die(d)
  PROVE  OutboxInv'
<1>1. /\ OutboxRowsOK /\ DispatchersOK
      /\ IsSeq(messages) /\ IsSeq(deaths)
      /\ DOMAIN sending = Dispatcher /\ DOMAIN pending = Dispatcher
  BY OutboxFacts DEF OutboxInv, DispatchersOK
<1>2. PICK n \in Nat : n = sending[d].event
  BY <1>1, NothingIsNone DEF DispatchersOK, Nothing
<1>3. /\ deaths' = Append(deaths, n)
      /\ sending' = [sending EXCEPT ![d] = Nothing]
      /\ pending' = [pending EXCEPT ![d] = {}]
      /\ UNCHANGED <<outbox, deliveries, messages>>
  BY <1>2 DEF Die
<1>4. OutboxRowsOK'
  BY <1>1, <1>3 DEF OutboxRowsOK
<1>5. ASSUME NEW e \in Dispatcher
      PROVE  sending'[e] = IF e = d THEN Nothing ELSE sending[e]
  BY <1>1, <1>3
<1>6. ASSUME NEW e \in Dispatcher
      PROVE  /\ pending'[e] \subseteq DOMAIN outbox'
             /\ sending'[e] = Nothing \/ SendingOK(sending[e])'
  <2>1. pending'[e] \subseteq DOMAIN outbox'
    BY <1>1, <1>3 DEF DispatchersOK
  <2>2. PICK r : r = sending'[e]
    OBVIOUS
  <2>3. r = Nothing \/ SendingOK(r)
    BY <1>1, <1>5, <2>2 DEF DispatchersOK
  <2>4. SendingOK(r) => SendingOK(r)'
    BY <1>3 DEF SendingOK, ChannelsOf
  <2>. QED
    BY <2>1, <2>2, <2>3, <2>4
<1>7. DispatchersOK'
  <2>1. DOMAIN pending' = Dispatcher /\ DOMAIN sending' = Dispatcher
    BY <1>1, <1>3
  <2>2. ASSUME NEW e \in Dispatcher, NEW g \in Dispatcher, e # g, sending'[e] # Nothing
        PROVE  sending'[e].event # sending'[g].event
    <3>1. e # d /\ sending'[e] = sending[e]
      BY <1>5, <2>2
    <3>2. SendingOK(sending[e]) /\ sending[e] # Nothing
      BY <1>1, <2>2, <3>1 DEF DispatchersOK
    <3>3. sending[e].event > 0
      BY <1>1, <3>2, NothingIsNone
    <3>. QED
      BY <1>1, <1>5, <2>2, <3>1, <3>2, <3>3 DEF DispatchersOK, Nothing
  <2>. QED
    BY <1>6, <2>1, <2>2 DEF DispatchersOK
<1>8. ASSUME NEW m \in DOMAIN outbox
      PROVE  SentOK(m)' /\ TriedOK(m)'
  <2>1. SentOK(m) /\ TriedOK(m)
    BY DEF OutboxInv
  <2>2. TriedOK(m)'
    BY <1>3, <2>1 DEF TriedOK, ChannelsOf
  <2>3. PICK Q : Q = ChannelsOf(m)
    OBVIOUS
  <2>4. ChannelsOf(m)' = Q
    BY <1>3, <2>3 DEF ChannelsOf
  <2>5. Count(deaths', m) = Count(deaths, m) + IF m = n THEN 1 ELSE 0
    <3>1. PICK E : E = deaths'
      OBVIOUS
    <3>2. Appends(E, deaths, n)
      BY <1>3, <3>1 DEF Appends
    <3>. QED
      BY <1>1, <3>1, <3>2, CountAppended
  <2>6. ASSUME NEW i \in DOMAIN Q
        PROVE  Count(messages, <<m, Q[i]>>)
                 <= Count(deaths', m) + IF Reached(m, i)' THEN 1 ELSE 0
    <3>1. Count(messages, <<m, Q[i]>>) \in Nat /\ Count(deaths, m) \in Nat
      BY <1>1, CountIsNat
    <3>2. Count(messages, <<m, Q[i]>>)
            <= Count(deaths, m) + IF Reached(m, i) THEN 1 ELSE 0
      BY <2>1, <2>3 DEF SentOK
    <3>3. m # n /\ Reached(m, i) => Reached(m, i)'
      <4>1. ASSUME m # n, NEW e \in Dispatcher, sending[e].event = m
            PROVE  sending'[e] = sending[e]
        BY <1>2, <1>5, <4>1
      <4>. QED
        BY <1>3, <4>1 DEF Reached
    <3>. QED
      BY <2>5, <3>1, <3>2, <3>3
  <2>7. SentOK(m)'
    BY <1>3, <2>4, <2>6 DEF SentOK
  <2>. QED
    BY <2>2, <2>7
<1>. QED
  BY <1>3, <1>4, <1>7, <1>8 DEF OutboxInv

\* Every step of the dispatchers keeps the invariant.
LEMMA DispatchKeeps ==
  ASSUME OutboxInv, Dispatch
  PROVE  OutboxInv'
<1>1. /\ DispatchersOK /\ DOMAIN pending = Dispatcher
  BY DEF OutboxInv, DispatchersOK
<1>2. PICK d \in Dispatcher : Run(d) \/ Die(d)
  BY DEF Dispatch
<1>3. CASE StartRun(d)
  <2>1. \A e \in Dispatcher : pending'[e] \subseteq DOMAIN outbox
    BY <1>1, <1>3 DEF StartRun, DispatchersOK, Undispatched
  <2>2. DOMAIN pending' = Dispatcher
    BY <1>1, <1>3 DEF StartRun
  <2>3. UNCHANGED <<outbox, deliveries, sending, messages, deaths>>
    BY <1>3 DEF StartRun
  <2>. QED
    BY <2>1, <2>2, <2>3, ListingKeeps
<1>4. CASE Skip(d)
  <2>1. \A e \in Dispatcher : pending'[e] \subseteq DOMAIN outbox
    BY <1>1, <1>4 DEF Skip, DispatchersOK
  <2>2. DOMAIN pending' = Dispatcher
    BY <1>1, <1>4 DEF Skip
  <2>3. UNCHANGED <<outbox, deliveries, sending, messages, deaths>>
    BY <1>4 DEF Skip
  <2>. QED
    BY <2>1, <2>2, <2>3, ListingKeeps
<1>5. CASE Lock(d)
  BY <1>5, LockKeeps
<1>6. CASE Send(d)
  BY <1>6, SendKeeps
<1>7. CASE Commit(d)
  BY <1>7, CommitKeeps
<1>8. CASE Die(d)
  BY <1>8, DieKeeps
<1>. QED
  BY <1>2, <1>3, <1>4, <1>5, <1>6, <1>7, <1>8 DEF Run

\* The files add to the outbox and leave it alone otherwise.
LEMMA FilesEmit ==
  ASSUME FilesNext
  PROVE  (\E code \in DOMAIN Addressee : Emit(code)) \/ UNCHANGED outboxVars
<1>1. CASE RegisterCustomer
  BY <1>1, BackOfficeAssumption DEF RegisterCustomer
<1>2. CASE CreateProfile
  BY <1>2 DEF CreateProfile, NoEvent
<1>3. CASE MakePayment
  BY <1>3, BackOfficeAssumption DEF MakePayment, CheckPaymentPatterns, RaiseAlert
<1>4. ASSUME NEW o \in Officer, SubmitKyc(o)
      PROVE  \E code \in DOMAIN Addressee : Emit(code)
  BY <1>4, BackOfficeAssumption DEF SubmitKyc
<1>5. ASSUME NEW o \in Officer, RecordReview(o)
      PROVE  (\E code \in DOMAIN Addressee : Emit(code)) \/ UNCHANGED outboxVars
  BY <1>5, BackOfficeAssumption DEF RecordReview, NoEvent
<1>6. ASSUME NEW o \in Officer,
             \/ ReadToUpdate(o) \/ UpdateProfile(o)
             \/ ReadToSetStatus(o) \/ SetCustomerStatus(o)
             \/ ReadForSubmission(o) \/ ReadKyc(o) \/ ReviewKyc(o)
             \/ ReadAlert(o) \/ JudgeAlert(o) \/ RecordOutcome(o)
             \/ Abandon(o)
      PROVE  UNCHANGED outboxVars
  BY <1>6 DEF ReadToUpdate, ReadToSetStatus, ReadProfile, UpdateProfile,
    SetCustomerStatus, ReadForSubmission, ReadKyc, ReviewKyc, ReadAlert, JudgeAlert,
    RecordOutcome, Abandon, NoEvent
<1>. QED
  BY <1>1, <1>2, <1>3, <1>4, <1>5, <1>6 DEF FilesNext

\* Two runs never hold the same event; over each channel it went out once for each
\* run that died with it and at most once more; it is dispatched exactly when it
\* has a committed delivery on every channel, tried once.
THEOREM OutboxSound == Spec => []OutboxInv
<1>1. ASSUME Init PROVE OutboxInv
  <2>1. /\ outbox = <<>> /\ deliveries = <<>> /\ messages = <<>> /\ deaths = <<>>
        /\ pending = [d \in Dispatcher |-> {}]
        /\ sending = [d \in Dispatcher |-> Nothing]
    BY <1>1 DEF Init, OutboxInit
  <2>2. DOMAIN outbox = {} /\ DOMAIN deliveries = {} /\ DOMAIN messages = {}
    BY <2>1
  <2>3. /\ outbox \in Seq(Event) /\ messages \in Seq(Nat \X Channel)
        /\ deliveries \in Seq(Nat \X Channel \X Outcome) /\ deaths \in Seq(Nat)
    BY <2>1
  <2>4. OutboxRowsOK
    BY <2>2, <2>3 DEF OutboxRowsOK
  <2>5. DispatchersOK
    BY <2>1 DEF DispatchersOK
  <2>. QED
    BY <2>2, <2>4, <2>5 DEF OutboxInv
<1>2. ASSUME OutboxInv, [Next]_vars PROVE OutboxInv'
  <2>1. CASE \E code \in DOMAIN Addressee : Emit(code)
    BY <1>2, <2>1, EmitKeeps
  <2>2. CASE Dispatch
    BY <1>2, <2>2, DispatchKeeps
  <2>3. CASE UNCHANGED outboxVars
    <3>1. DOMAIN pending' = Dispatcher
          /\ \A d \in Dispatcher : pending'[d] \subseteq DOMAIN outbox
      BY <1>2, <2>3 DEF OutboxInv, DispatchersOK, outboxVars
    <3>2. UNCHANGED <<outbox, deliveries, sending, messages, deaths>>
      BY <2>3 DEF outboxVars
    <3>. QED
      BY <1>2, <3>1, <3>2, ListingKeeps
  <2>4. \/ \E code \in DOMAIN Addressee : Emit(code)
        \/ Dispatch
        \/ UNCHANGED outboxVars
    BY <1>2, StepsOfDesks, FilesEmit DEF AnyEvent
  <2>. QED
    BY <2>1, <2>2, <2>3, <2>4
<1>. QED
  BY <1>1, <1>2, PTL DEF Spec

\* Two runs never deliver the same event, and what a dead run sent is sent at most
\* once again (dispatch_outbox).
THEOREM EachDelivered == Spec => []DeliveredOnce
<1>1. ASSUME OutboxInv PROVE DeliveredOnce
  <2>1. OutboxRowsOK /\ IsSeq(messages) /\ IsSeq(deaths)
    BY <1>1, OutboxFacts DEF OutboxInv
  <2>2. ASSUME NEW n \in DOMAIN outbox, NEW i \in DOMAIN ChannelsOf(n)
        PROVE  /\ Count(messages, <<n, ChannelsOf(n)[i]>>) <= 1 + Count(deaths, n)
               /\ Count(deliveries, <<n, ChannelsOf(n)[i], "SENT">>)
                      + Count(deliveries, <<n, ChannelsOf(n)[i], "PENDING">>)
                    = IF outbox[n].dispatched THEN 1 ELSE 0
    <3>1. SentOK(n) /\ TriedOK(n)
      BY <1>1 DEF OutboxInv
    <3>2. Count(messages, <<n, ChannelsOf(n)[i]>>) \in Nat /\ Count(deaths, n) \in Nat
      BY <2>1, CountIsNat
    <3>3. Count(messages, <<n, ChannelsOf(n)[i]>>)
            <= Count(deaths, n) + IF Reached(n, i) THEN 1 ELSE 0
      BY <3>1 DEF SentOK
    <3>. QED
      BY <3>1, <3>2, <3>3 DEF TriedOK
  <2>. QED
    BY <2>2 DEF DeliveredOnce, ChannelsOf
<1>. QED
  BY OutboxSound, <1>1, PTL
-----------------------------------------------------------------------------
(***************************************************************************)
(* The files.                                                              *)
(***************************************************************************)
Announced == {n \in DOMAIN outbox : outbox[n].code = "KYC_VERIFIED"}
Approvals == {n \in DOMAIN trail : trail[n].what = "APPROVED"}

\* A tier an approval has granted.
TierOK(tier) == tier = "BASIC" \/ \E n \in Approvals : trail[n].level = tier

\* What a worker has read or written and not committed.
Updating(w) ==
  /\ w = [does |-> w.does, copy |-> w.copy]
  /\ w.does \in {"update", "set_status"}
  /\ w.copy \in Customer /\ TierOK(w.copy.tier)

Reviewing(w) ==
  /\ w = [does |-> "review", copy |-> w.copy]
  /\ w.copy \in KYCProfile

Reviewed(w) ==
  /\ w = [does |-> "reviewed", decision |-> w.decision, grants |-> w.grants,
          row |-> w.row]
  /\ w.row \in KYCProfile
  /\ \/ w.decision = "APPROVED" /\ w.row.status = "VERIFIED"
     \/ w.decision = "REJECTED" /\ w.row.status = "REJECTED" /\ w.grants = None
  /\ w.grants # None => w.grants \in Level /\ w.row.level = w.grants

Judging(w) ==
  \/ w \in {[does |-> "submit"], [does |-> "judge"]}
  \/ /\ w = [does |-> "judged", decision |-> w.decision]
     /\ w.decision \in {"UNDER_REVIEW"} \cup Closed

WorkOK(w) == w = Free \/ Updating(w) \/ Reviewing(w) \/ Reviewed(w) \/ Judging(w)

TrailOK ==
  /\ trail \in Seq(Entry)
  /\ kyc \in KYCProfile
  /\ kyc.status = "VERIFIED" =>
       /\ trail # <<>>
       /\ trail[Len(trail)] = [what |-> "APPROVED", level |-> kyc.level]
  /\ Cardinality(Announced) = Cardinality(Approvals)

ProfileOK ==
  /\ profile \in Customer \cup {NoProfile}
  /\ profile # NoProfile => TierOK(profile.tier)

AlertOK ==
  /\ registered \in BOOLEAN
  /\ alert \in AlertStatus \cup {None}
  /\ outcome \in Closed \cup {None}
  /\ alert \in Closed => outcome = alert

WorkersOK ==
  /\ DOMAIN work = Officer
  /\ \A o \in Officer : WorkOK(work[o])
  /\ profile = NoProfile =>
       kyc.status = "NOT_STARTED" /\ alert = None /\ \A o \in Officer : work[o] = Free

FilesInv == TrailOK /\ ProfileOK /\ AlertOK /\ WorkersOK

\* An empty file and a customer's are told apart by their fields.
LEMMA ProfilesDiffer == NoProfile \notin Customer
<1>1. ASSUME NoProfile \in Customer PROVE FALSE
  <2>1. NoProfile.status \in Status
    BY <1>1 DEF Customer
  <2>. QED
    BY <2>1 DEF NoProfile, Status, None
<1>. QED
  BY <1>1

\* The trail only grows, and what it granted stays granted.
LEMMA TierStays ==
  ASSUME trail \in Seq(Entry), NEW x \in Entry,
         trail' = Append(trail, x) \/ UNCHANGED trail,
         NEW tier, TierOK(tier)
  PROVE  TierOK(tier)'
<1>1. DOMAIN trail \subseteq DOMAIN trail' /\ \A n \in DOMAIN trail : trail'[n] = trail[n]
  <2>1. CASE trail' = Append(trail, x)
    BY <2>1
  <2>. QED
    BY <2>1
<1>2. CASE tier = "BASIC"
  BY <1>2 DEF TierOK
<1>3. ASSUME NEW n \in Approvals, trail[n].level = tier PROVE TierOK(tier)'
  BY <1>1, <1>3 DEF TierOK, Approvals
<1>. QED
  BY <1>2, <1>3 DEF TierOK

\* What a worker holds stays good when the trail grows.
LEMMA WorkStays ==
  ASSUME trail \in Seq(Entry), NEW x \in Entry,
         trail' = Append(trail, x) \/ UNCHANGED trail,
         NEW w, WorkOK(w)
  PROVE  WorkOK(w)'
<1>1. Updating(w) => Updating(w)'
  BY TierStays DEF Updating
<1>2. Reviewing(w) => Reviewing(w)'
  BY DEF Reviewing
<1>3. Reviewed(w) => Reviewed(w)'
  BY DEF Reviewed
<1>4. Judging(w) => Judging(w)'
  BY DEF Judging
<1>. QED
  BY <1>1, <1>2, <1>3, <1>4 DEF WorkOK

\* One worker turns to something else.
LEMMA OneWorks ==
  ASSUME WorkersOK, trail \in Seq(Entry), NEW x \in Entry,
         trail' = Append(trail, x) \/ UNCHANGED trail,
         NEW o \in Officer, NEW w, Does(o, w), WorkOK(w)',
         profile' # NoProfile
  PROVE  WorkersOK'
<1>1. work' = [work EXCEPT ![o] = w] /\ DOMAIN work = Officer
  BY DEF Does, WorkersOK
<1>2. ASSUME NEW p \in Officer PROVE WorkOK(work[p])'
  <2>1. CASE p = o
    <3>1. work'[p] = w
      BY <1>1, <2>1
    <3>. QED
      BY <3>1
  <2>2. CASE p # o
    <3>1. PICK u : u = work[p]
      OBVIOUS
    <3>2. WorkOK(u) /\ work'[p] = u
      BY <1>1, <2>2, <3>1 DEF WorkersOK
    <3>3. WorkOK(u)'
      BY <3>2, WorkStays
    <3>. QED
      BY <3>2, <3>3
  <2>. QED
    BY <2>1, <2>2
<1>. QED
  BY <1>1, <1>2 DEF WorkersOK

\* Nothing is decided: the trail, the identity and the outbox stay.
LEMMA NothingDecided ==
  ASSUME TrailOK, UNCHANGED <<trail, kyc, outbox>>
  PROVE  TrailOK'
BY DEF TrailOK, Announced, Approvals

\* A step of a worker that shows nothing.
LEMMA Unseen ==
  ASSUME FilesInv, NEW o \in Officer, NEW w, WorkOK(w), Does(o, w),
         UNCHANGED <<registered, profile, kyc, trail, alert, outcome, outbox>>,
         profile # NoProfile
  PROVE  FilesInv'
<1>1. trail \in Seq(Entry) /\ [what |-> "submitted", level |-> kyc.level] \in Entry
  BY DEF FilesInv, TrailOK, KYCProfile, Entry
<1>2. TrailOK'
  BY NothingDecided DEF FilesInv
<1>3. WorkOK(w)'
  BY <1>1, WorkStays
<1>4. WorkersOK'
  BY <1>1, <1>3, OneWorks DEF FilesInv
<1>5. ProfileOK'
  BY DEF FilesInv, ProfileOK, TierOK, Approvals
<1>6. AlertOK'
  BY DEF FilesInv, AlertOK
<1>. QED
  BY <1>2, <1>4, <1>5, <1>6 DEF FilesInv

\* Reads, and writes that are not committed.
LEMMA ReadsKeep ==
  ASSUME FilesInv, NEW o \in Officer,
         \/ ReadToUpdate(o) \/ ReadToSetStatus(o) \/ ReadForSubmission(o)
         \/ ReadKyc(o) \/ ReviewKyc(o) \/ ReadAlert(o) \/ JudgeAlert(o)
         \/ Abandon(o)
  PROVE  FilesInv'
<1>1. /\ ProfileOK /\ kyc \in KYCProfile /\ WorkOK(work[o])
      /\ UNCHANGED <<registered, profile, kyc, trail, alert, outcome, outbox>>
  BY DEF FilesInv, TrailOK, WorkersOK, ReadToUpdate, ReadToSetStatus, ReadProfile,
    ReadForSubmission, ReadKyc, ReviewKyc, ReadAlert, JudgeAlert, Abandon, NoEvent,
    outboxVars, Shows
<1>2. profile # NoProfile
  BY DEF FilesInv, WorkersOK, ReadToUpdate, ReadToSetStatus, ReadProfile,
    ReadForSubmission, ReadKyc, ReviewKyc, ReadAlert, JudgeAlert, Abandon, Free, Holds,
    None
<1>3. ASSUME NEW does \in {"update", "set_status"}, ReadProfile(o, does)
      PROVE  FilesInv'
  <2>1. PICK w : w = [does |-> does, copy |-> profile]
    OBVIOUS
  <2>2. Updating(w)
    BY <1>1, <1>2, <2>1 DEF Updating, ProfileOK
  <2>3. WorkOK(w) /\ Does(o, w)
    BY <1>3, <2>1, <2>2 DEF WorkOK, ReadProfile
  <2>. QED
    BY <1>1, <1>2, <2>3, Unseen
<1>4. CASE ReadForSubmission(o)
  <2>1. PICK w : w = [does |-> "submit"]
    OBVIOUS
  <2>2. WorkOK(w) /\ Does(o, w)
    BY <1>4, <2>1 DEF WorkOK, Judging, ReadForSubmission
  <2>. QED
    BY <1>1, <1>2, <2>2, Unseen
<1>5. CASE ReadKyc(o)
  <2>1. PICK w : w = [does |-> "review", copy |-> kyc]
    OBVIOUS
  <2>2. Reviewing(w)
    BY <1>1, <2>1 DEF Reviewing
  <2>3. WorkOK(w) /\ Does(o, w)
    BY <1>5, <2>1, <2>2 DEF WorkOK, ReadKyc
  <2>. QED
    BY <1>1, <1>2, <2>3, Unseen
<1>6. CASE ReviewKyc(o)
  <2>1. Reviewing(work[o])
    <3>1. PICK w : w = work[o]
      OBVIOUS
    <3>2. WorkOK(w) /\ w.does = "review"
      BY <1>1, <1>6, <3>1 DEF ReviewKyc, Holds
    <3>3. w # Free /\ ~Updating(w) /\ ~Reviewed(w) /\ ~Judging(w)
      BY <3>2 DEF Free, Updating, Reviewed, Judging
    <3>. QED
      BY <3>1, <3>2, <3>3 DEF WorkOK
  <2>2. PICK copy : copy = work[o].copy /\ copy \in KYCProfile
    BY <2>1 DEF Reviewing
  <2>3. PICK decision \in {"APPROVED", "REJECTED"}, grants \in Level \cup {None} :
          /\ decision = "REJECTED" => grants = None
          /\ Does(o, [does |-> "reviewed", decision |-> decision, grants |-> grants,
               row |-> [status |-> IF decision = "APPROVED" THEN "VERIFIED"
                                   ELSE "REJECTED",
                        level |-> IF grants = None THEN work[o].copy.level ELSE grants]])
    BY <1>6 DEF ReviewKyc
  <2>4. PICK written : written = [status |-> IF decision = "APPROVED" THEN "VERIFIED"
                                             ELSE "REJECTED",
                                  level |-> IF grants = None THEN copy.level ELSE grants]
    OBVIOUS
  <2>5. PICK w : w = [does |-> "reviewed", decision |-> decision, grants |-> grants,
                      row |-> written]
    OBVIOUS
  <2>6. /\ written \in KYCProfile
        /\ written.status = IF decision = "APPROVED" THEN "VERIFIED" ELSE "REJECTED"
        /\ grants # None => grants \in Level /\ written.level = grants
    BY <2>2, <2>4 DEF KYCProfile, KycStatus
  <2>7. Reviewed(w)
    BY <2>3, <2>5, <2>6 DEF Reviewed
  <2>8. WorkOK(w) /\ Does(o, w)
    BY <2>2, <2>3, <2>4, <2>5, <2>7 DEF WorkOK
  <2>. QED
    BY <1>1, <1>2, <2>8, Unseen
<1>7. CASE ReadAlert(o)
  <2>1. PICK w : w = [does |-> "judge"]
    OBVIOUS
  <2>2. WorkOK(w) /\ Does(o, w)
    BY <1>7, <2>1 DEF WorkOK, Judging, ReadAlert
  <2>. QED
    BY <1>1, <1>2, <2>2, Unseen
<1>8. CASE JudgeAlert(o)
  <2>1. PICK decision \in {"UNDER_REVIEW"} \cup Closed :
          Does(o, [does |-> "judged", decision |-> decision])
    BY <1>8 DEF JudgeAlert
  <2>2. PICK w : w = [does |-> "judged", decision |-> decision]
    OBVIOUS
  <2>3. WorkOK(w) /\ Does(o, w)
    BY <2>1, <2>2 DEF WorkOK, Judging
  <2>. QED
    BY <1>1, <1>2, <2>3, Unseen
<1>9. CASE Abandon(o)
  <2>1. WorkOK(Free) /\ Does(o, Free)
    BY <1>9 DEF WorkOK, Abandon
  <2>. QED
    BY <1>1, <1>2, <2>1, Unseen
<1>. QED
  BY <1>3, <1>4, <1>5, <1>6, <1>7, <1>8, <1>9 DEF ReadToUpdate, ReadToSetStatus

\* Writes of the profile.
LEMMA ProfileKeeps ==
  ASSUME FilesInv, NEW o \in Officer, UpdateProfile(o) \/ SetCustomerStatus(o)
  PROVE  FilesInv'
<1>1. /\ TrailOK /\ ProfileOK /\ AlertOK /\ WorkersOK
      /\ trail \in Seq(Entry) /\ [what |-> "submitted", level |-> kyc.level] \in Entry
  BY DEF FilesInv, TrailOK, KYCProfile, Entry
<1>2. /\ UNCHANGED <<registered, kyc, trail, alert, outcome, outbox>>
      /\ Does(o, Free) /\ work[o] # Free /\ profile # NoProfile
  BY <1>1 DEF UpdateProfile, SetCustomerStatus, NoEvent, outboxVars, Holds, Free,
    WorkersOK
<1>3. profile \in Customer /\ TierOK(profile.tier)
  BY <1>1, <1>2 DEF ProfileOK
<1>4. profile' \in Customer /\ TierOK(profile'.tier)
  <2>1. CASE UpdateProfile(o)
    <3>1. Updating(work[o])
      BY <1>1, <2>1 DEF UpdateProfile, Holds, WorkersOK, WorkOK, Free, Reviewing,
        Reviewed, Judging
    <3>. QED
      BY <2>1, <3>1 DEF UpdateProfile, Updating
  <2>2. CASE SetCustomerStatus(o)
    <3>1. PICK status \in Status : profile' = [profile EXCEPT !.status = status]
      BY <2>2 DEF SetCustomerStatus
    <3>2. profile' \in Customer /\ profile'.tier = profile.tier
      BY <1>3, <3>1 DEF Customer
    <3>. QED
      BY <1>3, <3>2
  <2>. QED
    BY <2>1, <2>2
<1>5. ProfileOK'
  <2>1. PICK tier : tier = profile'.tier
    OBVIOUS
  <2>2. TierOK(tier)'
    BY <1>1, <1>2, <1>4, <2>1, TierStays
  <2>. QED
    BY <1>4, <2>1, <2>2 DEF ProfileOK
<1>6. profile' # NoProfile
  BY <1>4, ProfilesDiffer
<1>7. WorkOK(Free)'
  BY DEF WorkOK
<1>8. WorkersOK'
  BY <1>1, <1>2, <1>6, <1>7, OneWorks
<1>9. TrailOK'
  BY <1>1, <1>2, NothingDecided
<1>10. AlertOK'
  BY <1>1, <1>2 DEF AlertOK
<1>. QED
  BY <1>5, <1>8, <1>9, <1>10 DEF FilesInv

\* An event that is emitted is the only new one of its code.
LEMMA EmittedCodes ==
  ASSUME outbox \in Seq(Event), NEW code \in DOMAIN Addressee, Emit(code)
  PROVE  /\ IsFiniteSet(Announced)
         /\ Announced' = IF code = "KYC_VERIFIED" THEN Announced \cup {Len(outbox) + 1}
                         ELSE Announced
         /\ Len(outbox) + 1 \notin Announced
<1>1. PICK e : e = [code |-> code, dispatched |-> FALSE]
  OBVIOUS
<1>2. outbox' = Append(outbox, e) /\ e.code = code /\ e \in Event
  BY <1>1 DEF Emit, Event
<1>3. /\ DOMAIN outbox' = 1..(Len(outbox) + 1) /\ DOMAIN outbox = 1..Len(outbox)
      /\ Len(outbox) \in Nat /\ outbox'[Len(outbox) + 1] = e
      /\ \A n \in DOMAIN outbox : outbox'[n] = outbox[n]
  BY <1>2
<1>4. IsFiniteSet(Announced)
  <2>1. IsFiniteSet(1..Len(outbox))
    BY <1>3, FS_Interval
  <2>2. Announced \subseteq 1..Len(outbox)
    BY <1>3 DEF Announced
  <2>. QED
    BY <2>1, <2>2, FS_Subset
<1>5. \A n \in DOMAIN outbox' : n \in DOMAIN outbox \/ n = Len(outbox) + 1
  BY <1>3
<1>6. Announced' = IF code = "KYC_VERIFIED" THEN Announced \cup {Len(outbox) + 1}
                   ELSE Announced
  <2>1. \A n \in DOMAIN outbox' : outbox'[n].code = IF n \in DOMAIN outbox
                                    THEN outbox[n].code ELSE code
    BY <1>2, <1>3, <1>5
  <2>2. DOMAIN outbox' = DOMAIN outbox \cup {Len(outbox) + 1}
    BY <1>3, <1>5
  <2>3. Len(outbox) + 1 \notin DOMAIN outbox
    BY <1>3
  <2>. QED
    BY <2>1, <2>2, <2>3 DEF Announced
<1>. QED
  BY <1>3, <1>4, <1>6 DEF Announced

\* An entry that is added to the trail is its last, and an approval if it says so.
LEMMA TrailedDecisions ==
  ASSUME trail \in Seq(Entry), NEW x \in Entry, trail' = Append(trail, x)
  PROVE  /\ IsFiniteSet(Approvals)
         /\ Approvals' = IF x.what = "APPROVED" THEN Approvals \cup {Len(trail) + 1}
                         ELSE Approvals
         /\ Len(trail) + 1 \notin Approvals
         /\ trail' \in Seq(Entry) /\ trail' # <<>> /\ trail'[Len(trail')] = x
<1>1. /\ DOMAIN trail' = 1..(Len(trail) + 1) /\ DOMAIN trail = 1..Len(trail)
      /\ Len(trail) \in Nat /\ trail'[Len(trail) + 1] = x
      /\ \A n \in DOMAIN trail : trail'[n] = trail[n]
      /\ Len(trail') = Len(trail) + 1 /\ trail' \in Seq(Entry)
  OBVIOUS
<1>2. IsFiniteSet(Approvals)
  <2>1. IsFiniteSet(1..Len(trail))
    BY <1>1, FS_Interval
  <2>2. Approvals \subseteq 1..Len(trail)
    BY <1>1 DEF Approvals
  <2>. QED
    BY <2>1, <2>2, FS_Subset
<1>3. Approvals' = IF x.what = "APPROVED" THEN Approvals \cup {Len(trail) + 1}
                   ELSE Approvals
  <2>1. DOMAIN trail' = DOMAIN trail \cup {Len(trail) + 1}
        /\ Len(trail) + 1 \notin DOMAIN trail
    BY <1>1
  <2>. QED
    BY <1>1, <2>1 DEF Approvals
<1>4. trail' # <<>>
  BY <1>1
<1>. QED
  BY <1>1, <1>2, <1>3, <1>4 DEF Approvals

\* A submission makes the identity PENDING and is the last entry of its trail.
LEMMA SubmitKeeps ==
  ASSUME FilesInv, outbox \in Seq(Event), NEW o \in Officer, SubmitKyc(o)
  PROVE  FilesInv'
<1>1. /\ TrailOK /\ ProfileOK /\ AlertOK /\ WorkersOK
      /\ trail \in Seq(Entry) /\ kyc \in KYCProfile
  BY DEF FilesInv, TrailOK
<1>2. PICK x : x = [what |-> "submitted", level |-> kyc.level]
  OBVIOUS
<1>3. x \in Entry /\ x.what # "APPROVED"
  BY <1>1, <1>2 DEF Entry, KYCProfile
<1>4. /\ kyc' = [kyc EXCEPT !.status = "PENDING"]
      /\ trail' = Append(trail, x)
      /\ Emit("KYC_SUBMITTED")
      /\ Does(o, Free)
      /\ UNCHANGED <<registered, profile, alert, outcome>>
      /\ work[o] # Free
  BY <1>2 DEF SubmitKyc, Holds, Free
<1>5. "KYC_SUBMITTED" \in DOMAIN Addressee
  BY BackOfficeAssumption
<1>6. TrailOK'
  <2>1. kyc' \in KYCProfile /\ kyc'.status = "PENDING"
    BY <1>1, <1>4 DEF KYCProfile, KycStatus
  <2>2. Announced' = Announced
    BY <1>4, <1>5, EmittedCodes
  <2>3. Approvals' = Approvals /\ trail' \in Seq(Entry)
    BY <1>1, <1>3, <1>4, TrailedDecisions
  <2>. QED
    BY <1>1, <2>1, <2>2, <2>3 DEF TrailOK
<1>7. profile # NoProfile
  BY <1>1, <1>4 DEF WorkersOK
<1>8. ProfileOK'
  <2>1. PICK tier : tier = profile.tier
    OBVIOUS
  <2>2. TierOK(tier)
    BY <1>1, <1>7, <2>1 DEF ProfileOK
  <2>3. TierOK(tier)'
    BY <1>1, <1>3, <1>4, <2>2, TierStays
  <2>. QED
    BY <1>1, <1>4, <2>1, <2>3 DEF ProfileOK
<1>9. WorkersOK'
  <2>1. WorkOK(Free)'
    BY DEF WorkOK
  <2>2. profile' # NoProfile
    BY <1>4, <1>7
  <2>. QED
    BY <1>1, <1>3, <1>4, <2>1, <2>2, OneWorks
<1>10. AlertOK'
  BY <1>1, <1>4 DEF AlertOK
<1>. QED
  BY <1>6, <1>8, <1>9, <1>10 DEF FilesInv

\* A decision is committed with its record and, when it approves, its event.
LEMMA RecordKeeps ==
  ASSUME FilesInv, outbox \in Seq(Event), NEW o \in Officer, RecordReview(o)
  PROVE  FilesInv'
<1>1. /\ TrailOK /\ ProfileOK /\ AlertOK /\ WorkersOK
      /\ trail \in Seq(Entry) /\ kyc \in KYCProfile
  BY DEF FilesInv, TrailOK
<1>2. PICK w : w = work[o]
  OBVIOUS
<1>3. Reviewed(w) /\ w # Free
  <2>1. WorkOK(w) /\ w.does = "reviewed"
    BY <1>1, <1>2 DEF RecordReview, Holds, WorkersOK
  <2>2. w # Free /\ ~Updating(w) /\ ~Reviewing(w) /\ ~Judging(w)
    BY <2>1 DEF Free, Updating, Reviewing, Judging
  <2>. QED
    BY <2>1, <2>2 DEF WorkOK
<1>4. PICK decision, grants, written :
        /\ decision = w.decision /\ grants = w.grants /\ written = w.row
        /\ written \in KYCProfile
        /\ \/ decision = "APPROVED" /\ written.status = "VERIFIED"
           \/ decision = "REJECTED" /\ written.status = "REJECTED" /\ grants = None
        /\ grants # None => grants \in Level /\ written.level = grants
  BY <1>3 DEF Reviewed
<1>5. PICK x : x = [what |-> decision, level |-> written.level]
  OBVIOUS
<1>6. x \in Entry /\ x.what = decision /\ x.level = written.level
  BY <1>4, <1>5 DEF Entry, KYCProfile
<1>7. /\ kyc' = written
      /\ profile' = IF grants = None THEN profile ELSE [profile EXCEPT !.tier = grants]
      /\ trail' = Append(trail, x)
      /\ \/ decision = "APPROVED" /\ Emit("KYC_VERIFIED")
         \/ decision = "REJECTED" /\ UNCHANGED outbox
      /\ Does(o, Free)
      /\ UNCHANGED <<registered, alert, outcome>>
  BY <1>2, <1>4, <1>5 DEF RecordReview, NoEvent, outboxVars
<1>8. /\ IsFiniteSet(Approvals)
      /\ Approvals' = IF decision = "APPROVED" THEN Approvals \cup {Len(trail) + 1}
                      ELSE Approvals
      /\ Len(trail) + 1 \notin Approvals
      /\ trail' \in Seq(Entry) /\ trail' # <<>> /\ trail'[Len(trail')] = x
  BY <1>1, <1>6, <1>7, TrailedDecisions
<1>9. TrailOK'
  <2>1. kyc'.status = "VERIFIED" =>
          trail'[Len(trail')] = [what |-> "APPROVED", level |-> kyc'.level]
    BY <1>4, <1>5, <1>7, <1>8
  <2>2. Cardinality(Announced)' = Cardinality(Approvals)'
    <3>1. CASE decision = "APPROVED"
      <4>1. /\ IsFiniteSet(Announced) /\ Announced' = Announced \cup {Len(outbox) + 1}
            /\ Len(outbox) + 1 \notin Announced
        BY <1>7, <3>1, BackOfficeAssumption, EmittedCodes
      <4>2. PICK A, B, p, q : /\ A = Announced /\ B = Approvals
                              /\ p = Len(outbox) + 1 /\ q = Len(trail) + 1
        OBVIOUS
      <4>3. /\ Cardinality(A \cup {p}) = Cardinality(A) + 1
            /\ Cardinality(B \cup {q}) = Cardinality(B) + 1
        BY <1>8, <4>1, <4>2, FS_AddElement
      <4>. QED
        BY <1>1, <1>8, <3>1, <4>1, <4>2, <4>3 DEF TrailOK
    <3>2. CASE decision = "REJECTED"
      <4>1. Announced' = Announced
        BY <1>7, <3>2 DEF Announced
      <4>. QED
        BY <1>1, <1>8, <3>2, <4>1 DEF TrailOK
    <3>. QED
      BY <1>4, <3>1, <3>2
  <2>. QED
    BY <1>4, <1>7, <1>8, <2>1, <2>2 DEF TrailOK
<1>10. profile # NoProfile /\ profile \in Customer /\ TierOK(profile.tier)
  BY <1>1, <1>2, <1>3 DEF WorkersOK, ProfileOK
<1>11. ProfileOK' /\ profile' # NoProfile
  <2>1. CASE grants = None
    <3>1. PICK tier : tier = profile.tier
      OBVIOUS
    <3>2. TierOK(tier)'
      BY <1>1, <1>6, <1>7, <1>10, <3>1, TierStays
    <3>. QED
      BY <1>7, <1>10, <2>1, <3>1, <3>2 DEF ProfileOK
  <2>2. CASE grants # None
    <3>1. profile' = [profile EXCEPT !.tier = grants]
      BY <1>7, <2>2
    <3>2. profile' \in Customer /\ profile'.tier = grants
      BY <1>4, <1>10, <2>2, <3>1 DEF Customer
    <3>3. Len(trail') \in Approvals'
      BY <1>4, <1>6, <1>8, <2>2 DEF Approvals
    <3>4. trail'[Len(trail')].level = grants
      BY <1>4, <1>6, <1>8, <2>2
    <3>5. TierOK(grants)'
      BY <3>3, <3>4 DEF TierOK
    <3>. QED
      BY <3>2, <3>5, ProfilesDiffer DEF ProfileOK
  <2>. QED
    BY <2>1, <2>2
<1>12. WorkersOK'
  <2>1. WorkOK(Free)'
    BY DEF WorkOK
  <2>. QED
    BY <1>1, <1>6, <1>7, <1>11, <2>1, OneWorks
<1>13. AlertOK'
  BY <1>1, <1>7 DEF AlertOK
<1>. QED
  BY <1>9, <1>11, <1>12, <1>13 DEF FilesInv

\* The rows nobody copies stay as they are.
LEMMA WorkersStay ==
  ASSUME WorkersOK, trail \in Seq(Entry), UNCHANGED <<trail, work>>,
         \/ profile' # NoProfile
         \/ UNCHANGED <<profile, kyc, alert>>
  PROVE  WorkersOK'
<1>1. ASSUME NEW o \in Officer PROVE WorkOK(work[o])'
  <2>1. PICK w : w = work[o]
    OBVIOUS
  <2>2. WorkOK(w)' /\ work'[o] = w
    BY <2>1 DEF WorkersOK, WorkOK, Updating, Reviewing, Reviewed, Judging, TierOK, Approvals
  <2>. QED
    BY <2>2
<1>. QED
  BY <1>1 DEF WorkersOK

\* A registration writes a User and no file.
LEMMA RegisterKeeps ==
  ASSUME FilesInv, outbox \in Seq(Event), RegisterCustomer
  PROVE  FilesInv'
<1>1. /\ TrailOK /\ ProfileOK /\ AlertOK /\ WorkersOK /\ trail \in Seq(Entry)
      /\ Emit("ACCOUNT_CREATED") /\ registered' = TRUE
      /\ UNCHANGED <<profile, kyc, trail, alert, outcome, work>>
  BY DEF FilesInv, TrailOK, RegisterCustomer
<1>2. Announced' = Announced
  BY <1>1, BackOfficeAssumption, EmittedCodes
<1>3. TrailOK'
  BY <1>1, <1>2 DEF TrailOK, Approvals
<1>4. ProfileOK'
  BY <1>1 DEF ProfileOK, TierOK, Approvals
<1>5. AlertOK'
  BY <1>1 DEF AlertOK
<1>6. WorkersOK'
  BY <1>1, WorkersStay
<1>. QED
  BY <1>3, <1>4, <1>5, <1>6 DEF FilesInv

\* A new profile has the lowest tier and no identity yet.
LEMMA CreateKeeps ==
  ASSUME FilesInv, CreateProfile
  PROVE  FilesInv'
<1>1. /\ TrailOK /\ ProfileOK /\ AlertOK /\ WorkersOK /\ trail \in Seq(Entry)
      /\ profile' = [status |-> "ACTIVE", tier |-> "BASIC"]
      /\ UNCHANGED <<registered, kyc, trail, alert, outcome, work, outbox>>
  BY DEF FilesInv, TrailOK, CreateProfile, NoEvent, outboxVars
<1>2. profile' \in Customer /\ profile'.tier = "BASIC"
  BY <1>1 DEF Customer, Status, Level
<1>3. ProfileOK'
  BY <1>2 DEF ProfileOK, TierOK
<1>4. profile' # NoProfile
  BY <1>2, ProfilesDiffer
<1>5. WorkersOK'
  BY <1>1, <1>4, WorkersStay
<1>6. TrailOK'
  BY <1>1, NothingDecided
<1>7. AlertOK'
  BY <1>1 DEF AlertOK
<1>. QED
  BY <1>3, <1>5, <1>6, <1>7 DEF FilesInv

\* A payment may raise an alert, of which there is no case yet.
LEMMA PaymentKeeps ==
  ASSUME FilesInv, outbox \in Seq(Event), MakePayment
  PROVE  FilesInv'
<1>1. /\ TrailOK /\ ProfileOK /\ AlertOK /\ WorkersOK /\ trail \in Seq(Entry)
      /\ alert' = "FLAGGED" /\ Emit("SECURITY_ALERT") /\ profile # NoProfile
      /\ UNCHANGED <<registered, profile, kyc, trail, outcome, work>>
  BY DEF FilesInv, TrailOK, MakePayment, CheckPaymentPatterns, RaiseAlert
<1>2. Announced' = Announced
  BY <1>1, BackOfficeAssumption, EmittedCodes
<1>3. TrailOK'
  BY <1>1, <1>2 DEF TrailOK, Approvals
<1>4. ProfileOK'
  BY <1>1 DEF ProfileOK, TierOK, Approvals
<1>5. AlertOK'
  BY <1>1 DEF AlertOK, AlertStatus, Closed
<1>6. WorkersOK'
  BY <1>1, WorkersStay
<1>. QED
  BY <1>3, <1>4, <1>5, <1>6 DEF FilesInv

\* The alert and the outcome of its case are written together.
LEMMA OutcomeKeeps ==
  ASSUME FilesInv, NEW o \in Officer, RecordOutcome(o)
  PROVE  FilesInv'
<1>1. /\ TrailOK /\ ProfileOK /\ AlertOK /\ WorkersOK /\ trail \in Seq(Entry)
      /\ [what |-> "submitted", level |-> kyc.level] \in Entry
  BY DEF FilesInv, TrailOK, KYCProfile, Entry
<1>2. PICK w : w = work[o]
  OBVIOUS
<1>3. w.decision \in {"UNDER_REVIEW"} \cup Closed /\ w # Free
  <2>1. WorkOK(w) /\ w.does = "judged"
    BY <1>1, <1>2 DEF RecordOutcome, Holds, WorkersOK
  <2>2. w # Free /\ ~Updating(w) /\ ~Reviewing(w) /\ ~Reviewed(w)
    BY <2>1 DEF Free, Updating, Reviewing, Reviewed
  <2>3. w # [does |-> "submit"] /\ w # [does |-> "judge"]
    BY <2>1
  <2>. QED
    BY <2>1, <2>2, <2>3 DEF WorkOK, Judging
<1>4. /\ alert' = w.decision
      /\ outcome' = IF w.decision \in Closed THEN w.decision ELSE outcome
      /\ Does(o, Free)
      /\ UNCHANGED <<registered, profile, kyc, trail, outbox>>
  BY <1>2 DEF RecordOutcome, NoEvent, outboxVars, CaseAfter
<1>5. profile' # NoProfile
  BY <1>1, <1>2, <1>3, <1>4 DEF WorkersOK
<1>6. WorkersOK'
  <2>1. WorkOK(Free)'
    BY DEF WorkOK
  <2>. QED
    BY <1>1, <1>4, <1>5, <2>1, OneWorks
<1>7. TrailOK'
  BY <1>1, <1>4, NothingDecided
<1>8. ProfileOK'
  BY <1>1, <1>4 DEF ProfileOK, TierOK, Approvals
<1>9. AlertOK'
  BY <1>1, <1>3, <1>4 DEF AlertOK, AlertStatus, Closed
<1>. QED
  BY <1>6, <1>7, <1>8, <1>9 DEF FilesInv

\* Dispatching an event does not change what it is.
LEMMA CodesStay ==
  ASSUME OutboxInv, Dispatch
  PROVE  Announced' = Announced
<1>1. PICK d \in Dispatcher : Run(d) \/ Die(d)
  BY DEF Dispatch
<1>2. CASE Commit(d)
  <2>1. outbox \in Seq(Event) /\ SendingOK(sending[d])
    BY <1>2 DEF OutboxInv, OutboxRowsOK, DispatchersOK, Commit
  <2>2. PICK n \in DOMAIN outbox : outbox' = [outbox EXCEPT ![n].dispatched = TRUE]
    BY <1>2, <2>1 DEF Commit, SendingOK
  <2>3. \A m \in DOMAIN outbox : outbox[m] \in Event
    BY <2>1
  <2>4. [outbox[n] EXCEPT !.dispatched = TRUE].code = outbox[n].code
    BY <2>3 DEF Event
  <2>5. DOMAIN outbox' = DOMAIN outbox
        /\ \A m \in DOMAIN outbox : outbox'[m].code = outbox[m].code
    BY <2>1, <2>2, <2>4
  <2>. QED
    BY <2>5 DEF Announced
<1>3. CASE UNCHANGED outbox
  BY <1>3 DEF Announced
<1>. QED
  BY <1>1, <1>2, <1>3 DEF Run, StartRun, Lock, Skip, Send, Die

\* Where no KYC_VERIFIED is emitted, files stand.
LEMMA OtherDesksKeep ==
  ASSUME FilesInv, UNCHANGED files, Announced' = Announced
  PROVE  FilesInv'
<1>1. /\ TrailOK /\ ProfileOK /\ AlertOK /\ WorkersOK /\ trail \in Seq(Entry)
      /\ UNCHANGED <<registered, profile, kyc, trail, alert, outcome, work>>
  BY DEF FilesInv, TrailOK, files
<1>2. TrailOK'
  BY <1>1 DEF TrailOK, Approvals
<1>3. ProfileOK'
  BY <1>1 DEF ProfileOK, TierOK, Approvals
<1>4. AlertOK'
  BY <1>1 DEF AlertOK
<1>5. WorkersOK'
  BY <1>1, WorkersStay
<1>. QED
  BY <1>2, <1>3, <1>4, <1>5 DEF FilesInv

\* Every step of the office keeps the invariant.
LEMMA FilesSteps ==
  ASSUME FilesInv, OutboxInv, [Next]_vars
  PROVE  FilesInv'
<1>1. outbox \in Seq(Event)
  BY DEF OutboxInv, OutboxRowsOK
<1>2. CASE FilesNext
  BY <1>1, <1>2, ReadsKeep, ProfileKeeps, SubmitKeeps, RecordKeeps, RegisterKeeps,
    CreateKeeps, PaymentKeeps, OutcomeKeeps DEF FilesNext
<1>3. CASE UNCHANGED files /\ (AnyEvent \/ Dispatch \/ UNCHANGED outboxVars)
  <2>1. CASE AnyEvent
    <3>1. PICK code \in DOMAIN Addressee \ {"KYC_VERIFIED"} : Emit(code)
      BY <2>1 DEF AnyEvent
    <3>2. Announced' = Announced
      BY <1>1, <3>1, EmittedCodes
    <3>. QED
      BY <1>3, <3>2, OtherDesksKeep
  <2>2. CASE Dispatch
    BY <1>3, <2>2, CodesStay, OtherDesksKeep
  <2>3. CASE UNCHANGED outboxVars
    <3>1. Announced' = Announced
      BY <2>3 DEF outboxVars, Announced
    <3>. QED
      BY <1>3, <3>1, OtherDesksKeep
  <2>. QED
    BY <1>3, <2>1, <2>2, <2>3
<1>. QED
  BY <1>2, <1>3, StepsOfDesks

\* A verified identity rests on the last entry of its trail, each approval has its
\* event, the tier of a customer and of every copy in hand was granted by an
\* approval, and a closed alert has the outcome of its case.
THEOREM FilesSound == Spec => []FilesInv
<1>1. ASSUME Init PROVE FilesInv
  <2>1. /\ registered = FALSE /\ profile = NoProfile
        /\ kyc = [status |-> "NOT_STARTED", level |-> "BASIC"]
        /\ trail = <<>> /\ alert = None /\ outcome = None
        /\ work = [o \in Officer |-> Free] /\ outbox = <<>>
    BY <1>1 DEF Init, FilesInit, OutboxInit
  <2>2. trail \in Seq(Entry) /\ DOMAIN trail = {} /\ DOMAIN outbox = {}
    BY <2>1
  <2>3. Announced = {} /\ Approvals = {}
    BY <2>2 DEF Announced, Approvals
  <2>4. kyc \in KYCProfile /\ kyc.status = "NOT_STARTED"
    BY <2>1 DEF KYCProfile, KycStatus, Level
  <2>5. TrailOK
    BY <2>2, <2>3, <2>4 DEF TrailOK
  <2>6. ProfileOK
    BY <2>1 DEF ProfileOK
  <2>7. AlertOK
    BY <2>1 DEF AlertOK, None, Closed
  <2>8. WorkersOK
    BY <2>1, <2>4 DEF WorkersOK, WorkOK
  <2>. QED
    BY <2>5, <2>6, <2>7, <2>8 DEF FilesInv
<1>2. FilesInv /\ OutboxInv /\ [Next]_vars => FilesInv'
  BY FilesSteps
<1>. QED
  BY <1>1, <1>2, OutboxSound, PTL DEF Spec

\* Decisions taken from copies never part from their records: the state of an
\* identity, of a customer's tier and of an alert is what the last decision on
\* record says, and every approval has its event (review_kyc, review_alert).
THEOREM AllRecorded == Spec => []DecisionsRecorded
<1>1. FilesInv => DecisionsRecorded
  BY DEF FilesInv, TrailOK, ProfileOK, AlertOK, TierOK, Announced, Approvals,
    DecisionsRecorded
<1>. QED
  BY FilesSound, <1>1, PTL
-----------------------------------------------------------------------------
(***************************************************************************)
(* The calendar.                                                           *)
(***************************************************************************)
LEMMA MonthsDivide ==
  ASSUME NEW n \in Nat
  PROVE  /\ n \div 12 \in Nat /\ n % 12 \in 0..11 /\ n = 12 * (n \div 12) + (n % 12)
<1>1. n \div 12 \in Nat
  OBVIOUS
<1>2. n % 12 \in 0..11
  OBVIOUS
<1>3. n = 12 * (n \div 12) + (n % 12)
  OBVIOUS
<1>. QED
  BY <1>1, <1>2, <1>3

\* The year and the month of a month number.
LEMMA MonthsCompose ==
  ASSUME NEW y \in Nat, NEW q \in 0..11
  PROVE  (y * 12 + q) \div 12 = y /\ (y * 12 + q) % 12 = q /\ y * 12 + q \in Nat
OBVIOUS

\* A date is the number of its month and its day.
LEMMA DatesOfMonths ==
  ASSUME NEW n \in Nat
  PROVE  /\ LastOf(n) \in 28..31
         /\ (n % 12) + 1 # 2 => LastOf(n) \in {30, 31}
         /\ \A day \in 1..LastOf(n) :
              /\ ADate(InMonth(n, day))
              /\ MonthNumber(InMonth(n, day)) = n
              /\ InMonth(n, day).day = day
<1>1. n \div 12 \in Nat /\ n % 12 \in 0..11 /\ n = 12 * (n \div 12) + (n % 12)
  BY MonthsDivide
<1>2. LastOf(n) \in 28..31 /\ ((n % 12) + 1 # 2 => LastOf(n) \in {30, 31})
  BY DEF LastOf, DaysIn
<1>3. ASSUME NEW day \in 1..LastOf(n)
      PROVE  /\ ADate(InMonth(n, day))
             /\ MonthNumber(InMonth(n, day)) = n
             /\ InMonth(n, day).day = day
  <2>1. PICK y, q : y = n \div 12 /\ q = n % 12
    OBVIOUS
  <2>2. PICK d : d = InMonth(n, day)
    OBVIOUS
  <2>3. d = [year |-> y, month |-> q + 1, day |-> day]
    BY <2>1, <2>2 DEF InMonth
  <2>4. DaysIn(y, q + 1) = LastOf(n)
    BY <2>1 DEF LastOf
  <2>5. ADate(d)
    BY <1>1, <1>2, <2>1, <2>3, <2>4 DEF ADate
  <2>6. MonthNumber(d) = n
    BY <1>1, <2>1, <2>3 DEF MonthNumber
  <2>. QED
    BY <2>2, <2>3, <2>5, <2>6
<1>. QED
  BY <1>2, <1>3

\* A date is the day it has in the month it is in.
LEMMA MonthsOfDates ==
  ASSUME NEW d, ADate(d)
  PROVE  /\ MonthNumber(d) \in Nat /\ d.day \in Nat
         /\ d.day \in 1..LastOf(MonthNumber(d))
         /\ LastOf(MonthNumber(d)) = DaysIn(d.year, d.month)
         /\ InMonth(MonthNumber(d), d.day) = d
<1>1. PICK y, q, day : y = d.year /\ q = d.month - 1 /\ day = d.day
  OBVIOUS
<1>2. y \in Nat /\ q \in 0..11 /\ d.month = q + 1
      /\ d = [year |-> y, month |-> q + 1, day |-> day]
  BY <1>1 DEF ADate
<1>3. MonthNumber(d) = y * 12 + q
  BY <1>1, <1>2 DEF MonthNumber
<1>4. (y * 12 + q) \div 12 = y /\ (y * 12 + q) % 12 = q /\ y * 12 + q \in Nat
  BY <1>2, MonthsCompose
<1>5. LastOf(MonthNumber(d)) = DaysIn(d.year, d.month)
  BY <1>1, <1>2, <1>3, <1>4 DEF LastOf
<1>6. InMonth(MonthNumber(d), d.day) = d
  BY <1>1, <1>2, <1>3, <1>4 DEF InMonth
<1>. QED
  BY <1>1, <1>2, <1>3, <1>4, <1>5, <1>6 DEF ADate, DaysIn

\* relativedelta(months=n)
LEMMA MonthsAdded ==
  ASSUME NEW d, ADate(d), NEW n \in Nat
  PROVE  /\ ADate(PlusMonths(d, n))
         /\ MonthNumber(PlusMonths(d, n)) = MonthNumber(d) + n
         /\ PlusMonths(d, n).day = IF d.day <= LastOf(MonthNumber(d) + n) THEN d.day
                                   ELSE LastOf(MonthNumber(d) + n)
<1>1. PICK to \in Nat, day \in Nat : to = MonthNumber(d) + n /\ day = d.day
  BY MonthsOfDates
<1>2. LastOf(to) \in 28..31 /\ day >= 1
  BY <1>1, DatesOfMonths, MonthsOfDates
<1>3. PICK b : b = IF day <= LastOf(to) THEN day ELSE LastOf(to)
  OBVIOUS
<1>4. b \in 1..LastOf(to) /\ PlusMonths(d, n) = InMonth(to, b)
  BY <1>1, <1>2, <1>3 DEF PlusMonths, Exists
<1>. QED
  BY <1>1, <1>3, <1>4, DatesOfMonths

\* relativedelta(days=n)
LEMMA DaysAdded ==
  ASSUME NEW d, ADate(d), NEW n \in 1..28
  PROVE  /\ ADate(PlusDays(d, n))
         /\ \/ MonthNumber(d) < MonthNumber(PlusDays(d, n))
            \/ /\ MonthNumber(d) = MonthNumber(PlusDays(d, n))
               /\ d.day < PlusDays(d, n).day
<1>1. PICK to \in Nat, day \in Nat, last \in 28..31 :
        to = MonthNumber(d) /\ day = d.day /\ last = DaysIn(d.year, d.month)
  BY MonthsOfDates, DatesOfMonths
<1>2. day \in 1..last /\ last = LastOf(to)
  BY <1>1, MonthsOfDates
<1>3. CASE day + n - last <= 0
  <2>1. PlusDays(d, n) = [d EXCEPT !.day = day + n]
    BY <1>1, <1>3 DEF PlusDays
  <2>2. d = [year |-> d.year, month |-> d.month, day |-> d.day]
    BY DEF ADate
  <2>3. PlusDays(d, n) = [year |-> d.year, month |-> d.month, day |-> day + n]
    BY <2>1, <2>2
  <2>4. PICK r : r = PlusDays(d, n)
    OBVIOUS
  <2>5. /\ r.year = d.year /\ r.month = d.month /\ r.day = day + n
        /\ r = [year |-> r.year, month |-> r.month, day |-> r.day]
    BY <2>3, <2>4
  <2>6. day + n \in 1..last
    BY <1>2, <1>3
  <2>7. ADate(r) /\ MonthNumber(r) = MonthNumber(d)
    BY <1>1, <2>5, <2>6 DEF ADate, MonthNumber
  <2>. QED
    BY <1>1, <2>4, <2>5, <2>7
<1>4. CASE ~(day + n - last <= 0)
  <2>1. PlusDays(d, n) = InMonth(to + 1, day + n - last)
    BY <1>1, <1>4 DEF PlusDays
  <2>2. PICK over \in 1..28 : over = day + n - last
    BY <1>2, <1>4
  <2>3. to + 1 \in Nat
    OBVIOUS
  <2>4. LastOf(to + 1) \in 28..31
    BY <2>3, DatesOfMonths
  <2>5. over \in 1..LastOf(to + 1)
    BY <2>4
  <2>6. ADate(InMonth(to + 1, over)) /\ MonthNumber(InMonth(to + 1, over)) = to + 1
    BY <2>3, <2>5, DatesOfMonths
  <2>. QED
    BY <1>1, <2>1, <2>2, <2>6
<1>. QED
  BY <1>3, <1>4

\* The months of a period divide twelve.
LEMMA PeriodMonths ==
  ASSUME NEW every \in DOMAIN MonthsPerPeriod
  PROVE  MonthsPerPeriod[every] \in {1, 3, 6, 12}
BY DEF MonthsPerPeriod

\* When a schedule of months has passed two months that lack its day, the earlier
\* was no shorter: only February is shorter than 30 days, and the month after a
\* period of one, three or six months from it has 31; after a year it is February
\* again, on whose days the schedule began.
LEMMA ShortMonths ==
  ASSUME NEW months \in {1, 3, 6, 12}, NEW a \in Nat, NEW n \in Nat,
         n % 12 = a % 12 \/ months # 12,
         NEW day \in 1..LastOf(a), day > LastOf(n), day > LastOf(n + months)
  PROVE  LastOf(n) >= LastOf(n + months)
<1>1. PICK y, q : y = n \div 12 /\ q = n % 12
  OBVIOUS
<1>2. y \in Nat /\ q \in 0..11 /\ n = 12 * y + q
  BY <1>1, MonthsDivide
<1>3. n + months \in Nat
  OBVIOUS
<1>4. /\ LastOf(a) \in 28..31 /\ LastOf(n) \in 28..31 /\ LastOf(n + months) \in 28..31
      /\ q + 1 # 2 => LastOf(n) \in {30, 31}
  BY <1>1, <1>3, DatesOfMonths
<1>5. CASE q + 1 # 2
  BY <1>4, <1>5
<1>6. CASE q = 1 /\ months # 12
  <2>1. y * 12 + (1 + months) = n + months /\ 1 + months \in {2, 4, 7}
    BY <1>2, <1>6
  <2>2. (n + months) % 12 = 1 + months
    BY <1>2, <2>1, MonthsCompose
  <2>3. LastOf(n + months) = 31
    BY <2>1, <2>2 DEF LastOf, DaysIn
  <2>. QED
    BY <1>4, <2>3
<1>7. CASE q = 1 /\ months = 12
  <2>1. a % 12 = 1
    BY <1>1, <1>7
  <2>2. (y + 1) * 12 + 1 = n + months
    BY <1>2, <1>7
  <2>3. (n + months) % 12 = 1
    BY <1>2, <2>2, MonthsCompose
  <2>4. LastOf(a) \in {28, 29} /\ LastOf(n) \in {28, 29} /\ LastOf(n + months) \in {28, 29}
    BY <1>1, <1>7, <2>1, <2>3 DEF LastOf, DaysIn
  <2>. QED
    BY <2>4
<1>. QED
  BY <1>2, <1>5, <1>6, <1>7

\* add_calendar_step after k periods of a schedule of months.
LEMMA PeriodsAdded ==
  ASSUME NEW every \in DOMAIN MonthsPerPeriod, NEW anchor, ADate(anchor), NEW k \in Nat,
         NEW months \in {1, 3, 6, 12}, months = MonthsPerPeriod[every]
  PROVE  Step(anchor, PlusMonths(anchor, k * months), every)
           = PlusMonths(anchor, (k + 1) * months)
<1>1. PICK a \in Nat, day \in Nat : a = MonthNumber(anchor) /\ day = anchor.day
  BY MonthsOfDates
<1>2. day \in 1..LastOf(a) /\ LastOf(a) \in 28..31
  BY <1>1, MonthsOfDates, DatesOfMonths
<1>3. PICK p \in Nat, n \in Nat : p = k * months /\ n = a + p
  OBVIOUS
<1>4. PICK cur : cur = PlusMonths(anchor, p)
  OBVIOUS
<1>5. /\ ADate(cur) /\ MonthNumber(cur) = n
      /\ cur.day = IF day <= LastOf(n) THEN day ELSE LastOf(n)
  BY <1>1, <1>3, <1>4, MonthsAdded
<1>6. PICK m \in Nat : m = n + months
  OBVIOUS
<1>7. PICK next : next = PlusMonths(cur, months)
  OBVIOUS
<1>8. /\ ADate(next) /\ MonthNumber(next) = m
      /\ next.day = IF cur.day <= LastOf(m) THEN cur.day ELSE LastOf(m)
  <2>1. months \in Nat
    OBVIOUS
  <2>. QED
    BY <1>5, <1>6, <1>7, <2>1, MonthsAdded
<1>9. (k + 1) * months = p + months /\ m = a + (p + months) /\ p + months \in Nat
  <2>1. CASE months = 1
    BY <1>3, <1>6, <2>1
  <2>2. CASE months = 3
    BY <1>3, <1>6, <2>2
  <2>3. CASE months = 6
    BY <1>3, <1>6, <2>3
  <2>4. CASE months = 12
    BY <1>3, <1>6, <2>4
  <2>. QED
    BY <2>1, <2>2, <2>3, <2>4
<1>10. LastOf(n) \in 28..31 /\ LastOf(m) \in 28..31
  BY DatesOfMonths
<1>11. Step(anchor, cur, every) = Restored(anchor, next)
  <2>1. (m - a) % months = 0
    <3>1. m - a = (k + 1) * months
      BY <1>9
    <3>2. PICK g \in Nat : g = k + 1
      OBVIOUS
    <3>3. CASE months = 1
      BY <3>1, <3>2, <3>3
    <3>4. CASE months = 3
      BY <3>1, <3>2, <3>4
    <3>5. CASE months = 6
      BY <3>1, <3>2, <3>5
    <3>6. CASE months = 12
      BY <3>1, <3>2, <3>6
    <3>. QED
      BY <3>3, <3>4, <3>5, <3>6
  <2>2. every # "DAILY" /\ every # "WEEKLY"
    BY DEF MonthsPerPeriod
  <2>. QED
    BY <1>1, <1>7, <1>8, <2>1, <2>2 DEF Step
<1>12. PICK last \in Nat : last = IF day <= LastOf(m) THEN day ELSE LastOf(m)
  BY <1>10
<1>13. PlusMonths(anchor, (k + 1) * months) = InMonth(m, last)
  BY <1>1, <1>9, <1>12 DEF PlusMonths, Exists
<1>14. Restored(anchor, next) = InMonth(m, last)
  <2>1. InMonth(m, next.day) = next
    BY <1>8, MonthsOfDates
  <2>2. CASE day <= LastOf(m)
    <3>1. CASE next.day < day
      <4>1. Restored(anchor, next) = [next EXCEPT !.day = day]
        BY <1>1, <1>8, <2>2, <3>1 DEF Restored, Exists
      <4>2. next = [year |-> m \div 12, month |-> (m % 12) + 1, day |-> next.day]
        BY <2>1 DEF InMonth
      <4>3. [next EXCEPT !.day = day]
              = [year |-> m \div 12, month |-> (m % 12) + 1, day |-> day]
        BY <4>2
      <4>. QED
        BY <1>12, <2>2, <4>1, <4>3 DEF InMonth
    <3>2. CASE ~(next.day < day)
      <4>1. next.day = day
        BY <1>2, <1>5, <1>8, <1>10, <3>2
      <4>2. Restored(anchor, next) = next
        BY <1>1, <3>2 DEF Restored
      <4>. QED
        BY <1>12, <2>1, <2>2, <4>1, <4>2
    <3>. QED
      BY <3>1, <3>2
  <2>3. CASE ~(day <= LastOf(m))
    <3>1. Restored(anchor, next) = next
      BY <1>1, <1>8, <2>3 DEF Restored, Exists
    <3>2. n % 12 = a % 12 \/ months # 12
      <4>1. CASE months = 12
        <5>1. n = a + 12 * k
          BY <1>3, <4>1
        <5>2. PICK y, q : y = a \div 12 /\ q = a % 12
          OBVIOUS
        <5>3. y \in Nat /\ q \in 0..11 /\ a = 12 * y + q
          BY <5>2, MonthsDivide
        <5>4. (y + k) * 12 + q = n /\ y + k \in Nat
          BY <5>1, <5>3
        <5>5. n % 12 = q
          BY <5>3, <5>4, MonthsCompose
        <5>. QED
          BY <5>2, <5>5
      <4>. QED
        BY <4>1
    <3>3. next.day = LastOf(m)
      <4>1. CASE day <= LastOf(n)
        BY <1>5, <1>8, <1>10, <2>3, <4>1
      <4>2. CASE day > LastOf(n)
        <5>1. LastOf(n) >= LastOf(m)
          BY <1>2, <1>6, <1>10, <2>3, <3>2, <4>2, ShortMonths
        <5>2. cur.day = LastOf(n)
          BY <1>5, <1>10, <4>2
        <5>. QED
          BY <1>8, <1>10, <5>1, <5>2
      <4>. QED
        BY <1>10, <4>1, <4>2
    <3>. QED
      BY <1>12, <2>1, <2>3, <3>1, <3>3
  <2>. QED
    BY <2>2, <2>3
<1>. QED
  BY <1>3, <1>4, <1>11, <1>13, <1>14

\* Every date of a schedule is one, and follows from those before it.
CalendarInv ==
  /\ frequency \in Frequency
  /\ IsSeq(dates)
  /\ desk = "calendar" => Len(dates) > 0
  /\ \A n \in DOMAIN dates : ADate(dates[n])
  /\ \A n \in DOMAIN dates : frequency \in DOMAIN MonthsPerPeriod =>
       dates[n] = PlusMonths(dates[1], (n - 1) * MonthsPerPeriod[frequency])
  /\ DatesKeepTheirDay

\* One round of generate_due_dates or compute_schedule keeps the invariant.
LEMMA DueDateKeeps ==
  ASSUME CalendarInv, desk = "calendar", AddDueDate, desk' = desk
  PROVE  CalendarInv'
<1>1. IsSeq(dates) /\ Len(dates) > 0
  BY DEF CalendarInv
<1>2. PICK d : d = Step(dates[1], dates[Len(dates)], frequency)
  OBVIOUS
<1>3. dates' = Append(dates, d) /\ frequency' = frequency
  BY <1>2 DEF AddDueDate
<1>4. PICK D : D = dates'
  OBVIOUS
<1>5. Appends(D, dates, d)
  BY <1>3, <1>4 DEF Appends
<1>6. PICK len : len = Len(dates)
  OBVIOUS
<1>7. /\ len \in Nat /\ len > 0 /\ Len(D) = len + 1 /\ IsSeq(D)
      /\ DOMAIN dates = 1..len /\ DOMAIN D = 1..(len + 1)
      /\ \A i \in 1..len : D[i] = dates[i]
      /\ D[len + 1] = d
  BY <1>1, <1>5, <1>6, SeqAppended
<1>8. PICK last, anchor : last = dates[len] /\ anchor = dates[1]
  OBVIOUS
<1>9. ADate(last) /\ ADate(anchor) /\ D[1] = anchor /\ D[len] = last
  BY <1>7, <1>8 DEF CalendarInv
<1>10. PICK every \in Frequency : every = frequency
  BY DEF CalendarInv
<1>11. /\ every \in DOMAIN MonthsPerPeriod =>
            d = PlusMonths(anchor, len * MonthsPerPeriod[every])
       /\ every = "DAILY" => d = PlusDays(last, 1)
       /\ every = "WEEKLY" => d = PlusDays(last, 7)
       /\ ADate(d)
       /\ \/ MonthNumber(last) < MonthNumber(d)
          \/ MonthNumber(last) = MonthNumber(d) /\ last.day < d.day
  <2>1. CASE every \in DOMAIN MonthsPerPeriod
    <3>1. PICK months \in {1, 3, 6, 12} : months = MonthsPerPeriod[every]
      BY <2>1, PeriodMonths
    <3>2. PICK k \in Nat : k = len - 1
      BY <1>7
    <3>3. last = PlusMonths(anchor, k * months)
      BY <1>7, <1>8, <1>10, <2>1, <3>1, <3>2 DEF CalendarInv
    <3>4. d = Step(anchor, last, every)
      BY <1>2, <1>6, <1>8, <1>10
    <3>5. d = PlusMonths(anchor, (k + 1) * months)
      BY <1>9, <2>1, <3>1, <3>3, <3>4, PeriodsAdded
    <3>6. k + 1 = len
      BY <1>7, <3>2
    <3>7. PICK p \in Nat, q \in Nat : p = k * months /\ q = (k + 1) * months
      OBVIOUS
    <3>8. p < q
      <4>1. CASE months = 1
        BY <3>7, <4>1
      <4>2. CASE months = 3
        BY <3>7, <4>2
      <4>3. CASE months = 6
        BY <3>7, <4>3
      <4>4. CASE months = 12
        BY <3>7, <4>4
      <4>. QED
        BY <4>1, <4>2, <4>3, <4>4
    <3>9. /\ MonthNumber(anchor) \in Nat
          /\ MonthNumber(last) = MonthNumber(anchor) + p
          /\ MonthNumber(d) = MonthNumber(anchor) + q /\ ADate(d)
      BY <1>9, <3>3, <3>5, <3>7, MonthsAdded, MonthsOfDates
    <3>10. every # "DAILY" /\ every # "WEEKLY"
      BY <2>1 DEF MonthsPerPeriod
    <3>. QED
      BY <3>1, <3>5, <3>6, <3>8, <3>9, <3>10
  <2>2. ASSUME NEW n \in {1, 7}, every = IF n = 1 THEN "DAILY" ELSE "WEEKLY"
        PROVE  /\ d = PlusDays(last, n) /\ ADate(d)
               /\ \/ MonthNumber(last) < MonthNumber(d)
                  \/ MonthNumber(last) = MonthNumber(d) /\ last.day < d.day
    <3>1. d = PlusDays(last, n)
      BY <1>2, <1>6, <1>8, <1>10, <2>2 DEF Step
    <3>. QED
      BY <1>9, <3>1, DaysAdded
  <2>3. CASE every \notin DOMAIN MonthsPerPeriod
    <3>1. every \in {"DAILY", "WEEKLY"}
      BY <2>3 DEF Frequency, MonthsPerPeriod
    <3>. QED
      BY <2>2, <2>3, <3>1
  <2>. QED
    BY <2>1, <2>3
<1>12. ASSUME NEW n \in DOMAIN D
       PROVE  /\ ADate(D[n])
              /\ every \in DOMAIN MonthsPerPeriod =>
                   D[n] = PlusMonths(D[1], (n - 1) * MonthsPerPeriod[every])
  <2>1. CASE n \in 1..len
    BY <1>7, <1>8, <1>9, <1>10, <2>1 DEF CalendarInv
  <2>2. CASE n = len + 1
    <3>1. n - 1 = len
      BY <1>7, <2>2
    <3>. QED
      BY <1>7, <1>9, <1>11, <2>2, <3>1
  <2>. QED
    BY <1>7, <2>1, <2>2
<1>13. ASSUME NEW n \in 2..Len(D)
       PROVE  /\ every \in DOMAIN MonthsPerPeriod =>
                   D[n] = PlusMonths(D[1], (n - 1) * MonthsPerPeriod[every])
              /\ every = "DAILY" => D[n] = PlusDays(D[n - 1], 1)
              /\ every = "WEEKLY" => D[n] = PlusDays(D[n - 1], 7)
              /\ \/ MonthNumber(D[n - 1]) < MonthNumber(D[n])
                 \/ /\ MonthNumber(D[n - 1]) = MonthNumber(D[n])
                    /\ D[n - 1].day < D[n].day
  <2>1. n \in DOMAIN D
    BY <1>7
  <2>2. CASE n \in 2..len
    <3>1. D[n] = dates[n] /\ D[n - 1] = dates[n - 1] /\ n \in 2..Len(dates)
      BY <1>6, <1>7, <2>2
    <3>. QED
      BY <1>10, <1>12, <2>1, <3>1 DEF CalendarInv, DatesKeepTheirDay
  <2>3. CASE n = len + 1
    <3>1. D[n] = d /\ D[n - 1] = last
      BY <1>7, <1>9, <2>3
    <3>. QED
      BY <1>11, <1>12, <2>1, <3>1
  <2>. QED
    BY <1>7, <2>2, <2>3
<1>14. DatesKeepTheirDay'
  BY <1>3, <1>4, <1>10, <1>13 DEF DatesKeepTheirDay
<1>15. Len(D) > 0
  BY <1>7
<1>. QED
  BY <1>3, <1>4, <1>7, <1>10, <1>12, <1>14, <1>15 DEF CalendarInv

\* Every step of the office keeps the invariant.
LEMMA CalendarSteps ==
  ASSUME CalendarInv, [Next]_vars
  PROVE  CalendarInv'
<1>1. CASE AtCalendar
  BY <1>1, DueDateKeeps DEF AtCalendar, CalendarNext
<1>2. CASE UNCHANGED <<frequency, dates, desk>>
  BY <1>2 DEF CalendarInv, DatesKeepTheirDay
<1>. QED
  BY <1>1, <1>2 DEF Next, vars, queries, schedule, AtDispatch, AtFiles, AtSessions,
    AtReconciliation, AtLists, AtRisk, AtLimiter, AtVerification

\* Every due date is a date, and counted in periods from the first.
THEOREM CalendarSound == Spec => []CalendarInv
<1>1. ASSUME Init PROVE CalendarInv
  <2>1. CASE desk = "calendar"
    <3>1. PICK start \in Starts : frequency \in Frequency /\ dates = <<start>>
      BY <1>1, <2>1 DEF Init, CalendarInit
    <3>2. ADate(start)
      BY CalendarAssumption
    <3>3. dates \in Seq({start}) /\ Len(dates) = 1 /\ DOMAIN dates = {1} /\ dates[1] = start
      BY <3>1
    <3>4. ASSUME frequency \in DOMAIN MonthsPerPeriod
          PROVE  start = PlusMonths(start, (1 - 1) * MonthsPerPeriod[frequency])
      <4>1. (1 - 1) * MonthsPerPeriod[frequency] = 0
        BY <3>4, PeriodMonths
      <4>2. PlusMonths(start, 0) = InMonth(MonthNumber(start), start.day)
        <5>1. MonthNumber(start) + 0 = MonthNumber(start)
          BY <3>2, MonthsOfDates
        <5>2. Exists(MonthNumber(start), start.day)
          BY <3>2, MonthsOfDates DEF Exists
        <5>. QED
          BY <5>1, <5>2 DEF PlusMonths
      <4>. QED
        BY <3>2, <4>1, <4>2, MonthsOfDates
    <3>5. DatesKeepTheirDay
      BY <3>3 DEF DatesKeepTheirDay
    <3>. QED
      BY <3>1, <3>2, <3>3, <3>4, <3>5 DEF CalendarInv, IsSeq
  <2>2. CASE desk # "calendar"
    <3>1. frequency = "DAILY" /\ dates = <<>>
      BY <1>1, <2>2 DEF Init
    <3>2. dates \in Seq({}) /\ Len(dates) = 0 /\ DOMAIN dates = {}
      BY <3>1
    <3>3. DatesKeepTheirDay
      BY <3>2 DEF DatesKeepTheirDay
    <3>. QED
      BY <2>2, <3>1, <3>2, <3>3 DEF CalendarInv, IsSeq, Frequency
  <2>. QED
    BY <2>1, <2>2
<1>2. CalendarInv /\ [Next]_vars => CalendarInv'
  BY CalendarSteps
<1>. QED
  BY <1>1, <1>2, PTL DEF Spec

\* A schedule keeps the day it began on, however many short months and leap years
\* it has passed (add_calendar_step).
THEOREM DaysKept == Spec => []DatesKeepTheirDay
<1>1. CalendarInv => DatesKeepTheirDay
  BY DEF CalendarInv
<1>. QED
  BY CalendarSound, <1>1, PTL
-----------------------------------------------------------------------------
(***************************************************************************)
(* Verification.                                                           *)
(***************************************************************************)
\* What the entries of an account do to it, by its entries alone.
Effects(a, all) == [i \in DOMAIN all |-> SignedEffect(a, all[i])]
Made(a, all, n) == SumFunctionOnSet(Effects(a, all), 1..n)

\* BalanceAfter, of entries that need not be the present ones.
LEMMA BalanceIsMade ==
  ASSUME NEW a, NEW n
  PROVE  BalanceAfter(a, n) = Made(a, entries[a], n)
BY DEF BalanceAfter, Made, Effects

\* The effects of entries are numbers.
LEMMA EffectsAre ==
  ASSUME NEW a, NEW all \in Seq(LedgerEntry)
  PROVE  /\ DOMAIN Effects(a, all) = 1..Len(all) /\ Len(all) \in Nat
         /\ \A i \in 1..Len(all) : Effects(a, all)[i] = SignedEffect(a, all[i])
                                     /\ Effects(a, all)[i] \in Int
<1>1. DOMAIN all = 1..Len(all) /\ Len(all) \in Nat /\ \A i \in 1..Len(all) : all[i] \in LedgerEntry
  OBVIOUS
<1>2. \A e \in LedgerEntry : SignedEffect(a, e) \in Int
  <2>1. \A e \in LedgerEntry : e.amount \in Nat
    BY DEF LedgerEntry
  <2>. QED
    BY <2>1 DEF SignedEffect
<1>. QED
  BY <1>1, <1>2 DEF Effects

\* What entries make, one entry after the other.
LEMMA MadeIsInt ==
  ASSUME NEW a, NEW all \in Seq(LedgerEntry), NEW n \in 0..Len(all)
  PROVE  /\ Made(a, all, n) \in Int
         /\ n < Len(all) => Made(a, all, n + 1) = Made(a, all, n) + SignedEffect(a, all[n + 1])
         /\ Made(a, all, 0) = 0
<1>1. PICK f : f = Effects(a, all)
  OBVIOUS
<1>2. Len(all) \in Nat /\ \A i \in 1..Len(all) : f[i] = SignedEffect(a, all[i]) /\ f[i] \in Int
  BY <1>1, EffectsAre
<1>3. n \in Nat /\ IsFiniteSet(1..n) /\ 1..0 = {}
  BY <1>2, FS_Interval
<1>4. SumFunctionOnSet(f, 1..n) \in Int
  BY <1>2, <1>3, SumInt
<1>5. n < Len(all) => SumFunctionOnSet(f, 1..(n + 1)) = SumFunctionOnSet(f, 1..n) + f[n + 1]
  <2>1. n < Len(all) => \A i \in 1..(n + 1) : f[i] \in Int
    BY <1>2
  <2>. QED
    BY <1>3, <2>1, SumNext
<1>6. SumFunctionOnSet(f, 1..0) = 0
  BY <1>3, SumEmpty
<1>7. n < Len(all) => f[n + 1] = SignedEffect(a, all[n + 1])
  BY <1>2
<1>. QED
  BY <1>1, <1>4, <1>5, <1>6, <1>7 DEF Made

\* What the first entries make is not changed by a later one.
LEMMA MadeStays ==
  ASSUME NEW a, NEW all \in Seq(LedgerEntry), NEW e \in LedgerEntry,
         NEW more, Appends(more, all, e)
  PROVE  /\ more \in Seq(LedgerEntry) /\ Len(more) = Len(all) + 1 /\ Len(all) \in Nat
         /\ more[Len(all) + 1] = e
         /\ \A n \in 0..Len(all) : Made(a, more, n) = Made(a, all, n)
         /\ Made(a, more, Len(all) + 1) = Made(a, all, Len(all)) + SignedEffect(a, e)
<1>1. /\ more \in Seq(LedgerEntry) /\ Len(more) = Len(all) + 1 /\ Len(all) \in Nat
      /\ more[Len(all) + 1] = e /\ \A i \in 1..Len(all) : more[i] = all[i]
  BY DEF Appends
<1>2. ASSUME NEW n \in 0..Len(all) PROVE Made(a, more, n) = Made(a, all, n)
  <2>1. PICK f, g : f = Effects(a, more) /\ g = Effects(a, all)
    OBVIOUS
  <2>2. \A i \in 1..n : f[i] = g[i]
    <3>1. \A i \in 1..n : i \in 1..Len(all) /\ i \in 1..Len(more)
      BY <1>1
    <3>2. /\ \A i \in 1..Len(all) : g[i] = SignedEffect(a, all[i])
          /\ \A i \in 1..Len(more) : f[i] = SignedEffect(a, more[i])
      BY <1>1, <2>1, EffectsAre
    <3>. QED
      BY <1>1, <3>1, <3>2
  <2>3. IsFiniteSet(1..n)
    BY <1>1, FS_Interval
  <2>4. SumFunctionOnSet(f, 1..n) = SumFunctionOnSet(g, 1..n)
    BY <2>2, <2>3, SumAgree
  <2>. QED
    BY <2>1, <2>4 DEF Made
<1>3. PICK len \in Nat : len = Len(all)
  BY <1>1
<1>4. Made(a, more, len + 1) = Made(a, more, len) + SignedEffect(a, more[len + 1])
  <2>1. len \in 0..Len(more) /\ len < Len(more)
    BY <1>1, <1>3
  <2>. QED
    BY <1>1, <2>1, MadeIsInt
<1>5. Made(a, more, len) = Made(a, all, len)
  BY <1>2, <1>3
<1>. QED
  BY <1>1, <1>2, <1>3, <1>4, <1>5

Splits(h, f, g, n) ==
  \A i \in 1..n : f[i] \in Int /\ g[i] \in Int /\ h[i] = f[i] + g[i]

\* A sum of sums (the debits and the credits of computed_balance).
LEMMA SumSplit ==
  ASSUME NEW h, NEW f, NEW g, NEW n \in Nat, Splits(h, f, g, n)
  PROVE  SumFunctionOnSet(h, 1..n) = SumFunctionOnSet(f, 1..n) + SumFunctionOnSet(g, 1..n)
<1>1. IsFiniteSet(1..n)
  BY FS_Interval
<1>2. \A i \in 1..n : f[i] \in Int /\ g[i] \in Int /\ h[i] = f[i] + g[i]
  BY DEF Splits
<1>. QED
  BY <1>1, <1>2, SumPlus

\* computed_balance is what the entries make.
LEMMA ComputedIsMade ==
  ASSUME NEW a, entries[a] \in Seq(LedgerEntry)
  PROVE  Computed(a) = BalanceAfter(a, Len(entries[a]))
<1>1. PICK all, f, len :
        all = entries[a] /\ f = Effects(a, all) /\ len = Len(all)
  OBVIOUS
<1>2. /\ len \in Nat /\ DOMAIN all = 1..len
      /\ \A i \in 1..len : all[i] \in LedgerEntry
      /\ \A i \in 1..len : f[i] = SignedEffect(a, all[i]) /\ f[i] \in Int
  BY <1>1, EffectsAre
<1>3. PICK debit, credit :
        /\ debit = [n \in DOMAIN all |-> IF all[n].direction = "DEBIT"
                                         THEN all[n].amount ELSE 0]
        /\ credit = [n \in DOMAIN all |-> IF all[n].direction = "CREDIT"
                                          THEN all[n].amount ELSE 0]
  OBVIOUS
<1>4. /\ \A i \in 1..len : debit[i] \in Nat /\ credit[i] \in Nat
      /\ \A i \in 1..len : f[i] = IF DebitPositive(a) THEN debit[i] - credit[i]
                                  ELSE credit[i] - debit[i]
  <2>1. ASSUME NEW i \in 1..len
        PROVE  /\ debit[i] \in Nat /\ credit[i] \in Nat
               /\ f[i] = IF DebitPositive(a) THEN debit[i] - credit[i]
                         ELSE credit[i] - debit[i]
    <3>1. PICK e \in LedgerEntry : e = all[i]
      BY <1>2
    <3>2. e.amount \in Nat /\ e.direction \in {"DEBIT", "CREDIT"}
      BY DEF LedgerEntry
    <3>3. f[i] = SignedEffect(a, e)
      BY <1>2, <3>1
    <3>4. /\ debit[i] = IF e.direction = "DEBIT" THEN e.amount ELSE 0
          /\ credit[i] = IF e.direction = "CREDIT" THEN e.amount ELSE 0
      BY <1>2, <1>3, <3>1
    <3>5. DebitPositive(a) \in BOOLEAN
      BY DEF DebitPositive
    <3>. QED
      BY <3>2, <3>3, <3>4, <3>5 DEF SignedEffect
  <2>. QED
    BY <2>1
<1>5. IsFiniteSet(1..len)
  BY <1>2, FS_Interval
<1>6. PICK D, C, F : /\ D = SumFunctionOnSet(debit, 1..len)
                     /\ C = SumFunctionOnSet(credit, 1..len)
                     /\ F = SumFunctionOnSet(f, 1..len)
  OBVIOUS
<1>7. D \in Int /\ C \in Int /\ F \in Int
  <2>1. \A i \in 1..len : debit[i] \in Int /\ credit[i] \in Int
    BY <1>4
  <2>. QED
    BY <1>2, <1>5, <1>6, <2>1, SumInt
<1>8. CASE DebitPositive(a)
  <2>1. Splits(debit, f, credit, len)
    BY <1>2, <1>4, <1>8 DEF Splits
  <2>2. D = F + C
    BY <1>2, <1>6, <2>1, SumSplit
  <2>3. Computed(a) = D - C
    BY <1>1, <1>2, <1>3, <1>6, <1>8 DEF Computed, TotalOf
  <2>4. F = BalanceAfter(a, Len(entries[a]))
    BY <1>1, <1>6, BalanceIsMade DEF Made
  <2>. QED
    BY <1>7, <2>2, <2>3, <2>4
<1>9. CASE ~DebitPositive(a)
  <2>1. Splits(credit, f, debit, len)
    BY <1>2, <1>4, <1>9 DEF Splits
  <2>2. C = F + D
    BY <1>2, <1>6, <2>1, SumSplit
  <2>3. Computed(a) = C - D
    BY <1>1, <1>2, <1>3, <1>6, <1>9 DEF Computed, TotalOf
  <2>4. F = BalanceAfter(a, Len(entries[a]))
    BY <1>1, <1>6, BalanceIsMade DEF Made
  <2>. QED
    BY <1>7, <2>2, <2>3, <2>4
<1>. QED
  BY <1>8, <1>9

\* An account that was opened is told apart from one that was not.
LEMMA RowsDiffer ==
  /\ NoRow \notin LedgerAccount
  /\ \A r \in LedgerAccount : /\ r = [balance |-> r.balance,
                                      allow_negative |-> r.allow_negative,
                                      asked |-> r.asked]
                              /\ r.balance \in Int /\ r.allow_negative \in BOOLEAN
                              /\ r.asked \in Openings
<1>1. ASSUME NoRow \in LedgerAccount PROVE FALSE
  <2>1. "asked" \in DOMAIN NoRow
    BY <1>1 DEF LedgerAccount
  <2>2. DOMAIN NoRow = {"balance"}
    BY DEF NoRow
  <2>. QED
    BY <2>1, <2>2
<1>. QED
  BY <1>1 DEF LedgerAccount

\* The balance of an account is what its entries make of it, the first of them the
\* opening balance that was asked for.
AccountOK(a, r, all) ==
  /\ all \in Seq(LedgerEntry)
  /\ r = NoRow => Len(all) = 0
  /\ r # NoRow => /\ r \in LedgerAccount
                  /\ r.balance = Made(a, all, Len(all))
                  /\ r.asked # 0 => Len(all) >= 1 /\ r.asked = Made(a, all, 1)

AccountsOK ==
  /\ DOMAIN row = Account /\ DOMAIN entries = Account
  /\ row[Equity] # NoRow
  /\ \A a \in Account : AccountOK(a, row[a], entries[a])

\* What a job has read of an account is what its first entries made.
ReportOK(r) ==
  r = NoReport \/
    /\ r = [does |-> r.does, rows |-> r.rows, began |-> r.began]
    /\ r.does \in {"snapshot", "verify"}
    /\ DOMAIN r.rows \subseteq Account /\ DOMAIN r.began = DOMAIN r.rows
    /\ \A a \in DOMAIN r.rows : /\ r.began[a] \in 0..Len(entries[a])
                                /\ r.rows[a] = Made(a, entries[a], r.began[a])

SnapshotsOK ==
  \A s \in snapshots :
    /\ s.account \in Account
    /\ s.entry_count \in 0..Len(entries[s.account]) /\ s.began \in 0..s.entry_count
    /\ s.balance = Made(s.account, entries[s.account], s.began)

DriftsOK ==
  \A d \in drifts :
    /\ d.account \in Account
    /\ d.seen \in 0..Len(entries[d.account]) /\ d.began \in 0..(d.seen - 1)
    /\ d.drift = Made(d.account, entries[d.account], d.began)
                   - Made(d.account, entries[d.account], d.seen)

VerificationInv == AccountsOK /\ ReportOK(report) /\ SnapshotsOK /\ DriftsOK

\* Entries are only added.
Grown ==
  /\ DOMAIN entries' = Account
  /\ \A a \in Account :
       /\ entries'[a] \in Seq(LedgerEntry)
       /\ Len(entries[a]) \in Nat /\ Len(entries'[a]) \in Nat
       /\ Len(entries[a]) <= Len(entries'[a])
       /\ \A n \in 0..Len(entries[a]) : Made(a, entries'[a], n) = Made(a, entries[a], n)

\* More entries change nothing of what was read of the earlier ones.
LEMMA ReportsStay ==
  ASSUME VerificationInv, Grown, UNCHANGED <<report, snapshots, drifts>>
  PROVE  ReportOK(report)' /\ SnapshotsOK' /\ DriftsOK'
<1>1. ReportOK(report)'
  <2>1. PICK r : r = report
    OBVIOUS
  <2>2. ReportOK(r)
    BY <2>1 DEF VerificationInv
  <2>3. ReportOK(r)'
    <3>1. CASE r = NoReport
      BY <3>1 DEF ReportOK
    <3>2. CASE r # NoReport
      <4>1. ASSUME NEW a \in DOMAIN r.rows
            PROVE  /\ r.began[a] \in 0..Len(entries'[a])
                   /\ r.rows[a] = Made(a, entries'[a], r.began[a])
        <5>1. /\ a \in Account /\ r.began[a] \in 0..Len(entries[a])
              /\ r.rows[a] = Made(a, entries[a], r.began[a])
          BY <2>2, <3>2 DEF ReportOK
        <5>. QED
          BY <5>1 DEF Grown
      <4>. QED
        BY <2>2, <3>2, <4>1 DEF ReportOK
    <3>. QED
      BY <3>1, <3>2
  <2>. QED
    BY <2>1, <2>3
<1>2. SnapshotsOK'
  <2>1. ASSUME NEW s \in snapshots
        PROVE  /\ s.account \in Account
               /\ s.entry_count \in 0..Len(entries'[s.account])
               /\ s.began \in 0..s.entry_count
               /\ s.balance = Made(s.account, entries'[s.account], s.began)
    <3>1a. PICK a \in Account : \E n, m :
            a = s.account /\ n = s.began /\ m = s.entry_count
      BY DEF VerificationInv, SnapshotsOK
    <3>1. PICK n, m :
            a = s.account /\ n = s.began /\ m = s.entry_count
      BY <3>1a
    <3>2. /\ m \in 0..Len(entries[a]) /\ n \in 0..m
          /\ s.balance = Made(a, entries[a], n)
      BY <3>1 DEF VerificationInv, SnapshotsOK
    <3>3. /\ Len(entries[a]) \in Nat /\ Len(entries'[a]) \in Nat
          /\ Len(entries[a]) <= Len(entries'[a])
          /\ \A i \in 0..Len(entries[a]) : Made(a, entries'[a], i) = Made(a, entries[a], i)
      BY DEF Grown
    <3>4. n \in 0..Len(entries[a]) /\ m \in 0..Len(entries'[a])
      BY <3>2, <3>3
    <3>. QED
      BY <3>1, <3>2, <3>3, <3>4
  <2>. QED
    BY <2>1 DEF SnapshotsOK
<1>3. DriftsOK'
  <2>1. ASSUME NEW d \in drifts
        PROVE  /\ d.account \in Account
               /\ d.seen \in 0..Len(entries'[d.account]) /\ d.began \in 0..(d.seen - 1)
               /\ d.drift = Made(d.account, entries'[d.account], d.began)
                              - Made(d.account, entries'[d.account], d.seen)
    <3>1a. PICK a \in Account : \E n, m :
            a = d.account /\ n = d.began /\ m = d.seen
      BY DEF VerificationInv, DriftsOK
    <3>1. PICK n, m :
            a = d.account /\ n = d.began /\ m = d.seen
      BY <3>1a
    <3>2. /\ m \in 0..Len(entries[a]) /\ n \in 0..(m - 1)
          /\ d.drift = Made(a, entries[a], n) - Made(a, entries[a], m)
      BY <3>1 DEF VerificationInv, DriftsOK
    <3>3. /\ Len(entries[a]) \in Nat /\ Len(entries'[a]) \in Nat
          /\ Len(entries[a]) <= Len(entries'[a])
          /\ \A i \in 0..Len(entries[a]) : Made(a, entries'[a], i) = Made(a, entries[a], i)
      BY DEF Grown
    <3>4. n \in 0..Len(entries[a]) /\ m \in 0..Len(entries'[a])
      BY <3>2, <3>3
    <3>. QED
      BY <3>1, <3>2, <3>3, <3>4
  <2>. QED
    BY <2>1 DEF DriftsOK
<1>. QED
  BY <1>1, <1>2, <1>3

\* Both accounts stand: their balances are what their entries make.
Stand(accounts, debit, credit) ==
  /\ DOMAIN accounts = Account
  /\ \A b \in {debit, credit} :
       /\ accounts[b] \in LedgerAccount
       /\ accounts[b].balance = Made(b, entries[b], Len(entries[b]))

\* An entry was added to two accounts, and its effect to their balances.
Added(accounts, debit, credit, amount) ==
  /\ DOMAIN row' = Account
  /\ \A b \in Account \ {debit, credit} :
       row'[b] = accounts[b] /\ entries'[b] = entries[b]
  /\ \A b \in {debit, credit} :
       /\ row'[b] \in LedgerAccount /\ row'[b].asked = accounts[b].asked
       /\ Len(entries'[b]) = Len(entries[b]) + 1
       /\ row'[b].balance = Made(b, entries'[b], Len(entries'[b]))
       /\ row'[b].balance = accounts[b].balance
            + SignedEffect(b, [direction |-> IF b = debit THEN "DEBIT" ELSE "CREDIT",
                               amount |-> amount])

\* A posting adds one entry to each of two accounts and moves their balances by it.
LEMMA PostsAdd ==
  ASSUME AccountsOK, NEW accounts, NEW debit \in Account, NEW credit \in Account,
         NEW amount \in Nat, Stand(accounts, debit, credit),
         Posts(accounts, debit, credit, amount)
  PROVE  Grown /\ Added(accounts, debit, credit, amount)
<1>. DEFINE Entry1(b) == [direction |-> IF b = debit THEN "DEBIT" ELSE "CREDIT",
                          amount |-> amount]
<1>1. \A b \in Account : entries[b] \in Seq(LedgerEntry)
  BY DEF AccountsOK, AccountOK
<1>2. \A b \in Account : Entry1(b) \in LedgerEntry
  BY DEF LedgerEntry
<1>3. /\ DOMAIN row' = Account /\ DOMAIN entries' = Account
      /\ \A b \in Account \ {debit, credit} :
           row'[b] = accounts[b] /\ entries'[b] = entries[b]
      /\ \A b \in {debit, credit} :
           /\ row'[b] = [accounts[b] EXCEPT !.balance
                           = accounts[b].balance + SignedEffect(b, Entry1(b))]
           /\ entries'[b] = Append(entries[b], Entry1(b))
  BY DEF Posts
<1>a. /\ DOMAIN accounts = Account
      /\ \A b \in {debit, credit} :
           /\ accounts[b] \in LedgerAccount
           /\ accounts[b].balance = Made(b, entries[b], Len(entries[b]))
  BY DEF Stand
<1>. HIDE DEF Entry1
<1>4. ASSUME NEW b \in Account
      PROVE  /\ entries'[b] \in Seq(LedgerEntry)
             /\ Len(entries[b]) \in Nat /\ Len(entries'[b]) \in Nat
             /\ Len(entries[b]) <= Len(entries'[b])
             /\ \A n \in 0..Len(entries[b]) :
                  Made(b, entries'[b], n) = Made(b, entries[b], n)
             /\ b \in {debit, credit} =>
                  /\ Len(entries'[b]) = Len(entries[b]) + 1
                  /\ Made(b, entries'[b], Len(entries'[b]))
                       = Made(b, entries[b], Len(entries[b]))
                           + SignedEffect(b, Entry1(b))
  <2>1. CASE b \in {debit, credit}
    <3>1. PICK all, more, e : all = entries[b] /\ more = entries'[b] /\ e = Entry1(b)
      OBVIOUS
    <3>2. all \in Seq(LedgerEntry) /\ e \in LedgerEntry /\ Appends(more, all, e)
      BY <1>1, <1>2, <1>3, <2>1, <3>1 DEF Appends
    <3>3. /\ more \in Seq(LedgerEntry) /\ Len(more) = Len(all) + 1 /\ Len(all) \in Nat
          /\ \A n \in 0..Len(all) : Made(b, more, n) = Made(b, all, n)
          /\ Made(b, more, Len(all) + 1) = Made(b, all, Len(all)) + SignedEffect(b, e)
      BY <3>2, MadeStays
    <3>. QED
      BY <3>1, <3>3
  <2>2. CASE b \notin {debit, credit}
    <3>1. entries'[b] = entries[b] /\ Len(entries[b]) \in Nat
      BY <1>1, <1>3, <2>2
    <3>. QED
      BY <1>1, <2>2, <3>1
  <2>. QED
    BY <2>1, <2>2
<1>5. Grown
  BY <1>3, <1>4 DEF Grown
<1>6. ASSUME NEW b \in {debit, credit}
      PROVE  /\ row'[b] \in LedgerAccount /\ row'[b].asked = accounts[b].asked
             /\ row'[b].balance = accounts[b].balance + SignedEffect(b, Entry1(b))
  <2>1. PICK r, v : r = accounts[b] /\ v = r.balance + SignedEffect(b, Entry1(b))
    OBVIOUS
  <2>2. r \in LedgerAccount /\ row'[b] = [r EXCEPT !.balance = v]
    BY <1>3, <1>a, <2>1
  <2>3. v \in Int
    <3>1. r.balance \in Int
      BY <2>2, RowsDiffer
    <3>2. SignedEffect(b, Entry1(b)) \in Int
      BY DEF Entry1, SignedEffect
    <3>. QED
      BY <2>1, <3>1, <3>2
  <2>. QED
    BY <2>1, <2>2, <2>3 DEF LedgerAccount
<1>. QED
  <2>1. \A b \in {debit, credit} :
          row'[b].balance = Made(b, entries'[b], Len(entries'[b]))
    BY <1>4, <1>6, <1>a
  <2>. QED
    BY <1>3, <1>4, <1>5, <1>6, <2>1 DEF Added, Entry1

\* post_transaction.
LEMMA PostingKeeps ==
  ASSUME VerificationInv, PostTransaction
  PROVE  VerificationInv'
<1>1. AccountsOK /\ UNCHANGED <<report, snapshots, drifts>>
  BY DEF VerificationInv, PostTransaction
<1>2. PICK debit \in Opened, credit \in Opened : debit # credit /\ Posts(row, debit, credit, 1)
  BY DEF PostTransaction
<1>3. PICK R : R = row
  OBVIOUS
<1>4. \A b \in {debit, credit} :
        /\ b \in Account /\ R[b] \in LedgerAccount
        /\ R[b].balance = Made(b, entries[b], Len(entries[b]))
        /\ R[b].asked # 0 => Len(entries[b]) >= 1 /\ R[b].asked = Made(b, entries[b], 1)
  BY <1>1, <1>3 DEF Opened, AccountsOK, AccountOK
<1>5. /\ Grown /\ DOMAIN row' = Account
      /\ \A b \in Account \ {debit, credit} : row'[b] = R[b] /\ entries'[b] = entries[b]
      /\ \A b \in {debit, credit} :
           /\ row'[b] \in LedgerAccount /\ row'[b].asked = R[b].asked
           /\ Len(entries'[b]) = Len(entries[b]) + 1
           /\ row'[b].balance = Made(b, entries'[b], Len(entries'[b]))
  <2>1. DOMAIN R = Account /\ Posts(R, debit, credit, 1) /\ debit \in Account
        /\ credit \in Account
    BY <1>1, <1>2, <1>3, <1>4 DEF AccountsOK
  <2>2. \A b \in {debit, credit} : /\ R[b] \in LedgerAccount
                                   /\ R[b].balance = Made(b, entries[b], Len(entries[b]))
    BY <1>4
  <2>. QED
    <3>1. Stand(R, debit, credit)
      BY <2>1, <2>2 DEF Stand
    <3>2. Grown /\ Added(R, debit, credit, 1)
      BY <1>1, <2>1, <3>1, PostsAdd
    <3>. QED
      BY <3>2 DEF Added
<1>6. ASSUME NEW b \in Account PROVE AccountOK(b, row'[b], entries'[b])
  <2>1. CASE b \in {debit, credit}
    <3>1. PICK all, more : all = entries[b] /\ more = entries'[b]
      OBVIOUS
    <3>2. /\ more \in Seq(LedgerEntry) /\ Len(all) \in Nat /\ Len(more) = Len(all) + 1
          /\ \A n \in 0..Len(all) : Made(b, more, n) = Made(b, all, n)
      BY <1>4, <1>5, <2>1, <3>1 DEF Grown
    <3>3. R[b].asked # 0 => 1 \in 0..Len(all) /\ R[b].asked = Made(b, all, 1)
      BY <1>4, <2>1, <3>1, <3>2
    <3>4. Len(more) >= 1
      BY <3>2
    <3>5. row'[b] # NoRow
      BY <1>5, <2>1, RowsDiffer
    <3>. QED
      BY <1>5, <2>1, <3>1, <3>2, <3>3, <3>4, <3>5 DEF AccountOK
  <2>2. CASE b \notin {debit, credit}
    BY <1>1, <1>3, <1>5, <2>2 DEF AccountsOK
  <2>. QED
    BY <2>1, <2>2
<1>7. row'[Equity] # NoRow
  BY <1>1, <1>3, <1>5, VerificationAssumption, RowsDiffer DEF AccountsOK
<1>8. AccountsOK'
  BY <1>5, <1>6, <1>7 DEF AccountsOK, Grown
<1>. QED
  BY <1>1, <1>5, <1>8, ReportsStay DEF VerificationInv

\* The first entry of an account gives it the balance asked for, whatever the sign
\* and the account's type.
LEMMA CreationKeeps ==
  ASSUME VerificationInv, NEW a \in Account, CreateAccount(a)
  PROVE  VerificationInv'
<1>1. AccountsOK /\ UNCHANGED <<report, snapshots, drifts>>
  BY DEF VerificationInv, CreateAccount
<1>2a. PICK opening \in Openings, allow \in BOOLEAN : \E accounts, size :
        /\ accounts = [row EXCEPT ![a] = Created(allow, opening)]
        /\ size = IF opening < 0 THEN 0 - opening ELSE opening
        /\ IF opening = 0 THEN row' = accounts /\ UNCHANGED entries
           ELSE IF (opening > 0) = DebitPositive(a)
                THEN Posts(accounts, a, Equity, size)
                ELSE Posts(accounts, Equity, a, size)
  BY DEF CreateAccount
<1>2. PICK accounts, size :
        /\ accounts = [row EXCEPT ![a] = Created(allow, opening)]
        /\ size = IF opening < 0 THEN 0 - opening ELSE opening
        /\ IF opening = 0 THEN row' = accounts /\ UNCHANGED entries
           ELSE IF (opening > 0) = DebitPositive(a)
                THEN Posts(accounts, a, Equity, size)
                ELSE Posts(accounts, Equity, a, size)
  BY <1>2a
<1>3. opening \in Int /\ size \in Nat
  BY <1>2, VerificationAssumption
<1>4. row[a] = NoRow /\ a # Equity /\ Equity \in Account
  BY <1>1, VerificationAssumption DEF CreateAccount, AccountsOK
<1>5. entries[a] \in Seq(LedgerEntry) /\ Len(entries[a]) = 0
  BY <1>1, <1>4 DEF AccountsOK, AccountOK
<1>6. PICK r : r = Created(allow, opening)
  OBVIOUS
<1>7. r \in LedgerAccount /\ r.balance = 0 /\ r.asked = opening
  BY <1>3, <1>6 DEF Created, LedgerAccount
<1>8. /\ DOMAIN accounts = Account /\ accounts[a] = r
      /\ \A b \in Account \ {a} : accounts[b] = row[b]
  BY <1>1, <1>2, <1>6 DEF AccountsOK
<1>9. Made(a, entries[a], 0) = 0
  BY <1>5, MadeIsInt
<1>10. CASE opening = 0
  <2>1. row' = accounts /\ UNCHANGED entries
    BY <1>2, <1>10
  <2>2. AccountOK(a, r, entries[a])
    BY <1>5, <1>7, <1>9, <1>10, RowsDiffer DEF AccountOK
  <2>3. ASSUME NEW b \in Account PROVE AccountOK(b, row'[b], entries'[b])
    BY <1>1, <1>8, <2>1, <2>2 DEF AccountsOK
  <2>4. AccountsOK'
    BY <1>1, <1>4, <1>8, <2>1, <2>3 DEF AccountsOK
  <2>5. Grown
    BY <1>1, <2>1 DEF Grown, AccountsOK, AccountOK
  <2>. QED
    BY <1>1, <2>4, <2>5, ReportsStay DEF VerificationInv
<1>11. CASE opening # 0
  <2>1. PICK debit, credit :
          /\ Posts(accounts, debit, credit, size)
          /\ {debit, credit} = {a, Equity} /\ debit # credit
          /\ debit = a <=> (opening > 0) = DebitPositive(a)
    BY <1>2, <1>4, <1>11
  <2>2. \A b \in {debit, credit} : /\ accounts[b] \in LedgerAccount
                                   /\ accounts[b].balance
                                        = Made(b, entries[b], Len(entries[b]))
    <3>1. /\ accounts[a] \in LedgerAccount
          /\ accounts[a].balance = Made(a, entries[a], Len(entries[a]))
      BY <1>5, <1>7, <1>8, <1>9
    <3>2. /\ accounts[Equity] \in LedgerAccount
          /\ accounts[Equity].balance = Made(Equity, entries[Equity], Len(entries[Equity]))
      BY <1>1, <1>4, <1>8 DEF AccountsOK, AccountOK
    <3>. QED
      BY <2>1, <3>1, <3>2
  <2>3. PICK e : e = [direction |-> IF a = debit THEN "DEBIT" ELSE "CREDIT",
                      amount |-> size]
    OBVIOUS
  <2>4. /\ Grown /\ DOMAIN row' = Account
        /\ \A b \in Account \ {debit, credit} :
             row'[b] = accounts[b] /\ entries'[b] = entries[b]
        /\ \A b \in {debit, credit} :
             /\ row'[b] \in LedgerAccount /\ row'[b].asked = accounts[b].asked
             /\ Len(entries'[b]) = Len(entries[b]) + 1
             /\ row'[b].balance = Made(b, entries'[b], Len(entries'[b]))
        /\ row'[a].balance = accounts[a].balance + SignedEffect(a, e)
    <3>1. debit \in Account /\ credit \in Account /\ a \in {debit, credit}
      BY <1>4, <2>1
    <3>2. Stand(accounts, debit, credit)
      BY <1>8, <2>2 DEF Stand
    <3>3. Grown /\ Added(accounts, debit, credit, size)
      BY <1>1, <1>3, <2>1, <3>1, <3>2, PostsAdd
    <3>. QED
      BY <2>3, <3>1, <3>3 DEF Added
  <2>5. SignedEffect(a, e) = opening
    <3>1. e.amount = size /\ e.direction = IF a = debit THEN "DEBIT" ELSE "CREDIT"
      BY <2>3
    <3>2. DebitPositive(a) \in BOOLEAN
      BY DEF DebitPositive
    <3>3. CASE opening > 0
      <4>1. size = opening
        BY <1>2, <1>3, <3>3
      <4>2. (e.direction = "DEBIT") = DebitPositive(a)
        BY <2>1, <3>1, <3>2, <3>3
      <4>. QED
        BY <3>1, <4>1, <4>2 DEF SignedEffect
    <3>4. CASE ~(opening > 0)
      <4>1. 0 - size = opening
        BY <1>2, <1>3, <1>11, <3>4
      <4>2. (e.direction = "DEBIT") # DebitPositive(a)
        BY <2>1, <3>1, <3>2, <3>4
      <4>. QED
        BY <3>1, <4>1, <4>2 DEF SignedEffect
    <3>. QED
      BY <3>3, <3>4
  <2>6. AccountOK(a, row'[a], entries'[a])
    <3>1. /\ row'[a] \in LedgerAccount /\ row'[a].asked = opening
          /\ Len(entries'[a]) = 1 /\ entries'[a] \in Seq(LedgerEntry)
          /\ row'[a].balance = Made(a, entries'[a], 1)
          /\ row'[a].balance = 0 + opening
      <4>1. a \in {debit, credit} /\ Len(entries[a]) + 1 = 1
        BY <1>5, <2>1
      <4>. QED
        BY <1>7, <1>8, <2>4, <2>5, <4>1 DEF Grown
    <3>. QED
      BY <1>3, <3>1, RowsDiffer DEF AccountOK
  <2>7. AccountOK(Equity, row'[Equity], entries'[Equity])
    <3>1. PICK all, more, R : /\ all = entries[Equity] /\ more = entries'[Equity]
                              /\ R = row[Equity]
      OBVIOUS
    <3>2. /\ R # NoRow /\ AccountOK(Equity, R, all) /\ accounts[Equity] = R
      BY <1>1, <1>4, <1>8, <3>1 DEF AccountsOK
    <3>3. /\ more \in Seq(LedgerEntry) /\ Len(all) \in Nat /\ Len(more) = Len(all) + 1
          /\ \A n \in 0..Len(all) : Made(Equity, more, n) = Made(Equity, all, n)
          /\ row'[Equity] \in LedgerAccount /\ row'[Equity].asked = R.asked
          /\ row'[Equity].balance = Made(Equity, more, Len(more))
      BY <1>4, <2>1, <2>4, <3>1, <3>2 DEF Grown
    <3>4. R.asked # 0 => 1 \in 0..Len(all) /\ R.asked = Made(Equity, all, 1)
      BY <3>2, <3>3 DEF AccountOK
    <3>5. Len(more) >= 1 /\ row'[Equity] # NoRow
      BY <3>3, RowsDiffer
    <3>. QED
      BY <3>1, <3>3, <3>4, <3>5 DEF AccountOK
  <2>8. ASSUME NEW b \in Account PROVE AccountOK(b, row'[b], entries'[b])
    <3>1. CASE b \notin {a, Equity}
      <4>1. row'[b] = row[b] /\ entries'[b] = entries[b]
        BY <1>8, <2>1, <2>4, <3>1
      <4>. QED
        BY <1>1, <4>1 DEF AccountsOK
    <3>. QED
      BY <2>6, <2>7, <3>1
  <2>9. row'[Equity] # NoRow
    BY <2>1, <2>4, RowsDiffer
  <2>10. AccountsOK'
    BY <2>4, <2>8, <2>9 DEF AccountsOK, Grown
  <2>. QED
    BY <1>1, <2>4, <2>10, ReportsStay DEF VerificationInv
<1>. QED
  BY <1>10, <1>11

\* What a job reads first is what the entries made until then.
LEMMA ReadingKeeps ==
  ASSUME VerificationInv, NEW does \in {"snapshot", "verify"}, ReadAccounts(does)
  PROVE  VerificationInv'
<1>1. UNCHANGED <<row, entries, snapshots, drifts>>
  BY DEF ReadAccounts
<1>2. PICK r : r = [does |-> does, rows |-> [a \in Opened |-> row[a].balance],
                    began |-> [a \in Opened |-> Len(entries[a])]]
  OBVIOUS
<1>3. ASSUME NEW a \in Opened
      PROVE  a \in Account /\ Len(entries[a]) \in 0..Len(entries[a])
             /\ row[a].balance = Made(a, entries[a], Len(entries[a]))
  <2>1. a \in Account /\ row[a] # NoRow
    BY DEF Opened
  <2>2. AccountOK(a, row[a], entries[a])
    BY <2>1 DEF VerificationInv, AccountsOK
  <2>3. Len(entries[a]) \in Nat
    BY <2>2 DEF AccountOK
  <2>. QED
    BY <2>1, <2>2, <2>3 DEF AccountOK
<1>4. ReportOK(r)
  <2>1. /\ r.does = does /\ DOMAIN r.rows = Opened /\ DOMAIN r.began = Opened
        /\ r = [does |-> r.does, rows |-> r.rows, began |-> r.began]
        /\ \A a \in Opened : r.rows[a] = row[a].balance /\ r.began[a] = Len(entries[a])
    BY <1>2
  <2>2. Opened \subseteq Account
    BY DEF Opened
  <2>. QED
    BY <1>3, <2>1, <2>2 DEF ReportOK
<1>5. report' = r
  BY <1>2 DEF ReadAccounts
<1>6. ReportOK(report)'
  BY <1>1, <1>4, <1>5 DEF ReportOK
<1>. QED
  BY <1>1, <1>6 DEF VerificationInv, AccountsOK, SnapshotsOK, DriftsOK

\* A job that has begun, from which some of the accounts are struck out.
LEMMA LessToDo ==
  ASSUME ReportOK(report), report # NoReport, NEW left \in SUBSET DOMAIN report.rows,
         NEW r, r = [report EXCEPT !.rows = [b \in left |-> @[b]],
                                   !.began = [b \in left |-> @[b]]]
  PROVE  ReportOK(r)
<1>1. PICK p : p = report
  OBVIOUS
<1>2. PICK rows, began : rows = p.rows /\ began = p.began
  OBVIOUS
<1>3. /\ p = [does |-> p.does, rows |-> rows, began |-> began]
      /\ p.does \in {"snapshot", "verify"} /\ DOMAIN rows \subseteq Account
      /\ \A a \in DOMAIN rows : /\ began[a] \in 0..Len(entries[a])
                                /\ rows[a] = Made(a, entries[a], began[a])
  BY <1>1, <1>2 DEF ReportOK
<1>4. r = [does |-> p.does, rows |-> [b \in left |-> rows[b]],
           began |-> [b \in left |-> began[b]]]
  BY <1>1, <1>2, <1>3
<1>5. left \subseteq DOMAIN rows
  BY <1>1, <1>2
<1>6. /\ r.does = p.does /\ DOMAIN r.rows = left /\ DOMAIN r.began = left
      /\ r = [does |-> r.does, rows |-> r.rows, began |-> r.began]
      /\ \A b \in left : r.rows[b] = rows[b] /\ r.began[b] = began[b]
  <2>1. PICK F, G : F = [b \in left |-> rows[b]] /\ G = [b \in left |-> began[b]]
    OBVIOUS
  <2>2. DOMAIN F = left /\ DOMAIN G = left /\ \A b \in left : F[b] = rows[b] /\ G[b] = began[b]
    BY <2>1
  <2>3. PICK does : does = p.does
    OBVIOUS
  <2>4. r = [does |-> does, rows |-> F, began |-> G]
    BY <1>4, <2>1, <2>3
  <2>5. r.does = does /\ r.rows = F /\ r.began = G
    BY ONLY <2>4
  <2>. QED
    BY <2>2, <2>3, <2>4, <2>5
<1>. QED
  BY <1>3, <1>5, <1>6 DEF ReportOK

\* A snapshot of an account counts entries that were there at the read or later.
LEMMA SnapshotKeeps ==
  ASSUME VerificationInv, SnapshotAccount
  PROVE  VerificationInv'
<1>1. UNCHANGED <<row, entries, drifts>> /\ report.does = "snapshot"
  BY DEF SnapshotAccount
<1>2. report # NoReport
  BY <1>1 DEF NoReport
<1>3a. PICK a \in DOMAIN report.rows : \E left, s :
        /\ left = DOMAIN report.rows \ {a}
        /\ s = [account |-> a, balance |-> report.rows[a],
                entry_count |-> Len(entries[a]), began |-> report.began[a]]
        /\ snapshots' = snapshots \cup {s}
        /\ report' = IF left = {} THEN NoReport
                     ELSE [report EXCEPT !.rows = [b \in left |-> @[b]],
                                         !.began = [b \in left |-> @[b]]]
  BY DEF SnapshotAccount
<1>3. PICK left, s :
        /\ left = DOMAIN report.rows \ {a}
        /\ s = [account |-> a, balance |-> report.rows[a],
                entry_count |-> Len(entries[a]), began |-> report.began[a]]
        /\ snapshots' = snapshots \cup {s}
        /\ report' = IF left = {} THEN NoReport
                     ELSE [report EXCEPT !.rows = [b \in left |-> @[b]],
                                         !.began = [b \in left |-> @[b]]]
  BY <1>3a
<1>4. /\ a \in Account /\ report.began[a] \in 0..Len(entries[a])
      /\ report.rows[a] = Made(a, entries[a], report.began[a])
  BY <1>2 DEF VerificationInv, ReportOK
<1>5. Len(entries[a]) \in Nat
  BY <1>4 DEF VerificationInv, AccountsOK, AccountOK
<1>6. SnapshotsOK'
  <2>1. /\ s.account = a /\ s.entry_count = Len(entries[a])
        /\ s.began = report.began[a] /\ s.balance = report.rows[a]
    BY <1>3
  <2>2. \A t \in snapshots :
          /\ t.account \in Account
          /\ t.entry_count \in 0..Len(entries[t.account]) /\ t.began \in 0..t.entry_count
          /\ t.balance = Made(t.account, entries[t.account], t.began)
    BY DEF VerificationInv, SnapshotsOK
  <2>3. /\ s.account \in Account
        /\ s.entry_count \in 0..Len(entries[s.account]) /\ s.began \in 0..s.entry_count
        /\ s.balance = Made(s.account, entries[s.account], s.began)
    BY <1>4, <1>5, <2>1
  <2>. QED
    BY <1>1, <1>3, <2>2, <2>3 DEF SnapshotsOK
<1>7. ReportOK(report)'
  <2>1. PICK r : r = report'
    OBVIOUS
  <2>2. ReportOK(r)
    <3>1. CASE left = {}
      BY <1>3, <2>1, <3>1 DEF ReportOK
    <3>2. CASE left # {}
      <4>1. r = [report EXCEPT !.rows = [b \in left |-> @[b]],
                               !.began = [b \in left |-> @[b]]]
        BY <1>3, <2>1, <3>2
      <4>2. left \in SUBSET DOMAIN report.rows
        BY <1>3
      <4>. QED
        BY <1>2, <4>1, <4>2, LessToDo DEF VerificationInv
    <3>. QED
      BY <3>1, <3>2
  <2>. QED
    BY <1>1, <2>1, <2>2 DEF ReportOK
<1>. QED
  BY <1>1, <1>6, <1>7 DEF VerificationInv, AccountsOK, DriftsOK

\* A balance that differs from the entries was read before some of them.
LEMMA VerifyingKeeps ==
  ASSUME VerificationInv, VerifyBalances
  PROVE  VerificationInv'
<1>1. /\ UNCHANGED <<row, entries, snapshots>> /\ report.does = "verify"
      /\ report' = NoReport
  BY DEF VerifyBalances
<1>2. report # NoReport
  BY <1>1 DEF NoReport
<1>3. ASSUME NEW d \in drifts'
      PROVE  /\ d.account \in Account
             /\ d.seen \in 0..Len(entries[d.account]) /\ d.began \in 0..(d.seen - 1)
             /\ d.drift = Made(d.account, entries[d.account], d.began)
                            - Made(d.account, entries[d.account], d.seen)
  <2>1. CASE d \in drifts
    BY <2>1 DEF VerificationInv, DriftsOK
  <2>2. CASE d \notin drifts
    <3>1. PICK a \in DOMAIN report.rows :
            /\ report.rows[a] # Computed(a)
            /\ d = [account |-> a, drift |-> report.rows[a] - Computed(a),
                    began |-> report.began[a], seen |-> Len(entries[a])]
      BY <2>2 DEF VerifyBalances
    <3>2. PICK n, len : n = report.began[a] /\ len = Len(entries[a])
      OBVIOUS
    <3>3. /\ a \in Account /\ n \in 0..len
          /\ report.rows[a] = Made(a, entries[a], n)
      BY <1>2, <3>2 DEF VerificationInv, ReportOK
    <3>4. entries[a] \in Seq(LedgerEntry) /\ len \in Nat
      BY <3>2, <3>3 DEF VerificationInv, AccountsOK, AccountOK
    <3>5. Computed(a) = Made(a, entries[a], len)
      BY <3>2, <3>4, ComputedIsMade, BalanceIsMade
    <3>6. n # len
      BY <3>1, <3>3, <3>5
    <3>7. n \in 0..(len - 1) /\ len \in 0..len
      BY <3>3, <3>4, <3>6
    <3>. QED
      BY <3>1, <3>2, <3>3, <3>5, <3>7
  <2>. QED
    BY <2>1, <2>2
<1>4. DriftsOK'
  BY <1>1, <1>3 DEF DriftsOK
<1>. QED
  BY <1>1, <1>4 DEF VerificationInv, AccountsOK, ReportOK, SnapshotsOK

\* A job that dies leaves what it has written.
LEMMA DyingKeeps ==
  ASSUME VerificationInv, ReportDies \/ UNCHANGED ledger
  PROVE  VerificationInv'
BY DEF VerificationInv, ReportDies, ledger, AccountsOK, ReportOK, SnapshotsOK, DriftsOK

\* Accounts, reports, snapshots and drifts agree with the entries.
THEOREM VerificationSound == Spec => []VerificationInv
<1>1. ASSUME Init PROVE VerificationInv
  <2>1. /\ \A a \in Account : entries[a] = <<>> /\ (a # Equity => row[a] = NoRow)
        /\ row[Equity] = Created(TRUE, 0) /\ DOMAIN row = Account
        /\ DOMAIN entries = Account /\ report = NoReport
        /\ snapshots = {} /\ drifts = {}
    BY <1>1, VerificationAssumption DEF Init, VerificationInit
  <2>2. Created(TRUE, 0) \in LedgerAccount /\ Created(TRUE, 0).balance = 0
        /\ Created(TRUE, 0).asked = 0
    BY VerificationAssumption DEF Created, LedgerAccount
  <2>3. ASSUME NEW a \in Account PROVE AccountOK(a, row[a], entries[a])
    <3>1. entries[a] \in Seq(LedgerEntry) /\ Len(entries[a]) = 0
      <4>1. <<>> \in Seq(LedgerEntry) /\ Len(<<>>) = 0
        OBVIOUS
      <4>. QED
        BY <2>1, <4>1
    <3>2. Made(a, entries[a], 0) = 0
      BY <3>1, MadeIsInt
    <3>. QED
      BY <2>1, <2>2, <3>1, <3>2 DEF AccountOK
  <2>4. row[Equity] # NoRow
    BY <2>1, <2>2, RowsDiffer
  <2>. QED
    BY <2>1, <2>3, <2>4 DEF VerificationInv, AccountsOK, ReportOK, SnapshotsOK, DriftsOK
<1>2. ASSUME VerificationInv, [Next]_vars PROVE VerificationInv'
  <2>1. CASE VerificationNext
    <3>1. "snapshot" \in {"snapshot", "verify"} /\ "verify" \in {"snapshot", "verify"}
      OBVIOUS
    <3>. QED
      BY <1>2, <2>1, <3>1, PostingKeeps, CreationKeeps, ReadingKeeps, SnapshotKeeps,
        VerifyingKeeps, DyingKeeps DEF VerificationNext
  <2>2. CASE UNCHANGED ledger
    BY <1>2, <2>2, DyingKeeps
  <2>. QED
    BY <1>2, <2>1, <2>2, StepsOfDesks
<1>. QED
  BY <1>1, <1>2, PTL DEF Spec

\* In spite of postings between their reads, a snapshot has the balance its account
\* had when the job began, verify_balances reports exactly the entries committed
\* between its reads, and a balance is what its entries make of it, the first of
\* them the opening balance asked for.
THEOREM AllExplained == Spec => []ReportsExplained
<1>1. ASSUME VerificationInv PROVE ReportsExplained
  <2>1. ASSUME NEW s \in snapshots
        PROVE  s.began <= s.entry_count /\ s.balance = BalanceAfter(s.account, s.began)
    <3>1. PICK m, n, a : a = s.account /\ m = s.entry_count /\ n = s.began
      OBVIOUS
    <3>2. /\ a \in Account /\ m \in 0..Len(entries[a]) /\ n \in 0..m
          /\ s.balance = Made(a, entries[a], n)
      BY <1>1, <3>1 DEF VerificationInv, SnapshotsOK
    <3>. QED
      BY <3>1, <3>2, BalanceIsMade
  <2>2. ASSUME NEW d \in drifts
        PROVE  /\ d.began < d.seen
               /\ d.drift = BalanceAfter(d.account, d.began)
                              - BalanceAfter(d.account, d.seen)
    <3>1. PICK m, n, a : a = d.account /\ m = d.seen /\ n = d.began
      OBVIOUS
    <3>2. /\ a \in Account /\ m \in 0..Len(entries[a]) /\ n \in 0..(m - 1)
          /\ d.drift = Made(a, entries[a], n) - Made(a, entries[a], m)
      BY <1>1, <3>1 DEF VerificationInv, DriftsOK
    <3>3. n < m
      <4>1. Len(entries[a]) \in Nat
        BY <1>1, <3>2 DEF VerificationInv, AccountsOK, AccountOK
      <4>. QED
        BY <3>2, <4>1
    <3>. QED
      BY <3>1, <3>2, <3>3, BalanceIsMade
  <2>3. ASSUME NEW a \in Opened
        PROVE  /\ row[a].balance = BalanceAfter(a, Len(entries[a]))
               /\ row[a].asked # 0 => row[a].asked = BalanceAfter(a, 1)
    <3>1. a \in Account /\ row[a] # NoRow
      BY DEF Opened
    <3>2. AccountOK(a, row[a], entries[a])
      BY <1>1, <3>1 DEF VerificationInv, AccountsOK
    <3>. QED
      BY <3>1, <3>2, BalanceIsMade DEF AccountOK
  <2>. QED
    BY <2>1, <2>2, <2>3 DEF ReportsExplained
<1>. QED
  BY VerificationSound, <1>1, PTL
-----------------------------------------------------------------------------
(***************************************************************************)
(* Risk.                                                                   *)
(***************************************************************************)
LEMMA Signals ==
  Signal = {"SAVINGS_CONSISTENCY", "REPAYMENT_HISTORY", "KYC_LEVEL",
            "COOPERATIVE_MEMBERSHIP", "LOAN_HISTORY", "TRANSACTION_ACTIVITY"}
BY DEF Signal, Weight

\* The weights of DEFAULT_RULES add up to a hundred.
LEMMA Weights ==
  /\ IsFiniteSet(Signal)
  /\ \A s \in Signal : Weight[s] \in Nat
  /\ SumFunctionOnSet(Weight, Signal) = 100
<1>1. PICK w : w = Weight
  OBVIOUS
<1>2. /\ w["SAVINGS_CONSISTENCY"] = 25 /\ w["REPAYMENT_HISTORY"] = 25
      /\ w["KYC_LEVEL"] = 15 /\ w["COOPERATIVE_MEMBERSHIP"] = 15
      /\ w["LOAN_HISTORY"] = 10 /\ w["TRANSACTION_ACTIVITY"] = 10
  BY <1>1 DEF Weight
<1>3. \A s \in Signal : w[s] \in Nat
  BY <1>2, Signals
<1>. DEFINE A == {"SAVINGS_CONSISTENCY"}
            B == A \cup {"REPAYMENT_HISTORY"}
            C == B \cup {"KYC_LEVEL"}
            D == C \cup {"COOPERATIVE_MEMBERSHIP"}
            E == D \cup {"LOAN_HISTORY"}
            F == E \cup {"TRANSACTION_ACTIVITY"}
<1>4. IsFiniteSet(A) /\ IsFiniteSet(B) /\ IsFiniteSet(C) /\ IsFiniteSet(D)
      /\ IsFiniteSet(E) /\ IsFiniteSet(F)
  <2>1. IsFiniteSet(A)
    BY FS_Singleton
  <2>2. IsFiniteSet(B)
    BY <2>1, FS_AddElement
  <2>3. IsFiniteSet(C)
    BY <2>2, FS_AddElement
  <2>4. IsFiniteSet(D)
    BY <2>3, FS_AddElement
  <2>5. IsFiniteSet(E)
    BY <2>4, FS_AddElement
  <2>6. IsFiniteSet(F)
    BY <2>5, FS_AddElement
  <2>. QED
    BY <2>1, <2>2, <2>3, <2>4, <2>5, <2>6
<1>5. F = Signal
  BY Signals
<1>6. \A s \in F : w[s] \in Int
  BY <1>3, <1>5
<1>7. SumFunctionOnSet(w, A) = 25
  <2>1. IsFiniteSet({}) /\ {} \cup {"SAVINGS_CONSISTENCY"} = A
        /\ "SAVINGS_CONSISTENCY" \notin {}
    BY FS_EmptySet
  <2>2. \A x \in {} \cup {"SAVINGS_CONSISTENCY"} : w[x] \in Int
    BY <1>6
  <2>3. SumFunctionOnSet(w, {} \cup {"SAVINGS_CONSISTENCY"})
          = w["SAVINGS_CONSISTENCY"] + SumFunctionOnSet(w, {})
    BY <2>1, <2>2, SumAdd
  <2>. QED
    BY <1>2, <2>1, <2>3, SumEmpty
<1>8. SumFunctionOnSet(w, B) = 50
  <2>1. \A x \in A \cup {"REPAYMENT_HISTORY"} : w[x] \in Int
    BY <1>6
  <2>2. SumFunctionOnSet(w, B) = w["REPAYMENT_HISTORY"] + SumFunctionOnSet(w, A)
    BY <1>4, <2>1, SumAdd
  <2>. QED
    BY <1>2, <1>7, <2>2
<1>9. SumFunctionOnSet(w, C) = 65
  <2>1. \A x \in B \cup {"KYC_LEVEL"} : w[x] \in Int
    BY <1>6
  <2>2. SumFunctionOnSet(w, C) = w["KYC_LEVEL"] + SumFunctionOnSet(w, B)
    BY <1>4, <2>1, SumAdd
  <2>. QED
    BY <1>2, <1>8, <2>2
<1>10. SumFunctionOnSet(w, D) = 80
  <2>1. \A x \in C \cup {"COOPERATIVE_MEMBERSHIP"} : w[x] \in Int
    BY <1>6
  <2>2. SumFunctionOnSet(w, D) = w["COOPERATIVE_MEMBERSHIP"] + SumFunctionOnSet(w, C)
    BY <1>4, <2>1, SumAdd
  <2>. QED
    BY <1>2, <1>9, <2>2
<1>11. SumFunctionOnSet(w, E) = 90
  <2>1. \A x \in D \cup {"LOAN_HISTORY"} : w[x] \in Int
    BY <1>6
  <2>2. SumFunctionOnSet(w, E) = w["LOAN_HISTORY"] + SumFunctionOnSet(w, D)
    BY <1>4, <2>1, SumAdd
  <2>. QED
    BY <1>2, <1>10, <2>2
<1>12. SumFunctionOnSet(w, F) = 100
  <2>1. \A x \in E \cup {"TRANSACTION_ACTIVITY"} : w[x] \in Int
    BY <1>6
  <2>2. SumFunctionOnSet(w, F) = w["TRANSACTION_ACTIVITY"] + SumFunctionOnSet(w, E)
    BY <1>4, <2>1, SumAdd
  <2>. QED
    BY <1>2, <1>11, <2>2
<1>. QED
  BY <1>1, <1>3, <1>4, <1>5, <1>12

\* The parts of a history.
LEMMA HistoryFacts ==
  ASSUME NEW h \in History
  PROVE  /\ h.contributions \in Nat /\ h.payments \in Nat /\ h.member \in BOOLEAN
         /\ h.level \in {"NONE", "BASIC", "STANDARD", "ENHANCED"}
         /\ DOMAIN h.loans = {"ACTIVE", "COMPLETED", "DELINQUENT", "DEFAULTED"}
         /\ h.loans["ACTIVE"] \in Nat /\ h.loans["COMPLETED"] \in Nat
         /\ h.loans["DELINQUENT"] \in Nat /\ h.loans["DEFAULTED"] \in Nat
<1>1. ToSet(Verified) = {"NONE", "BASIC", "STANDARD", "ENHANCED"}
  <2>1. DOMAIN Verified = 1..4 /\ Verified[1] = "NONE" /\ Verified[2] = "BASIC"
        /\ Verified[3] = "STANDARD" /\ Verified[4] = "ENHANCED"
    BY DEF Verified
  <2>2. 1..4 = {1, 2, 3, 4}
    OBVIOUS
  <2>. QED
    BY <2>1, <2>2 DEF ToSet
<1>2. h.loans \in [ACTIVE : Nat, COMPLETED : Nat, DELINQUENT : Nat, DEFAULTED : Nat]
  BY DEF History
<1>. QED
  BY <1>1, <1>2 DEF History

\* The rules by their signals, each from 0 to 100.
LEMMA EvaluatedFacts ==
  ASSUME NEW h \in History
  PROVE  /\ Evaluated("SAVINGS_CONSISTENCY", h) = SavingsConsistency(h)
         /\ Evaluated("REPAYMENT_HISTORY", h) = RepaymentHistory(h)
         /\ Evaluated("KYC_LEVEL", h) = KycLevel(h)
         /\ Evaluated("COOPERATIVE_MEMBERSHIP", h) = CooperativeMembership(h)
         /\ Evaluated("LOAN_HISTORY", h) = LoanHistory(h)
         /\ Evaluated("TRANSACTION_ACTIVITY", h) = TransactionActivity(h)
         /\ RepaymentHistory(h) =
              IF /\ h.loans["ACTIVE"] = 0 /\ h.loans["COMPLETED"] = 0
                 /\ h.loans["DELINQUENT"] = 0 /\ h.loans["DEFAULTED"] = 0 THEN 40
              ELSE IF h.loans["DELINQUENT"] + h.loans["DEFAULTED"] > 0 THEN 0
              ELSE IF h.loans["COMPLETED"] > 0 THEN 100 ELSE 50
         /\ \A s \in Signal : Evaluated(s, h) \in 0..100
         /\ SavingsConsistency(h) \in Int /\ RepaymentHistory(h) \in Int
         /\ KycLevel(h) \in Int /\ CooperativeMembership(h) \in Int
         /\ LoanHistory(h) \in Int /\ TransactionActivity(h) \in Int
<1>1. /\ Evaluated("SAVINGS_CONSISTENCY", h) = SavingsConsistency(h)
      /\ Evaluated("REPAYMENT_HISTORY", h) = RepaymentHistory(h)
      /\ Evaluated("KYC_LEVEL", h) = KycLevel(h)
      /\ Evaluated("COOPERATIVE_MEMBERSHIP", h) = CooperativeMembership(h)
      /\ Evaluated("LOAN_HISTORY", h) = LoanHistory(h)
      /\ Evaluated("TRANSACTION_ACTIVITY", h) = TransactionActivity(h)
  BY DEF Evaluated
<1>2. RepaymentHistory(h) =
        IF /\ h.loans["ACTIVE"] = 0 /\ h.loans["COMPLETED"] = 0
           /\ h.loans["DELINQUENT"] = 0 /\ h.loans["DEFAULTED"] = 0 THEN 40
        ELSE IF h.loans["DELINQUENT"] + h.loans["DEFAULTED"] > 0 THEN 0
        ELSE IF h.loans["COMPLETED"] > 0 THEN 100 ELSE 50
  BY HistoryFacts DEF RepaymentHistory
<1>3. /\ SavingsConsistency(h) \in 0..100 /\ CooperativeMembership(h) \in 0..100
      /\ LoanHistory(h) \in 0..100 /\ TransactionActivity(h) \in 0..100
  BY DEF SavingsConsistency, CooperativeMembership, LoanHistory, TransactionActivity
<1>4. KycLevel(h) \in 0..100
  BY HistoryFacts DEF KycLevel
<1>5. RepaymentHistory(h) \in 0..100
  BY <1>2
<1>. QED
  BY <1>1, <1>2, <1>3, <1>4, <1>5, Signals

\* Nothing that the rules see of g speaks better of the customer than of h.
NoBetter(g, h) == \A s \in Signal : Evaluated(s, g) <= Evaluated(s, h)

\* Histories that differ in the rows a commit touches.
LEMMA Compared ==
  ASSUME NEW g \in History, NEW h \in History,
         SavingsConsistency(g) <= SavingsConsistency(h),
         RepaymentHistory(g) <= RepaymentHistory(h),
         KycLevel(g) <= KycLevel(h),
         CooperativeMembership(g) <= CooperativeMembership(h),
         LoanHistory(g) <= LoanHistory(h),
         TransactionActivity(g) <= TransactionActivity(h)
  PROVE  NoBetter(g, h)
BY EvaluatedFacts, Signals DEF NoBetter

\* What may become of a history.
LEMMA HistoryGoesOn ==
  ASSUME NEW g \in History
  PROVE  /\ \A n, m \in Nat : [g EXCEPT !.contributions = n, !.payments = m] \in History
         /\ \A m \in Nat : [g EXCEPT !.payments = m] \in History
         /\ \A level \in ToSet(Verified) : [g EXCEPT !.level = level] \in History
         /\ \A lent \in [ACTIVE : Nat, COMPLETED : Nat, DELINQUENT : Nat, DEFAULTED : Nat] :
              /\ [g EXCEPT !.loans = lent] \in History
              /\ \A m \in Nat : [g EXCEPT !.payments = m, !.loans = lent] \in History
<1>1. PICK Levels, Loans4 :
        /\ Levels = ToSet(Verified)
        /\ Loans4 = [ACTIVE : Nat, COMPLETED : Nat, DELINQUENT : Nat, DEFAULTED : Nat]
  OBVIOUS
<1>2. History = [contributions : Nat, payments : Nat, level : Levels, member : BOOLEAN,
                 loans : Loans4]
  BY <1>1 DEF History
<1>. QED
  BY <1>1, <1>2

\* A contribution costs no rule a point.
LEMMA ContributionHelps ==
  ASSUME NEW g \in History, NEW worth \in {0, 1}, NEW h,
         h = [g EXCEPT !.contributions = @ + 1, !.payments = @ + worth]
  PROVE  h \in History /\ NoBetter(g, h)
<1>1. h \in History
  <2>1. PICK n \in Nat, m \in Nat : n = g.contributions + 1 /\ m = g.payments + worth
    BY HistoryFacts
  <2>2. h = [g EXCEPT !.contributions = n, !.payments = m]
    BY <2>1
  <2>3. [g EXCEPT !.contributions = n, !.payments = m] \in History
    BY HistoryGoesOn
  <2>. QED
    BY <2>2, <2>3
<1>2. /\ h.contributions = g.contributions + 1 /\ h.payments = g.payments + worth
      /\ h.level = g.level /\ h.member = g.member /\ h.loans = g.loans
  BY DEF History
<1>3. /\ g.contributions \in Nat /\ g.payments \in Nat
      /\ MinContributions \in Nat /\ MinTransactions \in Nat
  BY HistoryFacts, RiskAssumption
<1>4. /\ RepaymentHistory(g) = RepaymentHistory(h) /\ KycLevel(g) = KycLevel(h)
      /\ CooperativeMembership(g) = CooperativeMembership(h)
      /\ LoanHistory(g) = LoanHistory(h)
  BY <1>2 DEF RepaymentHistory, KycLevel, CooperativeMembership, LoanHistory
<1>5. SavingsConsistency(g) <= SavingsConsistency(h)
  BY <1>2, <1>3 DEF SavingsConsistency
<1>6. TransactionActivity(g) <= TransactionActivity(h)
  BY <1>2, <1>3 DEF TransactionActivity
<1>7. /\ RepaymentHistory(g) \in Int /\ KycLevel(g) \in Int
      /\ CooperativeMembership(g) \in Int /\ LoanHistory(g) \in Int
  BY EvaluatedFacts
<1>. QED
  BY <1>1, <1>4, <1>5, <1>6, <1>7, Compared

\* A payment, which may complete a loan.
LEMMA PaymentKept ==
  ASSUME NEW g \in History, NEW h,
         \/ h = [g EXCEPT !.payments = @ + 1]
         \/ /\ g.loans["ACTIVE"] > 0
            /\ h = [g EXCEPT !.payments = @ + 1, !.loans["ACTIVE"] = @ - 1,
                             !.loans["COMPLETED"] = @ + 1]
  PROVE  h \in History
<1>. DEFINE Before == g.loans
            Cleared == [Before EXCEPT !["ACTIVE"] = @ - 1, !["COMPLETED"] = @ + 1]
<1>0. PICK lent, cleared : lent = g.loans /\ cleared = Cleared
  OBVIOUS
<1>1. \/ h = [g EXCEPT !.payments = g.payments + 1]
      \/ /\ lent["ACTIVE"] > 0
         /\ h = [g EXCEPT !.payments = g.payments + 1, !.loans = cleared]
  <2>1. CASE h = [g EXCEPT !.payments = @ + 1]
    BY <2>1
  <2>2. CASE /\ g.loans["ACTIVE"] > 0
             /\ h = [g EXCEPT !.payments = @ + 1, !.loans["ACTIVE"] = @ - 1,
                              !.loans["COMPLETED"] = @ + 1]
    BY <1>0, <2>2 DEF History
  <2>. QED
    BY <2>1, <2>2
<1>. HIDE DEF Cleared, Before
<1>2. /\ g.payments \in Nat
      /\ lent["ACTIVE"] \in Nat /\ lent["COMPLETED"] \in Nat
      /\ lent["DELINQUENT"] \in Nat /\ lent["DEFAULTED"] \in Nat
  BY <1>0, HistoryFacts
<1>3. lent \in [ACTIVE : Nat, COMPLETED : Nat, DELINQUENT : Nat, DEFAULTED : Nat]
  BY <1>0 DEF History
<1>4. /\ cleared["ACTIVE"] = lent["ACTIVE"] - 1
      /\ cleared["COMPLETED"] = lent["COMPLETED"] + 1
      /\ cleared["DELINQUENT"] = lent["DELINQUENT"]
      /\ cleared["DEFAULTED"] = lent["DEFAULTED"]
      /\ lent["ACTIVE"] > 0 =>
           cleared \in [ACTIVE : Nat, COMPLETED : Nat, DELINQUENT : Nat, DEFAULTED : Nat]
  BY <1>0, <1>2, <1>3 DEF Before, Cleared
<1>5. /\ h.payments = g.payments + 1 /\ h.contributions = g.contributions
      /\ h.level = g.level /\ h.member = g.member
      /\ h.loans = lent \/ (lent["ACTIVE"] > 0 /\ h.loans = cleared)
  BY <1>0, <1>1 DEF History
<1>6. h \in History
  <2>1. PICK m \in Nat : m = g.payments + 1
    BY <1>2
  <2>2. \/ h = [g EXCEPT !.payments = m]
        \/ lent["ACTIVE"] > 0 /\ h = [g EXCEPT !.payments = m, !.loans = cleared]
    BY <1>1, <2>1
  <2>3. [g EXCEPT !.payments = m] \in History
    BY HistoryGoesOn
  <2>4. lent["ACTIVE"] > 0 => [g EXCEPT !.payments = m, !.loans = cleared] \in History
    BY <1>4, HistoryGoesOn
  <2>. QED
    BY <2>2, <2>3, <2>4
<1>. QED
  BY <1>6

\* The last payment of a loan counts it as completed: with at most one active loan
\* allowed, to be rid of one never costs points.
LEMMA PaymentHelps ==
  ASSUME MaxActive <= 1, NEW g \in History, NEW h,
         \/ h = [g EXCEPT !.payments = @ + 1]
         \/ /\ g.loans["ACTIVE"] > 0
            /\ h = [g EXCEPT !.payments = @ + 1, !.loans["ACTIVE"] = @ - 1,
                             !.loans["COMPLETED"] = @ + 1]
  PROVE  h \in History /\ NoBetter(g, h)
<1>. DEFINE Before == g.loans
            Cleared == [Before EXCEPT !["ACTIVE"] = @ - 1, !["COMPLETED"] = @ + 1]
<1>0. PICK lent, cleared : lent = g.loans /\ cleared = Cleared
  OBVIOUS
<1>1. \/ h = [g EXCEPT !.payments = g.payments + 1]
      \/ /\ lent["ACTIVE"] > 0
         /\ h = [g EXCEPT !.payments = g.payments + 1, !.loans = cleared]
  <2>1. CASE h = [g EXCEPT !.payments = @ + 1]
    BY <2>1
  <2>2. CASE /\ g.loans["ACTIVE"] > 0
             /\ h = [g EXCEPT !.payments = @ + 1, !.loans["ACTIVE"] = @ - 1,
                              !.loans["COMPLETED"] = @ + 1]
    BY <1>0, <2>2 DEF History
  <2>. QED
    BY <2>1, <2>2
<1>. HIDE DEF Cleared, Before
<1>2. /\ g.payments \in Nat /\ MaxActive \in Nat /\ MinTransactions \in Nat
      /\ lent["ACTIVE"] \in Nat /\ lent["COMPLETED"] \in Nat
      /\ lent["DELINQUENT"] \in Nat /\ lent["DEFAULTED"] \in Nat
  BY <1>0, HistoryFacts, RiskAssumption
<1>3. lent \in [ACTIVE : Nat, COMPLETED : Nat, DELINQUENT : Nat, DEFAULTED : Nat]
  BY <1>0 DEF History
<1>4. /\ cleared["ACTIVE"] = lent["ACTIVE"] - 1
      /\ cleared["COMPLETED"] = lent["COMPLETED"] + 1
      /\ cleared["DELINQUENT"] = lent["DELINQUENT"]
      /\ cleared["DEFAULTED"] = lent["DEFAULTED"]
      /\ lent["ACTIVE"] > 0 =>
           cleared \in [ACTIVE : Nat, COMPLETED : Nat, DELINQUENT : Nat, DEFAULTED : Nat]
  BY <1>0, <1>2, <1>3 DEF Before, Cleared
<1>5. /\ h.payments = g.payments + 1 /\ h.contributions = g.contributions
      /\ h.level = g.level /\ h.member = g.member
      /\ h.loans = lent \/ (lent["ACTIVE"] > 0 /\ h.loans = cleared)
  BY <1>0, <1>1 DEF History
<1>6. h \in History
  BY PaymentKept
<1>7. /\ SavingsConsistency(g) = SavingsConsistency(h) /\ KycLevel(g) = KycLevel(h)
      /\ CooperativeMembership(g) = CooperativeMembership(h)
  BY <1>5 DEF SavingsConsistency, KycLevel, CooperativeMembership
<1>8. TransactionActivity(g) <= TransactionActivity(h)
  BY <1>2, <1>5 DEF TransactionActivity
<1>9. RepaymentHistory(g) <= RepaymentHistory(h)
  <2>1. RepaymentHistory(g) =
          IF /\ lent["ACTIVE"] = 0 /\ lent["COMPLETED"] = 0
             /\ lent["DELINQUENT"] = 0 /\ lent["DEFAULTED"] = 0 THEN 40
          ELSE IF lent["DELINQUENT"] + lent["DEFAULTED"] > 0 THEN 0
          ELSE IF lent["COMPLETED"] > 0 THEN 100 ELSE 50
    BY <1>0, EvaluatedFacts
  <2>2. CASE h.loans = lent
    BY <1>6, <2>1, <2>2, EvaluatedFacts
  <2>3. CASE lent["ACTIVE"] > 0 /\ h.loans = cleared
    <3>1. RepaymentHistory(h) =
            IF lent["DELINQUENT"] + lent["DEFAULTED"] > 0 THEN 0 ELSE 100
      BY <1>2, <1>4, <1>6, <2>3, EvaluatedFacts
    <3>. QED
      BY <1>2, <2>1, <2>3, <3>1
  <2>. QED
    BY <1>5, <2>2, <2>3
<1>10. LoanHistory(g) <= LoanHistory(h)
  <2>1. LoanHistory(g) = LET active == lent["ACTIVE"] + lent["DELINQUENT"]
                         IN IF active > MaxActive THEN 0
                            ELSE IF active = 1 THEN 50 ELSE 70
    BY <1>0 DEF LoanHistory
  <2>2. CASE h.loans = lent
    BY <2>1, <2>2 DEF LoanHistory
  <2>3. CASE lent["ACTIVE"] > 0 /\ h.loans = cleared
    BY <1>2, <1>4, <2>1, <2>3 DEF LoanHistory
  <2>. QED
    BY <1>5, <2>2, <2>3
<1>11. /\ SavingsConsistency(g) \in Int /\ KycLevel(g) \in Int
       /\ CooperativeMembership(g) \in Int
  BY EvaluatedFacts
<1>. QED
  BY <1>6, <1>7, <1>8, <1>9, <1>10, <1>11, Compared

\* A level that was not above the new one.
LEMMA LevelHelps ==
  ASSUME NEW g \in History, NEW n \in DOMAIN Verified, NEW h,
         h = [g EXCEPT !.level = Verified[n]],
         ~ \E higher \in (n + 1)..Len(Verified) : Verified[higher] = g.level
  PROVE  NoBetter(g, h)
<1>1. /\ h.contributions = g.contributions /\ h.payments = g.payments
      /\ h.member = g.member /\ h.loans = g.loans /\ h.level = Verified[n]
  BY DEF History
<1>2. h \in History
  <2>1. Verified[n] \in ToSet(Verified)
    BY DEF ToSet
  <2>. QED
    BY <2>1, HistoryGoesOn
<1>3. KycLevel(g) <= KycLevel(h)
  <2>1. PICK V : V = Verified
    OBVIOUS
  <2>2. /\ DOMAIN V = 1..4 /\ Len(V) = 4
        /\ V[1] = "NONE" /\ V[2] = "BASIC" /\ V[3] = "STANDARD" /\ V[4] = "ENHANCED"
    BY <2>1 DEF Verified
  <2>3. n \in {1, 2, 3, 4} /\ \A m \in 1..4 : m > n => V[m] # g.level
    BY <2>1, <2>2
  <2>4. \E m \in 1..4 : m <= n /\ V[m] = g.level
    BY <2>2, <2>3, HistoryFacts
  <2>5. /\ V[n] = "NONE" => KycLevel(h) = 0 /\ g.level = "NONE"
        /\ V[n] = "BASIC" => KycLevel(h) = 40 /\ g.level \in {"NONE", "BASIC"}
        /\ V[n] = "STANDARD" => KycLevel(h) = 75 /\ g.level \in {"NONE", "BASIC", "STANDARD"}
        /\ V[n] = "ENHANCED" => KycLevel(h) = 100
    BY <1>1, <2>1, <2>2, <2>3, <2>4 DEF KycLevel
  <2>6. KycLevel(g) = IF g.level = "NONE" THEN 0 ELSE IF g.level = "BASIC" THEN 40
                      ELSE IF g.level = "STANDARD" THEN 75 ELSE 100
    BY HistoryFacts DEF KycLevel
  <2>. QED
    BY <2>2, <2>3, <2>5, <2>6
<1>4. /\ SavingsConsistency(g) = SavingsConsistency(h)
      /\ RepaymentHistory(g) = RepaymentHistory(h)
      /\ CooperativeMembership(g) = CooperativeMembership(h)
      /\ LoanHistory(g) = LoanHistory(h) /\ TransactionActivity(g) = TransactionActivity(h)
  BY <1>1 DEF SavingsConsistency, RepaymentHistory, CooperativeMembership, LoanHistory,
    TransactionActivity
<1>5. /\ SavingsConsistency(g) \in Int /\ RepaymentHistory(g) \in Int
      /\ CooperativeMembership(g) \in Int /\ LoanHistory(g) \in Int
      /\ TransactionActivity(g) \in Int
  BY EvaluatedFacts
<1>. QED
  BY <1>2, <1>3, <1>4, <1>5, Compared

Points(h) == [s \in Signal |-> Evaluated(s, h) * Weight[s]]

\* The points of the rules evaluated so far.
PointsOf(h, done) == SumFunctionOnSet(Points(h), done)

\* The points of a rule are at most a hundred for each of its weight.
LEMMA PointsAre ==
  ASSUME NEW h \in History
  PROVE  \A s \in Signal : /\ Points(h)[s] = Evaluated(s, h) * Weight[s]
                           /\ Points(h)[s] \in 0..(100 * Weight[s])
<1>1. ASSUME NEW s \in Signal
      PROVE  Evaluated(s, h) * Weight[s] \in 0..(100 * Weight[s])
  <2>1. PICK v \in 0..100, w \in Nat : v = Evaluated(s, h) /\ w = Weight[s]
    BY EvaluatedFacts, Weights
  <2>2. v * w >= 0 /\ v * w <= 100 * w
    BY <2>1
  <2>. QED
    BY <2>1, <2>2
<1>. QED
  BY <1>1 DEF Points

\* The points of one rule more.
LEMMA PointsOfDone ==
  ASSUME NEW h \in History, NEW done \in SUBSET Signal
  PROVE  /\ PointsOf(h, done) \in Int
         /\ \A s \in Signal \ done :
              PointsOf(h, done \cup {s}) = PointsOf(h, done) + Evaluated(s, h) * Weight[s]
<1>1. PICK f : f = Points(h)
  OBVIOUS
<1>2. \A s \in Signal : f[s] = Evaluated(s, h) * Weight[s] /\ f[s] \in Int
  BY <1>1, PointsAre
<1>3. IsFiniteSet(done)
  BY Weights, FS_Subset
<1>4. SumFunctionOnSet(f, done) \in Int
  BY <1>2, <1>3, SumInt
<1>5. ASSUME NEW s \in Signal \ done
      PROVE  SumFunctionOnSet(f, done \cup {s}) = SumFunctionOnSet(f, done) + f[s]
  <2>1. \A x \in done \cup {s} : f[x] \in Int
    BY <1>2
  <2>. QED
    BY <1>2, <1>3, <1>4, <2>1, SumAdd
<1>. QED
  BY <1>1, <1>2, <1>4, <1>5 DEF PointsOf

\* Rules that each give no fewer points give no fewer together.
LEMMA PointsInOrder ==
  ASSUME NEW g \in History, NEW h \in History, NoBetter(g, h), NEW done \in SUBSET Signal
  PROVE  PointsOf(g, done) <= PointsOf(h, done)
<1>1. PICK d, e : d = Points(g) /\ e = Points(h)
  OBVIOUS
<1>2. ASSUME NEW s \in done PROVE d[s] \in Int /\ e[s] \in Int /\ d[s] <= e[s]
  <2>1. PICK v \in 0..100, u \in 0..100, w \in Nat :
          u = Evaluated(s, g) /\ v = Evaluated(s, h) /\ w = Weight[s]
    <3>1. s \in Signal
      OBVIOUS
    <3>2. Evaluated(s, g) \in 0..100
      BY <3>1, EvaluatedFacts
    <3>3. Evaluated(s, h) \in 0..100
      BY <3>1, EvaluatedFacts
    <3>4. Weight[s] \in Nat
      BY <3>1, Weights
    <3>. QED
      BY <3>2, <3>3, <3>4
  <2>2. u <= v
    BY <2>1 DEF NoBetter
  <2>3. u * w <= v * w /\ u * w \in Int /\ v * w \in Int
    BY <2>2
  <2>4. d[s] = u * w /\ e[s] = v * w
    BY <1>1, <2>1, PointsAre
  <2>. QED
    BY <2>3, <2>4
<1>3. IsFiniteSet(done)
  BY Weights, FS_Subset
<1>. QED
  BY <1>1, <1>2, <1>3, SumBelow DEF PointsOf

\* The score of all rules is their points: rounding takes nothing away.
LEMMA ScoresOf ==
  /\ \A w \in Int : Score(w, 100) = w
  /\ \A h \in History : ScoreOf(h) = PointsOf(h, Signal) /\ ScoreOf(h) \in Int
<1>1. \A w \in Int : (200 * w + 100) \div 200 = w
  OBVIOUS
<1>2. \A w \in Int : Score(w, 100) = w
  BY <1>1 DEF Score
<1>3. ASSUME NEW h \in History PROVE ScoreOf(h) = PointsOf(h, Signal) /\ ScoreOf(h) \in Int
  <2>1. ScoreOf(h) = Score(PointsOf(h, Signal), 100)
    BY Weights DEF ScoreOf, PointsOf, Points
  <2>2. PointsOf(h, Signal) \in Int
    BY PointsOfDone
  <2>. QED
    BY <1>2, <2>1, <2>2
<1>. QED
  BY <1>2, <1>3

\* A higher score never gets a lower decision.
LEMMA Decisions ==
  ASSUME NEW low \in Int, NEW high \in Int, low <= high
  PROVE  Rank(Decision(low)) <= Rank(Decision(high)) /\ Rank(Decision(low)) \in 1..3
<1>1. Rank("REJECT") = 1 /\ Rank("REVIEW") = 2 /\ Rank("APPROVE") = 3
  BY DEF Rank
<1>. QED
  BY <1>1 DEF Decision

\* Rules still to come, and those evaluated.
Ahead(rules) == rules \in Seq(Signal) /\ IsInjective(rules)
Behind(rules) == Signal \ ToSet(rules)

\* The rule evaluated next was not evaluated before.
LEMMA RuleByRule ==
  ASSUME NEW rules, Ahead(rules), rules # <<>>
  PROVE  /\ Ahead(Tail(rules)) /\ Head(rules) \in Signal \ Behind(rules)
         /\ Behind(Tail(rules)) = Behind(rules) \cup {Head(rules)}
<1>1. PICK n : n = Len(rules)
  OBVIOUS
<1>2. /\ n \in Nat /\ n >= 1 /\ DOMAIN rules = 1..n /\ Head(rules) = rules[1]
      /\ \A i \in 1..n : rules[i] \in Signal
      /\ \A i, k \in 1..n : rules[i] = rules[k] => i = k
  BY <1>1 DEF Ahead, IsInjective
<1>3. PICK t : t = Tail(rules)
  OBVIOUS
<1>4. t \in Seq(Signal) /\ Len(t) = n - 1 /\ DOMAIN t = 1..(n - 1)
      /\ \A i \in 1..(n - 1) : t[i] = rules[i + 1]
  BY <1>1, <1>2, <1>3 DEF Ahead
<1>5. Ahead(t)
  <2>1. \A i, k \in 1..(n - 1) : t[i] = t[k] => i = k
    <3>1. ASSUME NEW i \in 1..(n - 1), NEW k \in 1..(n - 1), t[i] = t[k] PROVE i = k
      <4>1. i + 1 \in 1..n /\ k + 1 \in 1..n /\ rules[i + 1] = rules[k + 1]
        BY <1>2, <1>4, <3>1
      <4>. QED
        BY <1>2, <4>1
    <3>. QED
      BY <3>1
  <2>. QED
    BY <1>4, <2>1 DEF Ahead, IsInjective
<1>6. ToSet(rules) = ToSet(t) \cup {rules[1]} /\ rules[1] \notin ToSet(t)
  <2>1. ASSUME NEW s PROVE s \in ToSet(rules) <=> s \in ToSet(t) \cup {rules[1]}
    <3>1. ASSUME s \in ToSet(rules) PROVE s \in ToSet(t) \cup {rules[1]}
      <4>1. PICK i \in 1..n : s = rules[i]
        BY <1>2, <3>1 DEF ToSet
      <4>2. i # 1 => i - 1 \in 1..(n - 1) /\ t[i - 1] = rules[(i - 1) + 1]
        BY <1>2, <1>4
      <4>3. (i - 1) + 1 = i
        BY <1>2
      <4>. QED
        BY <1>4, <4>1, <4>2, <4>3 DEF ToSet
    <3>2. ASSUME s \in ToSet(t) PROVE s \in ToSet(rules)
      <4>1. PICK i \in 1..(n - 1) : s = t[i]
        BY <1>4, <3>2 DEF ToSet
      <4>2. i + 1 \in 1..n /\ s = rules[i + 1]
        BY <1>2, <1>4, <4>1
      <4>. QED
        BY <1>2, <4>2 DEF ToSet
    <3>3. rules[1] \in ToSet(rules)
      BY <1>2 DEF ToSet
    <3>. QED
      BY <3>1, <3>2, <3>3
  <2>2. ASSUME rules[1] \in ToSet(t) PROVE FALSE
    <3>1. PICK i \in 1..(n - 1) : rules[1] = t[i]
      BY <1>4, <2>2 DEF ToSet
    <3>2. i + 1 \in 1..n /\ rules[1] = rules[i + 1] /\ i + 1 # 1
      BY <1>2, <1>4, <3>1
    <3>. QED
      BY <1>2, <3>2
  <2>. QED
    BY <2>1, <2>2
<1>7. rules[1] \in Signal
  BY <1>2
<1>8. Behind(t) = Behind(rules) \cup {rules[1]} /\ rules[1] \notin Behind(rules)
  BY <1>6, <1>7 DEF Behind
<1>. QED
  BY <1>2, <1>3, <1>5, <1>7, <1>8

\* The points so far lie between those of the history it began with and of the
\* present one.
Between(done, weighted) ==
  PointsOf(before, done) <= weighted /\ weighted <= PointsOf(history, done)

ReadOK(a) ==
  /\ a = [does |-> "read", rules |-> a.rules, weighted |-> a.weighted, total |-> a.total]
  /\ Ahead(a.rules) /\ a.weighted \in Int
  /\ a.total = SumFunctionOnSet(Weight, Behind(a.rules))
  /\ ~worsened => Between(Behind(a.rules), a.weighted)

RiskInv ==
  /\ history \in History /\ before \in History
  /\ assessment.does \in {"nothing", "read", "assessed"}
  /\ assessment.does = "nothing" => before = history
  /\ assessment.does = "read" => ReadOK(assessment)
  /\ ~worsened => NoBetter(before, history)
  /\ AssessedInBetween

\* No better is transitive.
LEMMA NoBetterChains ==
  ASSUME NEW f \in History, NEW g \in History, NEW h \in History,
         NoBetter(f, g), NoBetter(g, h)
  PROVE  NoBetter(f, h)
<1>1. ASSUME NEW s \in Signal PROVE Evaluated(s, f) <= Evaluated(s, h)
  <2>1. Evaluated(s, f) \in 0..100
    BY EvaluatedFacts
  <2>2. Evaluated(s, g) \in 0..100
    BY EvaluatedFacts
  <2>3. Evaluated(s, h) \in 0..100
    BY EvaluatedFacts
  <2>4. Evaluated(s, f) <= Evaluated(s, g) /\ Evaluated(s, g) <= Evaluated(s, h)
    BY DEF NoBetter
  <2>. QED
    BY <2>1, <2>2, <2>3, <2>4
<1>. QED
  BY <1>1 DEF NoBetter

\* What happens meanwhile leaves the points where they are or, if it speaks for the
\* customer, below those of the new history.
LEMMA HappeningKeeps ==
  ASSUME RiskInv, NEW h \in History, NEW worse \in BOOLEAN, Happens(h, worse),
         ~worse => NoBetter(history, h)
  PROVE  RiskInv'
<1>1. /\ assessment.does = "read" /\ history' = h /\ worsened' = (worsened \/ worse)
      /\ UNCHANGED <<assessment, before>>
  BY DEF Happens
<1>2. history \in History /\ before \in History
  BY DEF RiskInv
<1>3. ASSUME ~worsened' PROVE ~worsened /\ NoBetter(before, h) /\ NoBetter(history, h)
  <2>1. ~worsened /\ ~worse
    BY <1>1, <1>3
  <2>2. NoBetter(before, history) /\ NoBetter(history, h)
    BY <2>1 DEF RiskInv
  <2>. QED
    BY <1>2, <2>1, <2>2, NoBetterChains
<1>4. PICK a, b : a = assessment /\ b = before
  OBVIOUS
<1>5. /\ a = [does |-> "read", rules |-> a.rules, weighted |-> a.weighted, total |-> a.total]
      /\ Ahead(a.rules) /\ a.weighted \in Int
      /\ a.total = SumFunctionOnSet(Weight, Behind(a.rules))
      /\ ~worsened => /\ PointsOf(b, Behind(a.rules)) <= a.weighted
                      /\ a.weighted <= PointsOf(history, Behind(a.rules))
  BY <1>1, <1>4 DEF RiskInv, ReadOK, Between
<1>6. ASSUME ~worsened' PROVE a.weighted <= PointsOf(h, Behind(a.rules))
  <2>1. Behind(a.rules) \in SUBSET Signal
    BY DEF Behind
  <2>2. PointsOf(history, Behind(a.rules)) <= PointsOf(h, Behind(a.rules))
    BY <1>2, <1>3, <1>6, <2>1, PointsInOrder
  <2>3. PointsOf(history, Behind(a.rules)) \in Int /\ PointsOf(h, Behind(a.rules)) \in Int
    BY <1>2, <2>1, PointsOfDone
  <2>. QED
    BY <1>3, <1>5, <1>6, <2>2, <2>3
<1>7. ReadOK(a)'
  BY <1>1, <1>3, <1>4, <1>5, <1>6 DEF ReadOK, Between
<1>8. AssessedInBetween'
  BY <1>1 DEF AssessedInBetween
<1>9. (~worsened => NoBetter(before, history))'
  BY <1>1, <1>3
<1>. QED
  BY <1>1, <1>2, <1>4, <1>7, <1>8, <1>9 DEF RiskInv

\* An assessment begins with the history it remembers.
LEMMA StartKeeps ==
  ASSUME RiskInv, StartAssessment
  PROVE  RiskInv'
<1>1. /\ assessment.does = "nothing" /\ before' = history
      /\ UNCHANGED <<history, worsened>> /\ history \in History
  BY DEF StartAssessment, RiskInv
<1>2. PICK rules \in RuleOrders :
        assessment' = [does |-> "read", rules |-> rules, weighted |-> 0, total |-> 0]
  BY DEF StartAssessment
<1>3. PICK a : a = assessment'
  OBVIOUS
<1>4. /\ a = [does |-> "read", rules |-> a.rules, weighted |-> a.weighted, total |-> a.total]
      /\ a.rules = rules /\ a.weighted = 0 /\ a.total = 0 /\ a.does = "read"
  BY <1>2, <1>3
<1>5. Ahead(rules) /\ Behind(rules) = {}
  BY RiskAssumption DEF Ahead, Behind
<1>6. /\ \A h : PointsOf(h, {}) = 0
      /\ SumFunctionOnSet(Weight, {}) = 0
  BY SumEmpty DEF PointsOf
<1>7. \A h \in History : NoBetter(h, h)
  <2>1. ASSUME NEW h \in History, NEW s \in Signal PROVE Evaluated(s, h) <= Evaluated(s, h)
    <3>1. Evaluated(s, h) \in 0..100
      BY EvaluatedFacts
    <3>. QED
      BY <3>1
  <2>. QED
    BY <2>1 DEF NoBetter
<1>8. ReadOK(a)'
  BY <1>4, <1>5, <1>6 DEF ReadOK, Between
<1>9. AssessedInBetween'
  BY <1>3, <1>4 DEF AssessedInBetween
<1>. QED
  BY <1>1, <1>3, <1>4, <1>7, <1>8, <1>9 DEF RiskInv

\* A rule adds its points of the present history.
LEMMA EvaluationKeeps ==
  ASSUME RiskInv, EvaluateRule
  PROVE  RiskInv'
<1>1. /\ assessment.does = "read" /\ assessment.rules # <<>>
      /\ UNCHANGED <<history, before, worsened>>
  BY DEF EvaluateRule
<1>2. PICK a, b, h : a = assessment /\ b = before /\ h = history
  OBVIOUS
<1>3. b \in History /\ h \in History
  BY <1>2 DEF RiskInv
<1>4. PICK rules, weighted, total :
        rules = a.rules /\ weighted = a.weighted /\ total = a.total
  OBVIOUS
<1>5. /\ a = [does |-> "read", rules |-> rules, weighted |-> weighted, total |-> total]
      /\ Ahead(rules) /\ weighted \in Int
      /\ total = SumFunctionOnSet(Weight, Behind(rules))
      /\ ~worsened => /\ PointsOf(b, Behind(rules)) <= weighted
                      /\ weighted <= PointsOf(h, Behind(rules))
  BY <1>1, <1>2, <1>4 DEF RiskInv, ReadOK, Between
<1>6. PICK s : s = Head(rules)
  OBVIOUS
<1>7. /\ Ahead(Tail(rules)) /\ s \in Signal \ Behind(rules)
      /\ Behind(Tail(rules)) = Behind(rules) \cup {s} /\ Behind(rules) \in SUBSET Signal
  BY <1>1, <1>2, <1>4, <1>5, <1>6, RuleByRule DEF Behind
<1>8. PICK v, w : v = Evaluated(s, h) /\ w = Weight[s]
  OBVIOUS
<1>9. PICK next : next = assessment'
  OBVIOUS
<1>10. next = [does |-> "read", rules |-> Tail(rules), weighted |-> weighted + v * w,
               total |-> total + w]
  BY <1>2, <1>4, <1>5, <1>6, <1>8, <1>9 DEF EvaluateRule
<1>11. v \in 0..100 /\ w \in Nat
  BY <1>3, <1>7, <1>8, EvaluatedFacts, Weights
<1>12. v * w \in Int
  BY <1>11
<1>13. total + w = SumFunctionOnSet(Weight, Behind(Tail(rules)))
  <2>1. PICK W : W = Weight
    OBVIOUS
  <2>2. IsFiniteSet(Behind(rules)) /\ \A x \in Signal : W[x] \in Int
    BY <1>7, <2>1, Weights, FS_Subset
  <2>3. \A x \in Behind(rules) \cup {s} : W[x] \in Int
    BY <1>7, <2>2
  <2>4. SumFunctionOnSet(W, Behind(rules) \cup {s}) = W[s] + SumFunctionOnSet(W, Behind(rules))
    BY <1>7, <2>2, <2>3, SumAdd
  <2>5. SumFunctionOnSet(W, Behind(rules)) \in Int
    BY <1>7, <2>2, SumInt
  <2>6. w = W[s] /\ total = SumFunctionOnSet(W, Behind(rules))
    BY <1>5, <1>8, <2>1
  <2>7. SumFunctionOnSet(W, Behind(Tail(rules))) = w + total
    BY <1>7, <2>4, <2>6
  <2>8. w + total = total + w
    BY <1>11, <2>5, <2>6
  <2>. QED
    BY <2>1, <2>7, <2>8
<1>14. ASSUME ~worsened
       PROVE  /\ PointsOf(b, Behind(Tail(rules))) <= weighted + v * w
              /\ weighted + v * w <= PointsOf(h, Behind(Tail(rules)))
  <2>1. /\ PointsOf(h, Behind(rules)) \in Int
        /\ PointsOf(h, Behind(Tail(rules))) = PointsOf(h, Behind(rules)) + v * w
    BY <1>3, <1>7, <1>8, PointsOfDone
  <2>2. /\ PointsOf(b, Behind(rules)) \in Int
        /\ PointsOf(b, Behind(Tail(rules)))
             = PointsOf(b, Behind(rules)) + Evaluated(s, b) * w
    BY <1>3, <1>7, <1>8, PointsOfDone
  <2>3. Evaluated(s, b) * w <= v * w /\ Evaluated(s, b) * w \in Int
    <3>1. PICK u \in 0..100 : u = Evaluated(s, b)
      BY <1>3, <1>7, EvaluatedFacts
    <3>2. u <= v
      BY <1>2, <1>7, <1>8, <1>14, <3>1 DEF RiskInv, NoBetter
    <3>3. u * w <= v * w /\ u * w \in Int
      BY <1>11, <3>2
    <3>. QED
      BY <3>1, <3>3
  <2>. QED
    BY <1>5, <1>12, <1>14, <2>1, <2>2, <2>3
<1>15. /\ next = [does |-> "read", rules |-> next.rules, weighted |-> next.weighted,
                  total |-> next.total]
       /\ next.rules = Tail(rules) /\ next.weighted = weighted + v * w
       /\ next.total = total + w /\ next.does = "read"
  BY <1>10
<1>16. ReadOK(next)'
  <2>1. weighted + v * w \in Int
    BY <1>5, <1>12
  <2>. QED
    BY <1>1, <1>2, <1>7, <1>13, <1>14, <1>15, <2>1 DEF ReadOK, Between
<1>17. AssessedInBetween'
  BY <1>9, <1>15 DEF AssessedInBetween
<1>. QED
  BY <1>1, <1>9, <1>15, <1>16, <1>17 DEF RiskInv

\* The score that is written is the points of all rules.
LEMMA WritingKeeps ==
  ASSUME RiskInv, WriteAssessment
  PROVE  RiskInv'
<1>1. /\ assessment.does = "read" /\ assessment.rules = <<>>
      /\ UNCHANGED <<history, before, worsened>>
  BY DEF WriteAssessment
<1>2. PICK a, b, h : a = assessment /\ b = before /\ h = history
  OBVIOUS
<1>3. b \in History /\ h \in History
  BY <1>2 DEF RiskInv
<1>4. PICK weighted : weighted = a.weighted
  OBVIOUS
<1>5. Behind(<<>>) = Signal
  <2>1. DOMAIN <<>> = {}
    OBVIOUS
  <2>. QED
    BY <2>1 DEF Behind, ToSet
<1>6. /\ weighted \in Int /\ a.total = 100
      /\ ~worsened => PointsOf(b, Signal) <= weighted /\ weighted <= PointsOf(h, Signal)
  BY <1>1, <1>2, <1>4, <1>5, Weights DEF RiskInv, ReadOK, Between
<1>7. assessment' = [does |-> "assessed", score |-> weighted, decision |-> Decision(weighted)]
  BY <1>2, <1>4, <1>6, ScoresOf DEF WriteAssessment
<1>8. assessment'.does = "assessed" /\ assessment'.score = weighted
      /\ assessment'.decision = Decision(weighted)
  BY <1>7
<1>9. /\ ScoreOf(b) = PointsOf(b, Signal) /\ ScoreOf(b) \in Int
      /\ ScoreOf(h) = PointsOf(h, Signal) /\ ScoreOf(h) \in Int
  BY <1>3, ScoresOf
<1>10. ASSUME ~worsened
       PROVE  /\ ScoreOf(b) <= weighted /\ weighted <= ScoreOf(h)
              /\ Rank(Decision(ScoreOf(b))) <= Rank(Decision(weighted))
              /\ Rank(Decision(weighted)) <= Rank(Decision(ScoreOf(h)))
  BY <1>6, <1>9, <1>10, Decisions
<1>11. AssessedInBetween'
  BY <1>1, <1>2, <1>8, <1>10 DEF AssessedInBetween
<1>. QED
  BY <1>1, <1>8, <1>11 DEF RiskInv

\* What other services commit keeps the invariant.
LEMMA CommitsKeep ==
  ASSUME MaxActive <= 1, RiskInv,
         Contributes \/ Pays \/ PaymentFails \/ KycDecided \/ Borrows
  PROVE  RiskInv'
<1>1. history \in History
  BY DEF RiskInv
<1>2. CASE Contributes
  <2>1a. PICK worth \in {0, 1} : \E h :
          /\ h = [history EXCEPT !.contributions = @ + 1, !.payments = @ + worth]
          /\ Happens(h, FALSE)
    BY <1>2 DEF Contributes
  <2>1. PICK h :
          /\ h = [history EXCEPT !.contributions = @ + 1, !.payments = @ + worth]
          /\ Happens(h, FALSE)
    BY <2>1a
  <2>2. h \in History /\ NoBetter(history, h)
    BY <1>1, <2>1, ContributionHelps
  <2>. QED
    BY <2>1, <2>2, HappeningKeeps
<1>3. CASE Pays
  <2>1. PICK h :
          /\ \/ h = [history EXCEPT !.payments = @ + 1]
             \/ /\ history.loans["ACTIVE"] > 0
                /\ h = [history EXCEPT !.payments = @ + 1, !.loans["ACTIVE"] = @ - 1,
                                       !.loans["COMPLETED"] = @ + 1]
          /\ Happens(h, FALSE)
    BY <1>3 DEF Pays
  <2>2. h \in History /\ NoBetter(history, h)
    BY <1>1, <2>1, PaymentHelps
  <2>. QED
    BY <2>1, <2>2, HappeningKeeps
<1>4. CASE KycDecided
  <2>1a. PICK n \in DOMAIN Verified : \E h, worse :
          /\ h = [history EXCEPT !.level = Verified[n]]
          /\ worse = \E higher \in (n + 1)..Len(Verified) : Verified[higher] = history.level
          /\ Happens(h, worse)
    BY <1>4 DEF KycDecided
  <2>1. PICK h, worse :
          /\ h = [history EXCEPT !.level = Verified[n]]
          /\ worse = \E higher \in (n + 1)..Len(Verified) : Verified[higher] = history.level
          /\ Happens(h, worse)
    BY <2>1a
  <2>2. worse \in BOOLEAN
    BY <2>1
  <2>3. h \in History
    <3>1. Verified[n] \in ToSet(Verified)
      BY DEF ToSet
    <3>2. [history EXCEPT !.level = Verified[n]] \in History
      BY <1>1, <3>1, HistoryGoesOn
    <3>. QED
      BY <2>1, <3>2
  <2>4. ~worse => NoBetter(history, h)
    BY <1>1, <2>1, LevelHelps
  <2>. QED
    BY <2>1, <2>2, <2>3, <2>4, HappeningKeeps
<1>5. CASE Borrows
  <2>1. PICK h : /\ h = [history EXCEPT !.loans["ACTIVE"] = @ + 1] /\ Happens(h, TRUE)
    BY <1>5 DEF Borrows
  <2>2. h \in History
    <3>1. PICK lent, more : lent = history.loans /\ more = [lent EXCEPT !["ACTIVE"] = @ + 1]
      OBVIOUS
    <3>2. lent \in [ACTIVE : Nat, COMPLETED : Nat, DELINQUENT : Nat, DEFAULTED : Nat]
      BY <1>1, <3>1 DEF History
    <3>3. more \in [ACTIVE : Nat, COMPLETED : Nat, DELINQUENT : Nat, DEFAULTED : Nat]
      BY <3>1, <3>2
    <3>4. h = [history EXCEPT !.loans = more]
      BY <1>1, <2>1, <3>1 DEF History
    <3>5. [history EXCEPT !.loans = more] \in History
      BY <1>1, <3>3, HistoryGoesOn
    <3>. QED
      BY <3>4, <3>5
  <2>. QED
    BY <2>1, <2>2, HappeningKeeps
<1>6. CASE PaymentFails
  <2>1. PICK h : /\ h = [history EXCEPT !.payments = @ - 1] /\ Happens(h, TRUE)
    BY <1>6 DEF PaymentFails
  <2>2. h \in History
    <3>1. history.payments \in Nat /\ history.payments > 0
      BY <1>1, <1>6, HistoryFacts DEF PaymentFails
    <3>2. history.payments - 1 \in Nat
      BY <3>1
    <3>. QED
      BY <1>1, <2>1, <3>2, HistoryGoesOn
  <2>. QED
    BY <2>1, <2>2, HappeningKeeps
<1>. QED
  BY <1>2, <1>3, <1>4, <1>5, <1>6

\* The points of an assessment lie between those of the two histories, rule by
\* rule, if a customer may have one active loan or none before losing points.
THEOREM RiskSound == ASSUME MaxActive <= 1 PROVE Spec => []RiskInv
<1>1. ASSUME Init PROVE RiskInv
  <2>1. /\ history \in History /\ before = history
        /\ assessment.does = "nothing"
    BY <1>1, RiskAssumption DEF Init, RiskInit
  <2>2. NoBetter(history, history)
    <3>1. ASSUME NEW s \in Signal PROVE Evaluated(s, history) <= Evaluated(s, history)
      <4>1. Evaluated(s, history) \in 0..100
        BY <2>1, EvaluatedFacts
      <4>. QED
        BY <4>1
    <3>. QED
      BY <3>1 DEF NoBetter
  <2>. QED
    BY <2>1, <2>2 DEF RiskInv, AssessedInBetween
<1>2. ASSUME RiskInv, [Next]_vars PROVE RiskInv'
  <2>1. CASE RiskNext
    BY <1>2, <2>1, StartKeeps, EvaluationKeeps, WritingKeeps, CommitsKeep DEF RiskNext
  <2>2. CASE UNCHANGED risk
    BY <1>2, <2>2 DEF risk, RiskInv, ReadOK, Between, AssessedInBetween
  <2>. QED
    BY <1>2, <2>1, <2>2, StepsOfDesks
<1>. QED
  BY <1>1, <1>2, PTL DEF Spec

\* Unless a loan was disbursed, an identity rejected or a settled payment marked
\* FAILED meanwhile, an assessment scores the customer no lower than the history it
\* began with and no higher than the one it ended with, for max_active = 1 as in DEFAULT_RULES, or 0.
THEOREM AssessedFairly == ASSUME MaxActive <= 1 PROVE Spec => []AssessedInBetween
<1>1. RiskInv => AssessedInBetween
  BY DEF RiskInv
<1>. QED
  BY RiskSound, <1>1, PTL
-----------------------------------------------------------------------------
(***************************************************************************)
(* Limiter.                                                                *)
(***************************************************************************)
\* What n lives of a counter admit at most.
Lives(n) == n * Limit

\* The limit, once for each life of a count.
LEMMA LivesAdd ==
  ASSUME NEW n \in Nat
  PROVE  /\ Limit \in Nat /\ Limit >= 1 /\ Lives(n) \in Nat /\ n <= Lives(n)
         /\ Lives(n + 1) = Lives(n) + Limit /\ Lives(n + 2) = Lives(n) + Limit + Limit
<1>1. PICK m \in Nat : m = Limit /\ m >= 1
  BY LimiterAssumption
<1>2. n * m \in Nat /\ n <= n * m
  BY <1>1
<1>3. (n + 1) * m = n * m + m /\ (n + 2) * m = n * m + m + m
  OBVIOUS
<1>. QED
  BY <1>1, <1>2, <1>3 DEF Lives

During(via, t) == {b \in admitted : b.via = via /\ b.at \in t..(t + RateWindow)}
Admissions(via, t) == Cardinality(During(via, t))

SameTime(via, at) == {b \in admitted : b.via = via /\ b.at = at}

AdmittedOK ==
  /\ IsFiniteSet(admitted)
  /\ clock \in Times
  /\ \A a \in admitted : /\ a.via \in Via /\ a.at \in 0..clock /\ a.nth \in Nat
                         /\ a.nth <= Cardinality(SameTime(a.via, a.at))

\* What was admitted in a stretch can be counted; nothing comes from the future.
LEMMA AdmissionsAre ==
  ASSUME AdmittedOK
  PROVE  /\ \A via, t : IsFiniteSet(During(via, t)) /\ Admissions(via, t) \in Nat
         /\ \A via : \A t \in Nat : t > clock => Admissions(via, t) = 0
<1>1. \A via, t : IsFiniteSet(During(via, t)) /\ Admissions(via, t) \in Nat
  <2>1. ASSUME NEW via, NEW t PROVE IsFiniteSet(During(via, t)) /\ Admissions(via, t) \in Nat
    <3>1. During(via, t) \subseteq admitted
      BY DEF During
    <3>. QED
      BY <3>1, FS_Subset, FS_CardinalityType DEF AdmittedOK, Admissions
  <2>. QED
    BY <2>1
<1>2. ASSUME NEW via, NEW t \in Nat, t > clock PROVE Admissions(via, t) = 0
  <2>1. clock \in Nat /\ RateWindow \in Nat
    BY LimiterAssumption DEF AdmittedOK, Times
  <2>2. ASSUME NEW b \in During(via, t) PROVE FALSE
    BY <1>2, <2>1, <2>2 DEF During, AdmittedOK
  <2>3. During(via, t) = {}
    BY <2>2
  <2>. QED
    BY <2>3, FS_EmptySet DEF Admissions
<1>. QED
  BY <1>1, <1>2

Hits(via, v, t) == IF v = via /\ t <= clock /\ clock <= t + RateWindow THEN 1 ELSE 0

\* An admission counts in the windows that its time is in, and in no other.
LEMMA AdmitCounts ==
  ASSUME AdmittedOK, NEW via \in Via, Admit(via), clock' = clock
  PROVE  /\ AdmittedOK'
         /\ \A v : \A t \in Nat : Admissions(v, t)' = Admissions(v, t) + Hits(via, v, t)
<1>1. PICK same, n, new :
        /\ same = SameTime(via, clock) /\ n = Cardinality(same)
        /\ new = [via |-> via, at |-> clock, nth |-> n + 1]
  OBVIOUS
<1>2. admitted' = admitted \cup {new}
  BY <1>1 DEF Admit, SameTime
<1>3. IsFiniteSet(same) /\ n \in Nat
  <2>1. same \subseteq admitted
    BY <1>1 DEF SameTime
  <2>. QED
    BY <1>1, <2>1, FS_Subset, FS_CardinalityType DEF AdmittedOK
<1>4. new.via = via /\ new.at = clock /\ new.nth = n + 1
  BY <1>1
<1>5. new \notin admitted
  <2>1. ASSUME new \in admitted PROVE FALSE
    <3>1. new.nth <= Cardinality(SameTime(via, clock))
      BY <1>4, <2>1 DEF AdmittedOK
    <3>. QED
      BY <1>1, <1>3, <1>4, <3>1
  <2>. QED
    BY <2>1
<1>6. clock \in Nat /\ RateWindow \in Nat
  BY LimiterAssumption DEF AdmittedOK, Times
<1>7. ASSUME NEW v, NEW t \in Nat
      PROVE  Admissions(v, t)' = Admissions(v, t) + Hits(via, v, t)
  <2>1. IsFiniteSet(During(v, t)) /\ Admissions(v, t) \in Nat /\ new \notin During(v, t)
    BY <1>5, AdmissionsAre DEF During
  <2>2. During(v, t)' = IF Hits(via, v, t) = 1 THEN During(v, t) \cup {new}
                        ELSE During(v, t)
    BY <1>2, <1>4, <1>6 DEF During, Hits
  <2>3. Cardinality(During(v, t) \cup {new}) = Cardinality(During(v, t)) + 1
    BY <2>1, FS_AddElement
  <2>. QED
    BY <2>1, <2>2, <2>3 DEF Admissions, Hits
<1>8. AdmittedOK'
  <2>1. IsFiniteSet(admitted') /\ clock' \in Times
    BY <1>2, FS_AddElement DEF AdmittedOK
  <2>2. ASSUME NEW v, NEW at
        PROVE  SameTime(v, at)' = IF v = via /\ at = clock THEN same \cup {new}
                                  ELSE SameTime(v, at)
    BY <1>1, <1>2, <1>4 DEF SameTime
  <2>3. Cardinality(same \cup {new}) = n + 1
    <3>1. new \notin same
      BY <1>1, <1>5 DEF SameTime
    <3>. QED
      BY <1>1, <1>3, <3>1, FS_AddElement
  <2>4. ASSUME NEW a \in admitted'
        PROVE  /\ a.via \in Via /\ a.at \in 0..clock /\ a.nth \in Nat
               /\ a.nth <= Cardinality(SameTime(a.via, a.at)')
    <3>1. CASE a = new
      BY <1>3, <1>4, <1>6, <2>2, <2>3, <3>1
    <3>2. CASE a # new
      <4>1. a \in admitted
        BY <1>2, <3>2
      <4>2. /\ a.via \in Via /\ a.at \in 0..clock /\ a.nth \in Nat
            /\ a.nth <= Cardinality(SameTime(a.via, a.at))
        BY <4>1 DEF AdmittedOK
      <4>3. CASE a.via = via /\ a.at = clock
        <5>1. a.nth <= n
          BY <1>1, <4>2, <4>3
        <5>2. SameTime(a.via, a.at)' = same \cup {new}
          BY <2>2, <4>3
        <5>3. Cardinality(SameTime(a.via, a.at)') = n + 1
          BY <2>3, <5>2
        <5>. QED
          BY <1>3, <4>2, <5>1, <5>3
      <4>4. CASE ~(a.via = via /\ a.at = clock)
        BY <2>2, <4>2, <4>4
      <4>. QED
        BY <4>3, <4>4
    <3>. QED
      BY <3>1, <3>2
  <2>. QED
    BY <1>6, <2>1, <2>4 DEF AdmittedOK
<1>. QED
  BY <1>7, <1>8

\* Where nothing is admitted no stretch has more.
LEMMA NoneAdmitted ==
  ASSUME AdmittedOK, UNCHANGED admitted, clock' \in Times, clock' >= clock
  PROVE  /\ AdmittedOK'
         /\ \A v, t : Admissions(v, t)' = Admissions(v, t)
<1>1. clock \in Nat /\ clock' \in Nat
  BY LimiterAssumption DEF AdmittedOK, Times
<1>2. AdmittedOK'
  BY <1>1 DEF AdmittedOK, SameTime
<1>. QED
  BY <1>2 DEF Admissions, During
-----------------------------------------------------------------------------
\* Requests that have still to make the key expire.
Pending == {p \in Process : Serving(p, "expire")}

ServingOK ==
  /\ DOMAIN serving = Process
  /\ \A p \in Process : serving[p] = [does |-> serving[p].does]

\* The requests between INCR and EXPIRE are counted one by one.
LEMMA PendingCounts ==
  ASSUME ServingOK, NEW p \in Process, NEW does, Serves(p, does)
  PROVE  /\ ServingOK' /\ IsFiniteSet(Pending) /\ Cardinality(Pending) \in Nat
         /\ Cardinality(Pending)' =
              IF does = "expire"
              THEN Cardinality(Pending) + (IF Serving(p, "expire") THEN 0 ELSE 1)
              ELSE Cardinality(Pending) - (IF Serving(p, "expire") THEN 1 ELSE 0)
<1>1. /\ DOMAIN serving' = Process /\ serving'[p] = [does |-> does]
      /\ \A q \in Process \ {p} : serving'[q] = serving[q]
  BY DEF Serves, ServingOK
<1>2. serving'[p].does = does
  BY <1>1
<1>3. Pending' = IF does = "expire" THEN Pending \cup {p} ELSE Pending \ {p}
  BY <1>1, <1>2 DEF Pending, Serving
<1>4. IsFiniteSet(Pending)
  <2>1. Pending \subseteq Process
    BY DEF Pending
  <2>. QED
    BY <2>1, LimiterAssumption, FS_Subset
<1>5. p \in Pending <=> Serving(p, "expire")
  BY DEF Pending
<1>6. ServingOK'
  <2>1. ASSUME NEW q \in Process PROVE serving'[q] = [does |-> serving'[q].does]
    BY <1>1, <1>2 DEF ServingOK
  <2>. QED
    BY <1>1, <2>1 DEF ServingOK
<1>7. Cardinality(Pending) \in Nat
  BY <1>4, FS_CardinalityType
<1>8. /\ Cardinality(Pending \cup {p}) = IF p \in Pending THEN Cardinality(Pending)
                                         ELSE Cardinality(Pending) + 1
      /\ Cardinality(Pending \ {p}) = IF p \in Pending THEN Cardinality(Pending) - 1
                                      ELSE Cardinality(Pending)
  BY <1>4, FS_AddElement, FS_RemoveElement
<1>. QED
  BY <1>3, <1>4, <1>5, <1>6, <1>7, <1>8

\* Admissions that the key in Redis has still to give.
Credit(count) == IF count = 0 \/ count > Limit THEN 0 ELSE Limit - count

\* A window has seen one key, or a second that was made after it began and will
\* outlast it; and each restart forgets a key.
KeysKeep(n, waiting, count, expires, restarts, time, t) ==
  /\ n <= Lives(restarts + 2)
  /\ t + RateWindow >= time =>
       IF count = 0
       THEN n + waiting <= Lives(restarts + (IF time > t THEN 1 ELSE 0))
       ELSE \/ n + waiting + Credit(count) <= Lives(restarts + 1)
            \/ /\ time > t
               /\ expires = Never \/ expires > t + RateWindow
               /\ n + waiting + Credit(count) <= Lives(restarts + 2)

\* Whoever made a key has not yet made it expire, or another did it in his stead.
PendingKeep(waiting, count, expires, restarts) ==
  /\ waiting <= restarts + (IF count > 0 /\ expires = Never THEN 1 ELSE 0)
  /\ count = 0 => expires = Never

RedisInv ==
  /\ AdmittedOK /\ ServingOK
  /\ counter \in Nat /\ expiry \in Nat \cup {Never}
  /\ DOMAIN lost = Via /\ lost[ByRedis] \in Nat
  /\ PendingKeep(Cardinality(Pending), counter, expiry, lost[ByRedis])
  /\ \A t \in Nat : KeysKeep(Admissions(ByRedis, t), Cardinality(Pending), counter, expiry,
                             lost[ByRedis], clock, t)

\* What INCR and EXPIRE make of a key.
More(count) == IF count > Limit THEN count ELSE count + 1
Until(count, time) == IF count = 0 THEN Never ELSE time + RateWindow

\* The steps of a key, by the numbers: an INCR with its answer or without ...
LEMMA IncrNumbers ==
  ASSUME NEW n \in Nat, NEW waiting \in Nat, NEW count \in Nat, NEW expires \in Nat \cup {Never},
         NEW x \in Nat, NEW time \in Nat, NEW t \in Nat,
         KeysKeep(n, waiting, count, expires, x, time, t),
         PendingKeep(waiting, count, expires, x)
  PROVE  /\ KeysKeep(n, waiting, More(count), expires, x, time, t)
         /\ PendingKeep(waiting, More(count), expires, x)
         /\ count = 0 => /\ KeysKeep(n, waiting + 1, More(count), expires, x, time, t)
                         /\ PendingKeep(waiting + 1, More(count), expires, x)
         /\ count # 0 /\ More(count) <= Limit /\ t <= time /\ time <= t + RateWindow =>
              KeysKeep(n + 1, waiting, More(count), expires, x, time, t)
<1>0. PICK more : more = More(count)
  OBVIOUS
<1>a. more = IF count > Limit THEN count ELSE count + 1
  BY <1>0 DEF More
<1>1. /\ Limit \in Nat /\ Limit >= 1 /\ RateWindow \in Nat /\ Never = -1
      /\ Lives(x) \in Nat /\ Lives(x + 1) = Lives(x) + Limit
      /\ Lives(x + 2) = Lives(x) + Limit + Limit /\ x + 0 = x
  BY LivesAdd, LimiterAssumption DEF Never
<1>2. PICK y \in Nat, y1 \in Nat, y2 \in Nat : y = Lives(x) /\ y1 = Lives(x + 1) /\ y2 = Lives(x + 2)
  BY <1>1
<1>3. y1 = y + Limit /\ y2 = y + Limit + Limit
  BY <1>1, <1>2
<1>4. /\ n <= y2
      /\ t + RateWindow >= time =>
           IF count = 0 THEN n + waiting <= (IF time > t THEN y1 ELSE y)
           ELSE \/ n + waiting + Credit(count) <= y1
                \/ /\ time > t
                   /\ expires = Never \/ expires > t + RateWindow
                   /\ n + waiting + Credit(count) <= y2
  BY <1>1, <1>2 DEF KeysKeep
<1>5. /\ Credit(count) \in Nat /\ Credit(more) \in Nat /\ more \in Nat /\ more # 0
      /\ count = 0 => Credit(count) = 0 /\ Credit(more) = Limit - 1 /\ more = 1
      /\ count # 0 => /\ Credit(more) <= Credit(count)
                      /\ more <= Limit => Credit(more) + 1 = Credit(count)
  BY <1>1, <1>a DEF Credit
<1>6. KeysKeep(n, waiting, more, expires, x, time, t)
  <2>1. t + RateWindow >= time =>
          \/ n + waiting + Credit(more) <= y1
          \/ /\ time > t
             /\ expires = Never \/ expires > t + RateWindow
             /\ n + waiting + Credit(more) <= y2
    BY <1>1, <1>3, <1>4, <1>5 DEF PendingKeep
  <2>. QED
    BY <1>2, <1>4, <1>5, <2>1 DEF KeysKeep
<1>7. ASSUME count = 0 PROVE KeysKeep(n, waiting + 1, more, expires, x, time, t)
  <2>1. t + RateWindow >= time =>
          \/ n + (waiting + 1) + Credit(more) <= y1
          \/ /\ time > t
             /\ expires = Never \/ expires > t + RateWindow
             /\ n + (waiting + 1) + Credit(more) <= y2
    BY <1>1, <1>3, <1>4, <1>5, <1>7 DEF PendingKeep
  <2>. QED
    BY <1>2, <1>4, <1>5, <2>1 DEF KeysKeep
<1>8. ASSUME count # 0, more <= Limit, t <= time, time <= t + RateWindow
      PROVE  KeysKeep(n + 1, waiting, more, expires, x, time, t)
  <2>1. /\ \/ (n + 1) + waiting + Credit(more) <= y1
           \/ /\ time > t
              /\ expires = Never \/ expires > t + RateWindow
              /\ (n + 1) + waiting + Credit(more) <= y2
        /\ n + 1 <= y2
    BY <1>1, <1>3, <1>4, <1>5, <1>8
  <2>. QED
    BY <1>2, <1>5, <2>1 DEF KeysKeep
<1>9. /\ PendingKeep(waiting, more, expires, x)
      /\ count = 0 => PendingKeep(waiting + 1, more, expires, x)
  BY <1>5 DEF PendingKeep
<1>. QED
  BY <1>0, <1>6, <1>7, <1>8, <1>9

\* What a key may still admit is a number.
LEMMA CreditIsNat ==
  ASSUME NEW count \in Nat
  PROVE  Credit(count) \in Nat
BY LimiterAssumption DEF Credit

\* ... an EXPIRE, or a request that gives up; ...
LEMMA ExpireNumbers ==
  ASSUME NEW n \in Nat, NEW waiting \in Nat, NEW count \in Nat, NEW expires \in Nat \cup {Never},
         NEW x \in Nat, NEW time \in Nat, NEW t \in Nat,
         KeysKeep(n, waiting, count, expires, x, time, t),
         PendingKeep(waiting, count, expires, x), waiting >= 1
  PROVE  /\ KeysKeep(n, waiting - 1, count, Until(count, time), x, time, t)
         /\ PendingKeep(waiting - 1, count, Until(count, time), x)
         /\ t <= time /\ time <= t + RateWindow =>
              KeysKeep(n + 1, waiting - 1, count, Until(count, time), x, time, t)
<1>0. PICK until : until = Until(count, time)
  OBVIOUS
<1>a. until = IF count = 0 THEN Never ELSE time + RateWindow
  BY <1>0 DEF Until
<1>1. /\ Limit \in Nat /\ Limit >= 1 /\ RateWindow \in Nat /\ RateWindow >= 1 /\ Never = -1
      /\ Lives(x) \in Nat /\ Lives(x + 1) = Lives(x) + Limit
      /\ Lives(x + 2) = Lives(x) + Limit + Limit /\ x + 0 = x
  BY LivesAdd, LimiterAssumption DEF Never
<1>2. PICK y \in Nat, y1 \in Nat, y2 \in Nat : y = Lives(x) /\ y1 = Lives(x + 1) /\ y2 = Lives(x + 2)
  BY <1>1
<1>3. y1 = y + Limit /\ y2 = y + Limit + Limit
  BY <1>1, <1>2
<1>4. PICK c \in Nat : c = Credit(count)
  BY CreditIsNat
<1>5. /\ n <= y2
      /\ t + RateWindow >= time =>
           IF count = 0 THEN n + waiting <= (IF time > t THEN y1 ELSE y)
           ELSE \/ n + waiting + c <= y1
                \/ /\ time > t
                   /\ expires = Never \/ expires > t + RateWindow
                   /\ n + waiting + c <= y2
  BY <1>1, <1>2, <1>4 DEF KeysKeep
<1>6. until # Never <=> count # 0
  BY <1>1, <1>a
<1>7. KeysKeep(n, waiting - 1, count, until, x, time, t)
  <2>1. t + RateWindow >= time =>
          IF count = 0 THEN n + (waiting - 1) <= (IF time > t THEN y1 ELSE y)
          ELSE \/ n + (waiting - 1) + c <= y1
               \/ /\ time > t
                  /\ until > t + RateWindow
                  /\ n + (waiting - 1) + c <= y2
    BY <1>1, <1>3, <1>5, <1>a
  <2>. QED
    BY <1>1, <1>2, <1>4, <1>5, <1>a, <2>1 DEF KeysKeep
<1>8. ASSUME t <= time, time <= t + RateWindow
      PROVE  KeysKeep(n + 1, waiting - 1, count, until, x, time, t)
  <2>1. /\ IF count = 0 THEN (n + 1) + (waiting - 1) <= (IF time > t THEN y1 ELSE y)
           ELSE \/ (n + 1) + (waiting - 1) + c <= y1
                \/ /\ time > t
                   /\ until > t + RateWindow
                   /\ (n + 1) + (waiting - 1) + c <= y2
        /\ n + 1 <= y2
    BY <1>1, <1>3, <1>5, <1>8, <1>a
  <2>. QED
    BY <1>1, <1>2, <1>4, <1>5, <1>a, <2>1 DEF KeysKeep
<1>9. PendingKeep(waiting - 1, count, until, x)
  BY <1>6 DEF PendingKeep
<1>. QED
  BY <1>0, <1>7, <1>8, <1>9

\* Fewer requests between INCR and EXPIRE keep the bounds.
LEMMA FewerNumbers ==
  ASSUME NEW n \in Nat, NEW waiting \in Nat, NEW count \in Nat, NEW expires \in Nat \cup {Never},
         NEW x \in Nat, NEW time \in Nat, NEW t \in Nat,
         KeysKeep(n, waiting, count, expires, x, time, t),
         PendingKeep(waiting, count, expires, x)
  PROVE  \A fewer \in 0..waiting : /\ KeysKeep(n, fewer, count, expires, x, time, t)
                                    /\ PendingKeep(fewer, count, expires, x)
<1>1. x + 0 \in Nat /\ x + 1 \in Nat /\ x + 2 \in Nat
  OBVIOUS
<1>2. PICK y \in Nat, z \in Nat, u \in Nat, v \in Nat :
        y = Lives(x + 0) /\ z = Lives(x + 1) /\ u = Lives(x + 2) /\ v = Credit(count)
  <2>1. Credit(count) \in Nat
    BY LimiterAssumption DEF Credit
  <2>. QED
    BY <1>1, <2>1, LivesAdd
<1>3. ASSUME NEW fewer \in 0..waiting
      PROVE  /\ KeysKeep(n, fewer, count, expires, x, time, t)
             /\ PendingKeep(fewer, count, expires, x)
  <2>1. fewer \in Nat /\ fewer <= waiting
    OBVIOUS
  <2>2. KeysKeep(n, fewer, count, expires, x, time, t)
    BY <1>2, <2>1 DEF KeysKeep
  <2>3. PendingKeep(fewer, count, expires, x)
    BY <2>1 DEF PendingKeep
  <2>. QED
    BY <2>2, <2>3
<1>. QED
  BY <1>3

\* ... time, with which the key may expire; ...
LEMMA TickNumbers ==
  ASSUME NEW n \in Nat, NEW waiting \in Nat, NEW count \in Nat, NEW expires \in Nat \cup {Never},
         NEW x \in Nat, NEW time \in Nat, NEW t \in Nat, t > time => n = 0,
         KeysKeep(n, waiting, count, expires, x, time, t),
         PendingKeep(waiting, count, expires, x)
  PROVE  IF expires # Never /\ expires <= time + 1
         THEN KeysKeep(n, waiting, 0, Never, x, time + 1, t) /\ PendingKeep(waiting, 0, Never, x)
         ELSE KeysKeep(n, waiting, count, expires, x, time + 1, t)
<1>1. /\ Limit \in Nat /\ Limit >= 1 /\ RateWindow \in Nat /\ Never = -1
      /\ Lives(x) \in Nat /\ Lives(x + 1) = Lives(x) + Limit /\ x <= Lives(x)
      /\ Lives(x + 2) = Lives(x) + Limit + Limit /\ x + 0 = x
  BY LivesAdd, LimiterAssumption DEF Never
<1>2. PICK y \in Nat, y1 \in Nat, y2 \in Nat : y = Lives(x) /\ y1 = Lives(x + 1) /\ y2 = Lives(x + 2)
  BY <1>1
<1>3. y1 = y + Limit /\ y2 = y + Limit + Limit /\ x <= y
  BY <1>1, <1>2
<1>4. PICK c \in Nat : c = Credit(count)
  BY CreditIsNat
<1>5. /\ n <= y2
      /\ t + RateWindow >= time =>
           IF count = 0 THEN n + waiting <= (IF time > t THEN y1 ELSE y)
           ELSE \/ n + waiting + c <= y1
                \/ /\ time > t
                   /\ expires = Never \/ expires > t + RateWindow
                   /\ n + waiting + c <= y2
  BY <1>1, <1>2, <1>4 DEF KeysKeep
<1>6. ASSUME expires # Never, expires <= time + 1
      PROVE  KeysKeep(n, waiting, 0, Never, x, time + 1, t) /\ PendingKeep(waiting, 0, Never, x)
  <2>1. waiting <= x
    BY <1>6 DEF PendingKeep
  <2>2. t + RateWindow >= time + 1 => n + waiting <= (IF time + 1 > t THEN y1 ELSE y)
    <3>1. ASSUME t + RateWindow >= time + 1, time + 1 > t PROVE n + waiting <= y1
      BY <1>1, <1>3, <1>5, <1>6, <3>1
    <3>2. ASSUME ~(time + 1 > t) PROVE n + waiting <= y
      BY <1>3, <2>1, <3>2
    <3>. QED
      BY <3>1, <3>2
  <2>3. KeysKeep(n, waiting, 0, Never, x, time + 1, t)
    BY <1>1, <1>2, <1>5, <2>2 DEF KeysKeep
  <2>4. PendingKeep(waiting, 0, Never, x)
    BY <2>1 DEF PendingKeep
  <2>. QED
    BY <2>3, <2>4
<1>7. ASSUME ~(expires # Never /\ expires <= time + 1)
      PROVE  KeysKeep(n, waiting, count, expires, x, time + 1, t)
  <2>1. t + RateWindow >= time + 1 =>
           IF count = 0 THEN n + waiting <= (IF time + 1 > t THEN y1 ELSE y)
           ELSE \/ n + waiting + c <= y1
                \/ /\ time + 1 > t
                   /\ expires = Never \/ expires > t + RateWindow
                   /\ n + waiting + c <= y2
    BY <1>1, <1>3, <1>5
  <2>. QED
    BY <1>1, <1>2, <1>4, <1>5, <2>1 DEF KeysKeep
<1>. QED
  BY <1>6, <1>7

\* ... and a restart of Redis.
LEMMA RestartNumbers ==
  ASSUME NEW n \in Nat, NEW waiting \in Nat, NEW count \in Nat \ {0},
         NEW expires \in Nat \cup {Never}, NEW x \in Nat, NEW time \in Nat, NEW t \in Nat,
         KeysKeep(n, waiting, count, expires, x, time, t),
         PendingKeep(waiting, count, expires, x)
  PROVE  /\ KeysKeep(n, waiting, 0, Never, x + 1, time, t)
         /\ PendingKeep(waiting, 0, Never, x + 1)
<1>1. /\ Limit \in Nat /\ Limit >= 1 /\ RateWindow \in Nat
      /\ Lives(x) \in Nat /\ Lives(x + 1) = Lives(x) + Limit
      /\ Lives(x + 2) = Lives(x) + Limit + Limit
  BY LivesAdd, LimiterAssumption
<1>2. PICK y \in Nat, y1 \in Nat, y2 \in Nat, y3 \in Nat :
        y = Lives(x) /\ y1 = Lives(x + 1) /\ y2 = Lives(x + 2) /\ y3 = Lives((x + 1) + 2)
  <2>1. x + 1 \in Nat
    OBVIOUS
  <2>2. Lives((x + 1) + 2) \in Nat
    BY <1>1, <2>1, LivesAdd
  <2>. QED
    BY <1>1, <2>2
<1>3. /\ y1 = y + Limit /\ y2 = y + Limit + Limit /\ y3 = y1 + Limit + Limit
      /\ (x + 1) + 0 = x + 1 /\ (x + 1) + 1 = x + 2
  <2>1. x + 1 \in Nat
    OBVIOUS
  <2>2. Lives((x + 1) + 2) = Lives(x + 1) + Limit + Limit
    BY <2>1, LivesAdd
  <2>. QED
    BY <1>1, <1>2, <2>2
<1>4. PICK c \in Nat : c = Credit(count)
  BY CreditIsNat
<1>5. /\ n <= y2
      /\ t + RateWindow >= time =>
           \/ n + waiting + c <= y1
           \/ time > t /\ n + waiting + c <= y2
  BY <1>1, <1>2, <1>4 DEF KeysKeep
<1>6. /\ n <= y3
      /\ t + RateWindow >= time => n + waiting <= (IF time > t THEN y2 ELSE y1)
  BY <1>1, <1>3, <1>5
<1>7. KeysKeep(n, waiting, 0, Never, x + 1, time, t)
  <2>1. KeysKeep(n, waiting, 0, Never, x + 1, time, t)
          <=> /\ n <= y3
              /\ t + RateWindow >= time =>
                   n + waiting <= Lives((x + 1) + (IF time > t THEN 1 ELSE 0))
    BY <1>2 DEF KeysKeep
  <2>2. Lives((x + 1) + (IF time > t THEN 1 ELSE 0)) = IF time > t THEN y2 ELSE y1
    BY <1>2, <1>3
  <2>. QED
    BY <1>6, <2>1, <2>2
<1>8. PendingKeep(waiting, 0, Never, x + 1)
  BY DEF PendingKeep
<1>. QED
  BY <1>7, <1>8
-----------------------------------------------------------------------------
\* The numbers that a step is about.
RedisNumbers(n, waiting, count, expires, x, time, t) ==
  /\ n \in Nat /\ waiting \in Nat /\ count \in Nat /\ expires \in Nat \cup {Never}
  /\ x \in Nat /\ time \in Nat /\ t \in Nat /\ (t > time => n = 0)
  /\ KeysKeep(n, waiting, count, expires, x, time, t)
  /\ PendingKeep(waiting, count, expires, x)

\* The numbers of the present key.
LEMMA NumbersNow ==
  ASSUME RedisInv, NEW t \in Nat
  PROVE  /\ RedisNumbers(Admissions(ByRedis, t), Cardinality(Pending), counter, expiry,
                         lost[ByRedis], clock, t)
         /\ clock \in Nat /\ ByRedis \in Via /\ ByRedis \notin Process
<1>1. clock \in Nat /\ ByRedis \in Via /\ ByRedis \notin Process
  BY LimiterAssumption DEF RedisInv, AdmittedOK, Times, Via, ByRedis
<1>2. Cardinality(Pending) \in Nat
  <2>1. Pending \subseteq Process
    BY DEF Pending
  <2>. QED
    BY <2>1, LimiterAssumption, FS_Subset, FS_CardinalityType
<1>3. Admissions(ByRedis, t) \in Nat /\ (t > clock => Admissions(ByRedis, t) = 0)
  BY AdmissionsAre DEF RedisInv
<1>. QED
  BY <1>1, <1>2, <1>3 DEF RedisInv, RedisNumbers

\* INCR, by the lemma about its numbers.
LEMMA IncrKeepsKeys ==
  ASSUME RedisInv, NEW p \in Process, Incr(p)
  PROVE  RedisInv'
<1>1. /\ Serving(p, "nothing") /\ counter' = Incremented
      /\ UNCHANGED <<clock, expiry, lost>> /\ clock' \in Times /\ clock' >= clock
  BY DEF Incr, RedisInv, AdmittedOK, Times
<1>2. PICK count, more, x, expires, time :
        /\ count = counter /\ more = More(count)
        /\ x = lost[ByRedis] /\ expires = expiry /\ time = clock
  OBVIOUS
<1>3. counter' = more /\ more \in Nat /\ (Incremented = 1 <=> count = 0)
  <2>1. count \in Nat
    BY <1>2 DEF RedisInv
  <2>. QED
    BY <1>1, <1>2, <2>1, LimiterAssumption DEF Incremented, More
<1>4. ~Serving(p, "expire")
  BY <1>1 DEF Serving
<1>5. CASE count = 0
  <2>1. Serves(p, "expire") /\ UNCHANGED admitted
    BY <1>3, <1>5 DEF Incr
  <2>2. AdmittedOK' /\ \A v, t : Admissions(v, t)' = Admissions(v, t)
    BY <1>1, <2>1, NoneAdmitted DEF RedisInv
  <2>3. ServingOK' /\ Cardinality(Pending)' = Cardinality(Pending) + 1
    BY <1>4, <2>1, PendingCounts DEF RedisInv
  <2>4. ASSUME NEW t \in Nat
        PROVE  /\ KeysKeep(Admissions(ByRedis, t)', Cardinality(Pending)', counter', expiry',
                           lost'[ByRedis], clock', t)
               /\ PendingKeep(Cardinality(Pending)', counter', expiry', lost'[ByRedis])
    <3>1. PICK n, waiting : n = Admissions(ByRedis, t) /\ waiting = Cardinality(Pending)
      OBVIOUS
    <3>2. RedisNumbers(n, waiting, count, expires, x, time, t)
      BY <1>2, <3>1, NumbersNow
    <3>3. KeysKeep(n, waiting + 1, more, expires, x, time, t)
          /\ PendingKeep(waiting + 1, more, expires, x)
      BY <1>2, <1>5, <3>2, IncrNumbers DEF RedisNumbers
    <3>. QED
      BY <1>1, <1>2, <1>3, <2>2, <2>3, <3>1, <3>3
  <2>. QED
    BY <1>1, <1>3, <2>2, <2>3, <2>4, 0 \in Nat DEF RedisInv
<1>6. CASE count # 0
  <2>1. /\ Serves(p, "nothing")
        /\ IF more <= Limit THEN Admit(ByRedis) ELSE UNCHANGED admitted
    BY <1>1, <1>3, <1>6 DEF Incr, UnderLimit
  <2>2. ServingOK' /\ Cardinality(Pending)' = Cardinality(Pending)
    BY <1>4, <2>1, PendingCounts DEF RedisInv
  <2>3. /\ AdmittedOK'
        /\ \A t \in Nat : Admissions(ByRedis, t)' = Admissions(ByRedis, t)
             + (IF more <= Limit THEN Hits(ByRedis, ByRedis, t) ELSE 0)
    <3>1. CASE more <= Limit
      BY <1>1, <2>1, <3>1, AdmitCounts, NumbersNow, 0 \in Nat DEF RedisInv
    <3>2. CASE ~(more <= Limit)
      <4>1. AdmittedOK' /\ \A t \in Nat : Admissions(ByRedis, t)' = Admissions(ByRedis, t)
        BY <1>1, <2>1, <3>2, NoneAdmitted DEF RedisInv
      <4>2. \A t \in Nat : Admissions(ByRedis, t) \in Nat
        BY AdmissionsAre DEF RedisInv
      <4>. QED
        BY <3>2, <4>1, <4>2
    <3>. QED
      BY <3>1, <3>2
  <2>4. ASSUME NEW t \in Nat
        PROVE  /\ KeysKeep(Admissions(ByRedis, t)', Cardinality(Pending)', counter', expiry',
                           lost'[ByRedis], clock', t)
               /\ PendingKeep(Cardinality(Pending)', counter', expiry', lost'[ByRedis])
    <3>1. PICK n, waiting, hit : /\ n = Admissions(ByRedis, t) /\ waiting = Cardinality(Pending)
                                 /\ hit = Hits(ByRedis, ByRedis, t)
      OBVIOUS
    <3>2. RedisNumbers(n, waiting, count, expires, x, time, t)
      BY <1>2, <3>1, NumbersNow
    <3>3. /\ KeysKeep(n, waiting, more, expires, x, time, t)
          /\ PendingKeep(waiting, more, expires, x)
          /\ more <= Limit /\ t <= time /\ time <= t + RateWindow =>
               KeysKeep(n + 1, waiting, more, expires, x, time, t)
      BY <1>2, <1>6, <3>2, IncrNumbers DEF RedisNumbers
    <3>4. hit = IF t <= time /\ time <= t + RateWindow THEN 1 ELSE 0
      BY <1>2, <3>1 DEF Hits
    <3>5. Admissions(ByRedis, t)' = n + (IF more <= Limit THEN hit ELSE 0) /\ n \in Nat
      BY <2>3, <3>1, <3>2 DEF RedisNumbers
    <3>6. KeysKeep(n + (IF more <= Limit THEN hit ELSE 0), waiting, more, expires, x, time, t)
      <4>1. n + 0 = n
        BY <3>5
      <4>. QED
        BY <3>3, <3>4, <4>1
    <3>. QED
      BY <1>1, <1>2, <1>3, <2>2, <3>1, <3>3, <3>5, <3>6
  <2>. QED
    BY <1>1, <1>3, <2>2, <2>3, <2>4, 0 \in Nat DEF RedisInv
<1>. QED
  BY <1>5, <1>6

\* EXPIRE, by the lemma about its numbers.
LEMMA ExpireKeepsKeys ==
  ASSUME RedisInv, NEW p \in Process, Expire60(p)
  PROVE  RedisInv'
<1>1. /\ Serving(p, "expire") /\ Serves(p, "nothing") /\ Admit(ByRedis)
      /\ UNCHANGED <<clock, counter, lost>>
      /\ expiry' = Until(counter, clock)
  BY LimiterAssumption DEF Expire60, UnderLimit, Until
<1>2. /\ AdmittedOK'
      /\ \A t \in Nat : Admissions(ByRedis, t)' = Admissions(ByRedis, t)
                                                    + Hits(ByRedis, ByRedis, t)
  BY <1>1, AdmitCounts, NumbersNow, 0 \in Nat DEF RedisInv
<1>3. ServingOK' /\ Cardinality(Pending)' = Cardinality(Pending) - 1
  BY <1>1, PendingCounts DEF RedisInv
<1>4. Cardinality(Pending) >= 1
  <2>1. p \in Pending /\ IsFiniteSet(Pending) /\ Cardinality(Pending) \in Nat
    BY <1>1, PendingCounts DEF Pending, RedisInv
  <2>. QED
    BY <2>1, FS_EmptySet
<1>5. ASSUME NEW t \in Nat
      PROVE  /\ KeysKeep(Admissions(ByRedis, t)', Cardinality(Pending)', counter', expiry',
                         lost'[ByRedis], clock', t)
             /\ PendingKeep(Cardinality(Pending)', counter', expiry', lost'[ByRedis])
  <2>1. PICK n, waiting, hit, count, expires, x, time :
          /\ n = Admissions(ByRedis, t) /\ waiting = Cardinality(Pending)
          /\ hit = Hits(ByRedis, ByRedis, t) /\ count = counter /\ expires = expiry
          /\ x = lost[ByRedis] /\ time = clock
    OBVIOUS
  <2>2. RedisNumbers(n, waiting, count, expires, x, time, t) /\ waiting >= 1
    BY <1>4, <2>1, NumbersNow
  <2>3. /\ KeysKeep(n, waiting - 1, count, Until(count, time), x, time, t)
        /\ PendingKeep(waiting - 1, count, Until(count, time), x)
        /\ t <= time /\ time <= t + RateWindow =>
             KeysKeep(n + 1, waiting - 1, count, Until(count, time), x, time, t)
    BY <2>2, ExpireNumbers DEF RedisNumbers
  <2>4. hit = IF t <= time /\ time <= t + RateWindow THEN 1 ELSE 0
    BY <2>1 DEF Hits
  <2>5. Admissions(ByRedis, t)' = n + hit /\ n \in Nat
    BY <1>2, <2>1, <2>2 DEF RedisNumbers
  <2>6. KeysKeep(n + hit, waiting - 1, count, Until(count, time), x, time, t)
    <3>1. n + 0 = n
      BY <2>5
    <3>. QED
      BY <2>3, <2>4, <3>1
  <2>. QED
    BY <1>1, <1>3, <2>1, <2>3, <2>5, <2>6
<1>6. expiry' \in Nat \cup {Never}
  <2>1. clock \in Nat /\ RateWindow \in Nat
    BY NumbersNow, 0 \in Nat, LimiterAssumption
  <2>. QED
    BY <1>1, <2>1 DEF Until
<1>. QED
  BY <1>1, <1>2, <1>3, <1>5, <1>6, 0 \in Nat DEF RedisInv

\* A request that turns to its process, or dies with it, whatever Redis had done.
LEMMA GivingUpKeepsKeys ==
  ASSUME RedisInv, NEW p \in Process, NEW does \in {"nothing", "memory"}, Serves(p, does),
         UNCHANGED <<clock, counter, expiry>>, AdmittedOK',
         \A t \in Nat : Admissions(ByRedis, t)' = Admissions(ByRedis, t),
         DOMAIN lost' = Via, lost'[ByRedis] = lost[ByRedis]
  PROVE  RedisInv'
<1>1. /\ ServingOK' /\ Cardinality(Pending) \in Nat
      /\ Cardinality(Pending)' = Cardinality(Pending)
           - (IF Serving(p, "expire") THEN 1 ELSE 0)
      /\ Serving(p, "expire") => Cardinality(Pending) >= 1
  <2>1. /\ ServingOK' /\ Cardinality(Pending) \in Nat /\ IsFiniteSet(Pending)
        /\ Cardinality(Pending)' = Cardinality(Pending)
             - (IF Serving(p, "expire") THEN 1 ELSE 0)
    BY PendingCounts DEF RedisInv
  <2>2. Serving(p, "expire") => p \in Pending
    BY DEF Pending
  <2>. QED
    BY <2>1, <2>2, FS_EmptySet
<1>2. ASSUME NEW t \in Nat
      PROVE  /\ KeysKeep(Admissions(ByRedis, t)', Cardinality(Pending)', counter', expiry',
                         lost'[ByRedis], clock', t)
             /\ PendingKeep(Cardinality(Pending)', counter', expiry', lost'[ByRedis])
  <2>1. PICK n, waiting, fewer, count, expires, x, time :
          /\ n = Admissions(ByRedis, t) /\ waiting = Cardinality(Pending)
          /\ fewer = Cardinality(Pending)' /\ count = counter /\ expires = expiry
          /\ x = lost[ByRedis] /\ time = clock
    OBVIOUS
  <2>2. RedisNumbers(n, waiting, count, expires, x, time, t)
    BY <2>1, NumbersNow
  <2>3. fewer \in 0..waiting
    BY <1>1, <2>1
  <2>4. \A few \in 0..waiting : /\ KeysKeep(n, few, count, expires, x, time, t)
                                /\ PendingKeep(few, count, expires, x)
    BY <2>2, FewerNumbers DEF RedisNumbers
  <2>. QED
    BY <2>1, <2>3, <2>4
<1>. QED
  BY <1>1, <1>2, 0 \in Nat DEF RedisInv

\* A command that fails, before Redis carried it out or after.
LEMMA FailureKeepsKeys ==
  ASSUME RedisInv, NEW p \in Process, RedisCallFails(p)
  PROVE  RedisInv'
<1>1. /\ Serves(p, "memory") /\ UNCHANGED <<clock, admitted, lost>>
      /\ clock' \in Times /\ clock' >= clock
  BY DEF RedisCallFails, RedisInv, AdmittedOK, Times
<1>2. AdmittedOK' /\ \A v, t : Admissions(v, t)' = Admissions(v, t)
  BY <1>1, NoneAdmitted DEF RedisInv
<1>3. CASE UNCHANGED <<counter, expiry>>
  BY <1>1, <1>2, <1>3, GivingUpKeepsKeys DEF RedisInv
<1>4. CASE Serving(p, "nothing") /\ counter' = Incremented /\ UNCHANGED expiry
  <2>1. ServingOK' /\ Cardinality(Pending)' = Cardinality(Pending)
    BY <1>1, <1>4, PendingCounts DEF RedisInv, Serving
  <2>2. counter' = More(counter) /\ counter' \in Nat
    BY <1>4 DEF Incremented, More, RedisInv
  <2>3. ASSUME NEW t \in Nat
        PROVE  /\ KeysKeep(Admissions(ByRedis, t)', Cardinality(Pending)', counter', expiry',
                           lost'[ByRedis], clock', t)
               /\ PendingKeep(Cardinality(Pending)', counter', expiry', lost'[ByRedis])
    <3>1. PICK n, waiting, count, expires, x, time :
            /\ n = Admissions(ByRedis, t) /\ waiting = Cardinality(Pending)
            /\ count = counter /\ expires = expiry /\ x = lost[ByRedis] /\ time = clock
      OBVIOUS
    <3>2. RedisNumbers(n, waiting, count, expires, x, time, t)
      BY <3>1, NumbersNow
    <3>3. KeysKeep(n, waiting, More(count), expires, x, time, t)
          /\ PendingKeep(waiting, More(count), expires, x)
      BY <3>2, IncrNumbers DEF RedisNumbers
    <3>. QED
      BY <1>1, <1>2, <1>4, <2>1, <2>2, <3>1, <3>3
  <2>. QED
    BY <1>1, <1>2, <1>4, <2>1, <2>2, <2>3, 0 \in Nat DEF RedisInv
<1>5. CASE /\ Serving(p, "expire") /\ counter # 0
           /\ expiry' = clock + RateWindow /\ UNCHANGED counter
  <2>1. ServingOK' /\ Cardinality(Pending)' = Cardinality(Pending) - 1
    BY <1>1, <1>5, PendingCounts DEF RedisInv
  <2>2. Cardinality(Pending) >= 1
    <3>1. p \in Pending /\ IsFiniteSet(Pending) /\ Cardinality(Pending) \in Nat
      BY <1>1, <1>5, PendingCounts DEF Pending, RedisInv
    <3>. QED
      BY <3>1, FS_EmptySet
  <2>3. expiry' = Until(counter, clock) /\ expiry' \in Nat
    <3>1. clock \in Nat /\ RateWindow \in Nat
      BY NumbersNow, 0 \in Nat, LimiterAssumption
    <3>. QED
      BY <1>5, <3>1 DEF Until
  <2>4. ASSUME NEW t \in Nat
        PROVE  /\ KeysKeep(Admissions(ByRedis, t)', Cardinality(Pending)', counter', expiry',
                           lost'[ByRedis], clock', t)
               /\ PendingKeep(Cardinality(Pending)', counter', expiry', lost'[ByRedis])
    <3>1. PICK n, waiting, count, expires, x, time :
            /\ n = Admissions(ByRedis, t) /\ waiting = Cardinality(Pending)
            /\ count = counter /\ expires = expiry /\ x = lost[ByRedis] /\ time = clock
      OBVIOUS
    <3>2. RedisNumbers(n, waiting, count, expires, x, time, t) /\ waiting >= 1
      BY <2>2, <3>1, NumbersNow
    <3>3. KeysKeep(n, waiting - 1, count, Until(count, time), x, time, t)
          /\ PendingKeep(waiting - 1, count, Until(count, time), x)
      BY <3>2, ExpireNumbers DEF RedisNumbers
    <3>. QED
      BY <1>1, <1>2, <1>5, <2>1, <2>3, <3>1, <3>3
  <2>. QED
    BY <1>1, <1>2, <1>5, <2>1, <2>3, <2>4, 0 \in Nat DEF RedisInv
<1>. QED
  BY <1>3, <1>4, <1>5 DEF RedisCallFails

\* An admission by the memory of a process leaves those by Redis.
LEMMA MemoryKeepsKeys ==
  ASSUME RedisInv, NEW p \in Process, MemoryHit(p)
  PROVE  RedisInv'
<1>1. /\ Serves(p, "nothing") /\ UNCHANGED <<clock, counter, expiry, lost>>
      /\ Admit(p) \/ UNCHANGED admitted
      /\ p # ByRedis /\ p \in Via /\ clock' \in Times /\ clock' >= clock
  BY NumbersNow, 0 \in Nat DEF MemoryHit, RedisInv, AdmittedOK, Times, Via
<1>2. /\ AdmittedOK'
      /\ \A t \in Nat : Admissions(ByRedis, t)' = Admissions(ByRedis, t)
  <2>1. CASE Admit(p)
    <3>1. /\ AdmittedOK'
          /\ \A v : \A t \in Nat : Admissions(v, t)' = Admissions(v, t) + Hits(p, v, t)
      BY <1>1, <2>1, AdmitCounts DEF RedisInv
    <3>2. \A t : Hits(p, ByRedis, t) = 0
      BY <1>1 DEF Hits
    <3>3. \A t \in Nat : Admissions(ByRedis, t) \in Nat
      BY AdmissionsAre DEF RedisInv
    <3>. QED
      BY <3>1, <3>2, <3>3
  <2>2. CASE UNCHANGED admitted
    BY <1>1, <2>2, NoneAdmitted DEF RedisInv
  <2>. QED
    BY <1>1, <2>1, <2>2
<1>. QED
  BY <1>1, <1>2, GivingUpKeepsKeys DEF RedisInv

\* A tick, with which a key may expire.
LEMMA TimeKeepsKeys ==
  ASSUME RedisInv, Tick
  PROVE  RedisInv'
<1>1. /\ clock' = clock + 1 /\ UNCHANGED <<serving, admitted, lost>> /\ clock \in Nat
      /\ clock' \in Times /\ clock' >= clock
  BY NumbersNow, 0 \in Nat, LimiterAssumption DEF Tick, RedisInv, AdmittedOK, Times
<1>2. AdmittedOK' /\ \A v, t : Admissions(v, t)' = Admissions(v, t)
  BY <1>1, NoneAdmitted DEF RedisInv
<1>3. ServingOK' /\ Cardinality(Pending)' = Cardinality(Pending)
  BY <1>1 DEF RedisInv, ServingOK, Pending, Serving
<1>4. IF expiry # Never /\ expiry <= clock + 1 THEN counter' = 0 /\ expiry' = Never
      ELSE UNCHANGED <<counter, expiry>>
  BY <1>1 DEF Tick
<1>5. ASSUME NEW t \in Nat
      PROVE  /\ KeysKeep(Admissions(ByRedis, t)', Cardinality(Pending)', counter', expiry',
                         lost'[ByRedis], clock', t)
             /\ PendingKeep(Cardinality(Pending)', counter', expiry', lost'[ByRedis])
  <2>1. PICK n, waiting, count, expires, x, time :
          /\ n = Admissions(ByRedis, t) /\ waiting = Cardinality(Pending)
          /\ count = counter /\ expires = expiry /\ x = lost[ByRedis] /\ time = clock
    OBVIOUS
  <2>2. RedisNumbers(n, waiting, count, expires, x, time, t)
    BY <2>1, NumbersNow
  <2>3. IF expires # Never /\ expires <= time + 1
        THEN KeysKeep(n, waiting, 0, Never, x, time + 1, t) /\ PendingKeep(waiting, 0, Never, x)
        ELSE KeysKeep(n, waiting, count, expires, x, time + 1, t)
    BY <2>2, TickNumbers DEF RedisNumbers
  <2>. QED
    BY <1>1, <1>2, <1>3, <1>4, <2>1, <2>2, <2>3 DEF RedisNumbers
<1>6. counter' \in Nat /\ expiry' \in Nat \cup {Never}
  BY <1>4 DEF RedisInv
<1>. QED
  BY <1>1, <1>2, <1>3, <1>5, <1>6, 0 \in Nat DEF RedisInv

\* A restart of Redis without the key.
LEMMA RestartKeepsKeys ==
  ASSUME RedisInv, RedisRestarts
  PROVE  RedisInv'
<1>1. /\ counter # 0 /\ counter' = 0 /\ expiry' = Never
      /\ UNCHANGED <<clock, serving, admitted>> /\ clock' \in Times /\ clock' >= clock
  BY DEF RedisRestarts, RedisInv, AdmittedOK, Times
<1>2. /\ DOMAIN lost' = Via /\ lost'[ByRedis] = lost[ByRedis] + 1
      /\ lost'[ByRedis] \in Nat
  BY NumbersNow, 0 \in Nat DEF RedisRestarts, RedisInv
<1>3. AdmittedOK' /\ \A v, t : Admissions(v, t)' = Admissions(v, t)
  BY <1>1, NoneAdmitted DEF RedisInv
<1>4. ServingOK' /\ Cardinality(Pending)' = Cardinality(Pending)
  BY <1>1 DEF RedisInv, ServingOK, Pending, Serving
<1>5. ASSUME NEW t \in Nat
      PROVE  /\ KeysKeep(Admissions(ByRedis, t)', Cardinality(Pending)', counter', expiry',
                         lost'[ByRedis], clock', t)
             /\ PendingKeep(Cardinality(Pending)', counter', expiry', lost'[ByRedis])
  <2>1. PICK n, waiting, count, expires, x, time :
          /\ n = Admissions(ByRedis, t) /\ waiting = Cardinality(Pending)
          /\ count = counter /\ expires = expiry /\ x = lost[ByRedis] /\ time = clock
    OBVIOUS
  <2>2. RedisNumbers(n, waiting, count, expires, x, time, t) /\ count # 0
    BY <1>1, <2>1, NumbersNow
  <2>3. count \in Nat \ {0}
    BY <2>2 DEF RedisNumbers
  <2>4. /\ KeysKeep(n, waiting, 0, Never, x + 1, time, t)
        /\ PendingKeep(waiting, 0, Never, x + 1)
    BY <2>2, <2>3, RestartNumbers DEF RedisNumbers
  <2>. QED
    BY <1>1, <1>2, <1>3, <1>4, <2>1, <2>4
<1>. QED
  BY <1>1, <1>2, <1>3, <1>4, <1>5, 0 \in Nat DEF RedisInv
-----------------------------------------------------------------------------
\* The windows of the processes.
From(t) == {at \in Times : at >= t}
HitsSince(p, t) == SumFunctionOnSet(hits[p], From(t))

MemoryOK(p) ==
  /\ \A at \in Times : hits[p][at] \in Nat
  /\ DOMAIN hits[p] = Times
  /\ lost[p] \in Nat
  /\ SumFunctionOnSet(hits[p], Times) <= Limit
  /\ \A t \in Nat : /\ Admissions(p, t) <= Lives(lost[p] + 1)
                    /\ t + RateWindow >= clock =>
                         Admissions(p, t) <= Lives(lost[p]) + HitsSince(p, t)

LimiterInv ==
  /\ RedisInv
  /\ DOMAIN hits = Process
  /\ \A p \in Process : MemoryOK(p)

\* Times are finitely many numbers.
LEMMA TimesAre ==
  /\ Times \subseteq Nat /\ IsFiniteSet(Times)
  /\ \A t : From(t) \subseteq Times /\ IsFiniteSet(From(t))
<1>1. Times \subseteq Nat /\ IsFiniteSet(Times)
  <2>1. MaxClock \in Int /\ 0 \in Int
    BY LimiterAssumption
  <2>. QED
    BY <2>1, FS_Interval DEF Times
<1>2. \A t : From(t) \subseteq Times
  BY DEF From
<1>. QED
  BY <1>1, <1>2, FS_Subset

\* One more of one of them.
LEMMA SumOneMore ==
  ASSUME NEW f, NEW g, NEW S, IsFiniteSet(S), NEW y \in S, \A x \in S : f[x] \in Int,
         \A x \in S : g[x] = IF x = y THEN f[x] + 1 ELSE f[x]
  PROVE  SumFunctionOnSet(g, S) = SumFunctionOnSet(f, S) + 1
<1>1. \A x \in S : g[x] \in Int
  OBVIOUS
<1>2. IsFiniteSet(S \ {y}) /\ \A x \in S \ {y} : g[x] = f[x]
  BY FS_Subset
<1>3. SumFunctionOnSet(g, S \ {y}) = SumFunctionOnSet(f, S \ {y})
  BY <1>2, SumAgree
<1>4. SumFunctionOnSet(f, S \ {y}) \in Int
  BY <1>2, SumInt
<1>5. SumFunctionOnSet(f, S) = f[y] + SumFunctionOnSet(f, S \ {y})
  BY SumRemove
<1>6. SumFunctionOnSet(g, S) = g[y] + SumFunctionOnSet(g, S \ {y})
  BY <1>1, SumRemove
<1>7. g[y] = f[y] + 1 /\ f[y] \in Int
  OBVIOUS
<1>. QED
  BY <1>3, <1>4, <1>5, <1>6, <1>7

\* What the deque keeps of a window that is still open, and what it drops.
LEMMA RecentKeeps ==
  ASSUME NEW p \in Process, MemoryOK(p), clock \in Times, NEW f, f = Recent(p)
  PROVE  /\ DOMAIN f = Times /\ \A at \in Times : f[at] \in Nat
         /\ SumFunctionOnSet(f, Times) <= Limit
         /\ SumFunctionOnSet(f, Times) \in Nat
         /\ \A t \in Nat : t + RateWindow >= clock =>
              SumFunctionOnSet(f, From(t)) = HitsSince(p, t)
<1>1. PICK g, W : g = hits[p] /\ W = RateWindow
  OBVIOUS
<1>2. /\ DOMAIN f = Times
      /\ \A at \in Times : f[at] = IF clock - at <= W THEN g[at] ELSE 0
  BY <1>1 DEF Recent
<1>3. \A at \in Times : g[at] \in Nat
  BY <1>1 DEF MemoryOK
<1>4. \A at \in Times : f[at] \in Nat /\ f[at] \in Int /\ g[at] \in Int /\ f[at] <= g[at]
  BY <1>2, <1>3
<1>5. SumFunctionOnSet(f, Times) <= SumFunctionOnSet(g, Times)
  BY <1>4, TimesAre, SumBelow
<1>6. SumFunctionOnSet(f, Times) \in Nat /\ SumFunctionOnSet(g, Times) \in Nat
  BY <1>3, <1>4, TimesAre, SumNat
<1>7. SumFunctionOnSet(g, Times) <= Limit /\ Limit \in Nat
  BY <1>1, LimiterAssumption DEF MemoryOK
<1>8. ASSUME NEW t \in Nat, t + RateWindow >= clock
      PROVE  SumFunctionOnSet(f, From(t)) = HitsSince(p, t)
  <2>1. ASSUME NEW at \in From(t) PROVE f[at] = g[at]
    <3>1. at \in Times /\ at >= t /\ at \in Nat /\ clock \in Nat /\ W \in Nat
      BY <1>1, TimesAre, LimiterAssumption DEF From
    <3>2. clock - at <= W
      BY <1>1, <1>8, <3>1
    <3>. QED
      BY <1>2, <3>1, <3>2
  <2>2. SumFunctionOnSet(f, From(t)) = SumFunctionOnSet(g, From(t))
    BY <2>1, TimesAre, SumAgree
  <2>. QED
    BY <1>1, <2>2 DEF HitsSince
<1>. QED
  BY <1>2, <1>4, <1>5, <1>6, <1>7, <1>8

\* MemoryWindow.hit admits while fewer than the limit are in its window.
LEMMA HitKeepsWindow ==
  ASSUME LimiterInv, NEW p \in Process, MemoryHit(p)
  PROVE  MemoryOK(p)'
<1>1. /\ UNCHANGED <<clock, lost>> /\ clock \in Times /\ clock \in Nat /\ p \in Via
      /\ AdmittedOK /\ MemoryOK(p) /\ DOMAIN hits = Process
      /\ Limit \in Nat /\ RateWindow \in Nat
  BY NumbersNow, 0 \in Nat, LimiterAssumption
    DEF MemoryHit, LimiterInv, RedisInv, AdmittedOK, Via
<1>2. PICK f, x, y : f = Recent(p) /\ x = lost[p] /\ y = Lives(x)
  OBVIOUS
<1>3. /\ DOMAIN f = Times /\ \A at \in Times : f[at] \in Nat
      /\ SumFunctionOnSet(f, Times) <= Limit /\ SumFunctionOnSet(f, Times) \in Nat
      /\ \A t \in Nat : t + RateWindow >= clock =>
           SumFunctionOnSet(f, From(t)) = HitsSince(p, t)
  BY <1>1, <1>2, RecentKeeps
<1>4. /\ x \in Nat /\ y \in Nat /\ Lives(x + 1) = y + Limit
      /\ \A t \in Nat : /\ Admissions(p, t) <= y + Limit
                        /\ t + RateWindow >= clock => Admissions(p, t) <= y + HitsSince(p, t)
  <2>1. x \in Nat
    BY <1>1, <1>2 DEF MemoryOK
  <2>2. y \in Nat /\ Lives(x + 1) = y + Limit
    BY <1>2, <2>1, LivesAdd
  <2>. QED
    BY <1>1, <1>2, <2>1, <2>2 DEF MemoryOK
<1>5. \A t \in Nat : Admissions(p, t) \in Nat
  BY <1>1, AdmissionsAre
<1>6. CASE SumFunctionOnSet(f, Times) >= Limit
  <2>1. hits' = [hits EXCEPT ![p] = f] /\ UNCHANGED admitted
    BY <1>2, <1>6 DEF MemoryHit
  <2>2. hits'[p] = f
    BY <1>1, <2>1
  <2>3. \A t : Admissions(p, t)' = Admissions(p, t)
    BY <2>1 DEF Admissions, During
  <2>4. ASSUME NEW t \in Nat
        PROVE  /\ Admissions(p, t)' <= Lives(lost'[p] + 1)
               /\ t + RateWindow >= clock' =>
                    Admissions(p, t)' <= Lives(lost'[p]) + HitsSince(p, t)'
    BY <1>1, <1>2, <1>3, <1>4, <2>2, <2>3 DEF HitsSince
  <2>. QED
    BY <1>1, <1>2, <1>3, <1>4, <2>2, <2>4 DEF MemoryOK
<1>7. CASE ~(SumFunctionOnSet(f, Times) >= Limit)
  <2>1. PICK g : g = [f EXCEPT ![clock] = @ + 1]
    OBVIOUS
  <2>2. hits' = [hits EXCEPT ![p] = g] /\ Admit(p)
    BY <1>2, <1>7, <2>1 DEF MemoryHit
  <2>3. hits'[p] = g
    BY <1>1, <2>2
  <2>4. \A t \in Nat : Admissions(p, t)' = Admissions(p, t) + Hits(p, p, t)
    BY <1>1, <2>2, AdmitCounts
  <2>5. /\ DOMAIN g = Times
        /\ \A at \in Times : g[at] = IF at = clock THEN f[at] + 1 ELSE f[at]
        /\ \A at \in Times : g[at] \in Nat /\ f[at] \in Int
    BY <1>1, <1>3, <2>1
  <2>6. /\ SumFunctionOnSet(g, Times) = SumFunctionOnSet(f, Times) + 1
        /\ SumFunctionOnSet(g, Times) <= Limit
    <3>1. SumFunctionOnSet(g, Times) = SumFunctionOnSet(f, Times) + 1
      BY <1>1, <2>5, TimesAre, SumOneMore
    <3>. QED
      BY <1>1, <1>3, <1>7, <3>1
  <2>7. ASSUME NEW t \in Nat
        PROVE  SumFunctionOnSet(g, From(t))
                 = SumFunctionOnSet(f, From(t)) + (IF t <= clock THEN 1 ELSE 0)
               /\ SumFunctionOnSet(f, From(t)) \in Nat
               /\ SumFunctionOnSet(g, From(t)) <= SumFunctionOnSet(g, Times)
    <3>1. From(t) \in SUBSET Times /\ IsFiniteSet(From(t)) /\ IsFiniteSet(Times)
      BY TimesAre
    <3>2. SumFunctionOnSet(f, From(t)) \in Nat
      BY <1>3, <3>1, SumNat
    <3>3. \A at \in From(t) : f[at] \in Int
          /\ g[at] = IF at = clock THEN f[at] + 1 ELSE f[at]
      BY <2>5, <3>1
    <3>4. SumFunctionOnSet(g, From(t)) <= SumFunctionOnSet(g, Times)
      BY <2>5, <3>1, SumSubset
    <3>5. CASE t <= clock
      <4>1. clock \in From(t)
        BY <1>1, <3>5 DEF From
      <4>2. SumFunctionOnSet(g, From(t)) = SumFunctionOnSet(f, From(t)) + 1
        BY <3>1, <3>3, <4>1, SumOneMore
      <4>. QED
        BY <3>2, <3>4, <3>5, <4>2
    <3>6. CASE ~(t <= clock)
      <4>1. \A at \in From(t) : g[at] = f[at]
        BY <1>1, <3>3, <3>6 DEF From
      <4>2. SumFunctionOnSet(g, From(t)) = SumFunctionOnSet(f, From(t))
        BY <3>1, <4>1, SumAgree
      <4>. QED
        BY <3>2, <3>4, <3>6, <4>2
    <3>. QED
      BY <3>5, <3>6
  <2>8. ASSUME NEW t \in Nat
        PROVE  /\ Admissions(p, t)' <= Lives(lost'[p] + 1)
               /\ t + RateWindow >= clock' =>
                    Admissions(p, t)' <= Lives(lost'[p]) + HitsSince(p, t)'
    <3>1. PICK n, F, G, T, h : /\ n = Admissions(p, t) /\ F = SumFunctionOnSet(f, From(t))
                               /\ G = SumFunctionOnSet(g, From(t))
                               /\ T = SumFunctionOnSet(g, Times) /\ h = Hits(p, p, t)
      OBVIOUS
    <3>2. /\ n \in Nat /\ F \in Nat /\ G = F + (IF t <= clock THEN 1 ELSE 0) /\ G <= T
          /\ T <= Limit /\ n <= y + Limit
          /\ t + RateWindow >= clock => n <= y + F
      BY <1>3, <1>4, <1>5, <2>6, <2>7, <3>1
    <3>3. h = IF t <= clock /\ clock <= t + RateWindow THEN 1 ELSE 0
      BY <3>1 DEF Hits
    <3>4. T \in Int /\ G \in Int
      BY <1>3, <2>6, <3>1, <3>2
    <3>5. /\ n + h <= y + Limit
          /\ t + RateWindow >= clock => n + h <= y + G
      BY <1>1, <1>4, <3>2, <3>3, <3>4
    <3>6. Admissions(p, t)' = n + h /\ HitsSince(p, t)' = G
      BY <2>3, <2>4, <3>1 DEF HitsSince
    <3>. QED
      BY <1>1, <1>2, <1>4, <3>5, <3>6
  <2>. QED
    BY <1>1, <1>2, <1>4, <2>3, <2>5, <2>6, <2>8 DEF MemoryOK
<1>. QED
  BY <1>6, <1>7

\* A window stays as good while nobody hits it.
LEMMA OtherKeepsWindow ==
  ASSUME LimiterInv, NEW q \in Process, hits'[q] = hits[q], lost'[q] = lost[q],
         clock' \in Times, clock' >= clock,
         \A t \in Nat : Admissions(q, t)' = Admissions(q, t)
  PROVE  MemoryOK(q)'
<1>1. MemoryOK(q) /\ clock \in Nat /\ clock' \in Nat /\ RateWindow \in Nat
  BY TimesAre, LimiterAssumption DEF LimiterInv, RedisInv, AdmittedOK
<1>2. \A t \in Nat : HitsSince(q, t)' = HitsSince(q, t)
  BY DEF HitsSince
<1>3. \A t \in Nat : t + RateWindow >= clock' => t + RateWindow >= clock
  BY <1>1
<1>. QED
  BY <1>1, <1>2, <1>3 DEF MemoryOK

\* An admission counts for one window.
LEMMA AdmittedByOne ==
  ASSUME AdmittedOK, NEW via \in Via, Admit(via) \/ UNCHANGED admitted, clock' = clock
  PROVE  \A v : v # via => \A t \in Nat : Admissions(v, t)' = Admissions(v, t)
<1>1. CASE Admit(via)
  <2>1. \A v : \A t \in Nat : Admissions(v, t)' = Admissions(v, t) + Hits(via, v, t)
    BY <1>1, AdmitCounts
  <2>2. \A v : v # via => \A t \in Nat : Hits(via, v, t) = 0 /\ Admissions(v, t) \in Nat
    BY AdmissionsAre DEF Hits
  <2>. QED
    BY <2>1, <2>2
<1>2. CASE UNCHANGED admitted
  BY <1>2 DEF Admissions, During
<1>. QED
  BY <1>1, <1>2

\* A new process has an empty window, and one more of them was forgotten.
LEMMA RestartKeepsWindow ==
  ASSUME LimiterInv, NEW p \in Process, ProcessRestarts(p)
  PROVE  MemoryOK(p)'
<1>1. MemoryOK(p) /\ DOMAIN hits = Process /\ DOMAIN lost = Via /\ p \in Via /\ AdmittedOK
  BY DEF LimiterInv, RedisInv, Via
<1>2. PICK f, x : f = [at \in Times |-> 0] /\ x = lost[p]
  OBVIOUS
<1>3. /\ hits'[p] = f /\ lost'[p] = x + 1 /\ UNCHANGED <<clock, admitted>>
  BY <1>1, <1>2 DEF ProcessRestarts
<1>4. /\ DOMAIN f = Times /\ \A at \in Times : f[at] = 0 /\ f[at] \in Nat
  BY <1>2
<1>5. /\ SumFunctionOnSet(f, Times) = 0
      /\ \A t : SumFunctionOnSet(f, From(t)) = 0
  <2>1. \A t : \A at \in From(t) : f[at] = 0
    BY <1>4, TimesAre
  <2>. QED
    BY <1>4, <2>1, TimesAre, SumZero
<1>6. x \in Nat /\ x + 1 \in Nat /\ Limit \in Nat
      /\ \A t \in Nat : Admissions(p, t) <= Lives(x + 1) /\ Admissions(p, t) \in Nat
  BY <1>1, <1>2, LimiterAssumption, AdmissionsAre DEF MemoryOK
<1>7. Lives(x + 1) \in Nat /\ Lives((x + 1) + 1) = Lives(x + 1) + Limit
  BY <1>6, LivesAdd
<1>8. ASSUME NEW t \in Nat
      PROVE  /\ Admissions(p, t)' <= Lives(lost'[p] + 1)
             /\ Admissions(p, t)' <= Lives(lost'[p]) + HitsSince(p, t)'
  <2>1. Admissions(p, t)' = Admissions(p, t)
    BY <1>3 DEF Admissions, During
  <2>2. HitsSince(p, t)' = 0
    BY <1>3, <1>5 DEF HitsSince
  <2>. QED
    BY <1>3, <1>6, <1>7, <2>1, <2>2
<1>. QED
  BY <1>3, <1>4, <1>5, <1>6, <1>8 DEF MemoryOK

\* Every step of the limiter keeps the invariant.
LEMMA LimiterKeeps ==
  ASSUME LimiterInv, LimiterNext
  PROVE  LimiterInv'
<1>1. /\ RedisInv /\ DOMAIN hits = Process /\ DOMAIN lost = Via /\ clock \in Times
      /\ clock \in Nat /\ ByRedis \notin Process /\ Process \subseteq Via /\ AdmittedOK
      /\ ByRedis \in Via
  BY NumbersNow, 0 \in Nat DEF LimiterInv, RedisInv, AdmittedOK, Via
<1>2. CASE Tick
  <2>1. UNCHANGED <<hits, admitted, lost>> /\ clock' \in Times /\ clock' >= clock
    BY <1>1, <1>2, LimiterAssumption DEF Tick, Times
  <2>2. \A q : \A t \in Nat : Admissions(q, t)' = Admissions(q, t)
    BY <2>1 DEF Admissions, During
  <2>3. \A q \in Process : MemoryOK(q)'
    BY <2>1, <2>2, OtherKeepsWindow
  <2>. QED
    BY <1>1, <1>2, <2>1, <2>3, TimeKeepsKeys DEF LimiterInv
<1>3. CASE RedisRestarts
  <2>1. /\ UNCHANGED <<hits, admitted, clock>> /\ \A q \in Process : lost'[q] = lost[q]
    BY <1>1, <1>3 DEF RedisRestarts
  <2>2. \A q : \A t \in Nat : Admissions(q, t)' = Admissions(q, t)
    BY <2>1 DEF Admissions, During
  <2>3. \A q \in Process : MemoryOK(q)'
    BY <1>1, <2>1, <2>2, OtherKeepsWindow
  <2>. QED
    BY <1>1, <1>3, <2>1, <2>3, RestartKeepsKeys DEF LimiterInv
<1>4. ASSUME NEW p \in Process,
             Incr(p) \/ Expire60(p) \/ RedisCallFails(p)
      PROVE  LimiterInv'
  <2>1. /\ UNCHANGED <<hits, lost, clock>>
        /\ Admit(ByRedis) \/ UNCHANGED admitted
    BY <1>4 DEF Incr, Expire60, RedisCallFails
  <2>2. \A q : q # ByRedis => \A t \in Nat : Admissions(q, t)' = Admissions(q, t)
    BY <1>1, <2>1, AdmittedByOne
  <2>3. \A q \in Process : MemoryOK(q)'
    BY <1>1, <2>1, <2>2, OtherKeepsWindow
  <2>4. RedisInv'
    BY <1>1, <1>4, IncrKeepsKeys, ExpireKeepsKeys, FailureKeepsKeys
  <2>. QED
    BY <1>1, <2>1, <2>3, <2>4 DEF LimiterInv
<1>5. ASSUME NEW p \in Process, MemoryHit(p)
      PROVE  LimiterInv'
  <2>1. /\ UNCHANGED <<lost, clock>>
        /\ Admit(p) \/ UNCHANGED admitted
        /\ DOMAIN hits' = Process /\ \A q \in Process : q # p => hits'[q] = hits[q]
    BY <1>1, <1>5 DEF MemoryHit
  <2>2. \A q : q # p => \A t \in Nat : Admissions(q, t)' = Admissions(q, t)
    BY <1>1, <2>1, AdmittedByOne
  <2>3. \A q \in Process : q # p => MemoryOK(q)'
    BY <1>1, <2>1, <2>2, OtherKeepsWindow
  <2>4. RedisInv' /\ MemoryOK(p)'
    BY <1>1, <1>5, MemoryKeepsKeys, HitKeepsWindow
  <2>. QED
    BY <2>1, <2>3, <2>4 DEF LimiterInv
<1>6. ASSUME NEW p \in Process, ProcessRestarts(p)
      PROVE  LimiterInv'
  <2>1. /\ UNCHANGED <<clock, counter, expiry, admitted>> /\ Serves(p, "nothing")
        /\ DOMAIN hits' = Process /\ \A q \in Process : q # p => hits'[q] = hits[q]
        /\ DOMAIN lost' = Via /\ \A q : q # p /\ q \in Via => lost'[q] = lost[q]
    BY <1>1, <1>6 DEF ProcessRestarts
  <2>2. \A q : \A t \in Nat : Admissions(q, t)' = Admissions(q, t)
    BY <2>1 DEF Admissions, During
  <2>3. \A q \in Process : q # p => MemoryOK(q)'
    BY <1>1, <2>1, <2>2, OtherKeepsWindow
  <2>4. AdmittedOK'
    BY <1>1, <2>1, NoneAdmitted
  <2>5. RedisInv'
    BY <1>1, <2>1, <2>2, <2>4, GivingUpKeepsKeys
  <2>. QED
    BY <1>6, <2>1, <2>3, <2>5, RestartKeepsWindow DEF LimiterInv
<1>7. ASSUME NEW p \in Process, Connect(p)
      PROVE  LimiterInv'
  <2>1. UNCHANGED <<clock, counter, expiry, hits, serving, admitted, lost>>
    BY <1>7 DEF Connect
  <2>. QED
    BY <2>1 DEF LimiterInv, RedisInv, AdmittedOK, ServingOK, Pending, Serving, Admissions,
      During, SameTime, MemoryOK, HitsSince
<1>. QED
  BY <1>2, <1>3, <1>4, <1>5, <1>6, <1>7 DEF LimiterNext

\* What is admitted by each way in a window that is still open is no more than its
\* count and the counts forgotten.
THEOREM LimiterSound == Spec => []LimiterInv
<1>1. ASSUME Init PROVE LimiterInv
  <2>1. /\ clock = 0 /\ counter = 0 /\ expiry = Never /\ admitted = {}
        /\ hits = [p \in Process |-> [at \in Times |-> 0]]
        /\ serving = [p \in Process |-> Waiting] /\ lost = [v \in Via |-> 0]
    BY <1>1 DEF Init, LimiterInit
  <2>2. AdmittedOK
    <3>1. 0 \in Times
      BY LimiterAssumption DEF Times
    <3>. QED
      BY <2>1, <3>1, FS_EmptySet DEF AdmittedOK
  <2>3. ServingOK /\ Pending = {}
    BY <2>1 DEF ServingOK, Pending, Serving, Waiting
  <2>4. \A via, t : Admissions(via, t) = 0
    <3>1. \A via, t : During(via, t) = {}
      BY <2>1 DEF During
    <3>. QED
      BY <3>1, FS_EmptySet DEF Admissions
  <2>5. \A n \in Nat : Lives(n) \in Nat
    BY LivesAdd
  <2>6. Limit \in Nat /\ RateWindow \in Nat /\ ByRedis \in Via /\ Process \subseteq Via
    BY LimiterAssumption DEF Via
  <2>7. ASSUME NEW t \in Nat PROVE KeysKeep(0, 0, 0, Never, 0, 0, t)
    <3>1. 0 + (IF 0 > t THEN 1 ELSE 0) \in Nat /\ 0 + 2 \in Nat
      OBVIOUS
    <3>2. /\ Lives(0 + (IF 0 > t THEN 1 ELSE 0)) \in Nat /\ Lives(0 + 2) \in Nat
      BY <2>5, <3>1
    <3>. QED
      BY <3>2 DEF KeysKeep
  <2>8. PendingKeep(0, 0, Never, 0)
    BY DEF PendingKeep
  <2>9. Cardinality(Pending) = 0 /\ lost[ByRedis] = 0
    BY <2>1, <2>3, <2>6, FS_EmptySet
  <2>10. RedisInv
    BY <2>1, <2>2, <2>3, <2>4, <2>6, <2>7, <2>8, <2>9 DEF RedisInv
  <2>11. ASSUME NEW p \in Process PROVE MemoryOK(p)
    <3>1. PICK f : f = [at \in Times |-> 0]
      OBVIOUS
    <3>2. hits[p] = f /\ DOMAIN f = Times /\ \A at \in Times : f[at] = 0 /\ f[at] \in Nat
      BY <2>1, <3>1
    <3>3. /\ SumFunctionOnSet(f, Times) = 0
          /\ \A t : SumFunctionOnSet(f, From(t)) = 0
      <4>1. \A t : \A at \in From(t) : f[at] = 0
        BY <3>2, TimesAre
      <4>. QED
        BY <3>2, <4>1, TimesAre, SumZero
    <3>4. lost[p] = 0 /\ Lives(0) \in Nat /\ Lives(0 + 1) \in Nat
      BY <2>1, <2>5, <2>6
    <3>5. ASSUME NEW t \in Nat
          PROVE  /\ Admissions(p, t) <= Lives(lost[p] + 1)
                 /\ Admissions(p, t) <= Lives(lost[p]) + HitsSince(p, t)
      BY <2>4, <3>2, <3>3, <3>4 DEF HitsSince
    <3>. QED
      BY <2>6, <3>2, <3>3, <3>4, <3>5 DEF MemoryOK
  <2>. QED
    BY <2>1, <2>10, <2>11 DEF LimiterInv
<1>2. ASSUME LimiterInv, [Next]_vars PROVE LimiterInv'
  <2>1. CASE LimiterNext
    BY <1>2, <2>1, LimiterKeeps
  <2>2. CASE UNCHANGED limiter
    BY <1>2, <2>2 DEF limiter, LimiterInv, RedisInv, AdmittedOK, ServingOK, Pending, Serving,
      Admissions, During, SameTime, MemoryOK, HitsSince
  <2>. QED
    BY <1>2, <2>1, <2>2, StepsOfDesks
<1>. QED
  BY <1>1, <1>2, PTL DEF Spec

\* However processes, failing commands and restarts interleave, a stretch of a
\* window's length admits by Redis at most twice the limit and by the memory of a
\* process once, and the limit again for each restart that forgot a count.
THEOREM WithinLimit == Spec => []AdmittedWithinLimit
<1>1. ASSUME LimiterInv PROVE AdmittedWithinLimit
  <2>1. ASSUME NEW a \in admitted
        PROVE  LET during == {b \in admitted : b.via = a.via
                                               /\ b.at \in a.at..(a.at + RateWindow)}
                   lives == (IF a.via = ByRedis THEN 2 ELSE 1) + lost[a.via]
               IN Cardinality(during) <= lives * Limit
    <3>1. PICK via, t : via = a.via /\ t = a.at
      OBVIOUS
    <3>2. via \in Via /\ t \in Nat
      BY <1>1, <3>1, TimesAre DEF LimiterInv, RedisInv, AdmittedOK
    <3>3. CASE via = ByRedis
      <4>1. lost[via] \in Nat /\ Admissions(via, t) <= Lives(lost[via] + 2)
        BY <1>1, <3>2, <3>3 DEF LimiterInv, RedisInv, KeysKeep
      <4>2. 2 + lost[via] = lost[via] + 2
        BY <4>1
      <4>. QED
        BY <3>1, <3>3, <4>1, <4>2 DEF Admissions, During, Lives
    <3>4. CASE via # ByRedis
      <4>1. via \in Process
        BY <3>2, <3>4 DEF Via
      <4>2. lost[via] \in Nat /\ Admissions(via, t) <= Lives(lost[via] + 1)
        BY <1>1, <3>2, <4>1 DEF LimiterInv, MemoryOK
      <4>3. 1 + lost[via] = lost[via] + 1
        BY <4>2
      <4>. QED
        BY <3>1, <3>4, <4>2, <4>3 DEF Admissions, During, Lives
    <3>. QED
      BY <3>3, <3>4
  <2>. QED
    BY <2>1 DEF AdmittedWithinLimit
<1>. QED
  BY LimiterSound, <1>1, PTL
-----------------------------------------------------------------------------
(***************************************************************************)
(* Lists.                                                                  *)
(***************************************************************************)
Foregoing(S, order, r) == {s \in S : IF order = "newest" THEN s > r ELSE s < r}
Places(S, order) == [r \in S |-> Cardinality(Foregoing(S, order, r))]

\* The rows of a sorted list have the places from 0 on, each its own.
LEMMA PlacesAre ==
  ASSUME NEW S, S \subseteq Int, IsFiniteSet(S), NEW order
  PROVE  /\ Cardinality(S) \in Nat
         /\ Places(S, order) \in Bijection(S, 0..(Cardinality(S) - 1))
<1>1. PICK n \in Nat : n = Cardinality(S)
  BY FS_CardinalityType
<1>2. DEFINE T == 0..(n - 1)
              p == Places(S, order)
<1>3. IsFiniteSet(T) /\ Cardinality(T) = n
  <2>1. n - 1 \in Int /\ 0 \in Int
    BY <1>1
  <2>. QED
    BY <1>1, <2>1, FS_Interval
<1>4. ASSUME NEW r \in S
      PROVE  /\ IsFiniteSet(Foregoing(S, order, r)) /\ Cardinality(Foregoing(S, order, r)) \in T
             /\ p[r] = Cardinality(Foregoing(S, order, r))
  <2>1. Foregoing(S, order, r) \subseteq S \ {r}
    BY DEF Foregoing
  <2>2. IsFiniteSet(S \ {r}) /\ Cardinality(S \ {r}) = n - 1
    BY <1>1, FS_RemoveElement
  <2>3. /\ IsFiniteSet(Foregoing(S, order, r)) /\ Cardinality(Foregoing(S, order, r)) <= n - 1
        /\ Cardinality(Foregoing(S, order, r)) \in Nat
    BY <2>1, <2>2, FS_Subset, FS_CardinalityType
  <2>. QED
    BY <1>1, <2>3 DEF Places
<1>5. ASSUME NEW r \in S, NEW s \in S, r \in Foregoing(S, order, s)
      PROVE  p[r] < p[s]
  <2>0. ASSUME NEW x \in S PROVE x \in Int
    OBVIOUS
  <2>1. Foregoing(S, order, r) \cup {r} \subseteq Foregoing(S, order, s) /\ r \notin Foregoing(S, order, r)
    <3>1. r \in Int /\ s \in Int /\ (IF order = "newest" THEN r > s ELSE r < s)
      BY <1>5, <2>0 DEF Foregoing
    <3>2. ASSUME NEW x \in S, IF order = "newest" THEN x > r ELSE x < r
          PROVE  IF order = "newest" THEN x > s ELSE x < s
      BY <2>0, <3>1, <3>2
    <3>3. r \notin Foregoing(S, order, r)
      BY <3>1 DEF Foregoing
    <3>. QED
      BY <1>5, <3>2, <3>3 DEF Foregoing
  <2>2. Cardinality(Foregoing(S, order, r) \cup {r}) = Cardinality(Foregoing(S, order, r)) + 1
    BY <1>4, <2>1, FS_AddElement
  <2>3. Cardinality(Foregoing(S, order, r) \cup {r}) <= Cardinality(Foregoing(S, order, s))
    BY <1>4, <2>1, FS_Subset
  <2>4. Cardinality(Foregoing(S, order, r)) \in Int /\ Cardinality(Foregoing(S, order, s)) \in Int
    BY <1>1, <1>4
  <2>. QED
    BY <1>4, <2>2, <2>3, <2>4
<1>6. ASSUME NEW r \in S, NEW s \in S, r # s
      PROVE  p[r] # p[s]
  <2>1. r \in Foregoing(S, order, s) \/ s \in Foregoing(S, order, r)
    BY <1>6 DEF Foregoing
  <2>2. p[r] \in Int /\ p[s] \in Int
    BY <1>1, <1>4
  <2>. QED
    BY <1>5, <2>1, <2>2
<1>7. p \in [S -> T]
  <2>1. DOMAIN p = S /\ p = [r \in S |-> p[r]]
    BY DEF Places
  <2>. QED
    BY <1>4, <2>1
<1>8. p \in Injection(S, T)
  BY <1>6, <1>7 DEF Injection, IsInjective
<1>9. p \in Surjection(S, T)
  BY <1>1, <1>3, <1>8, FS_Injection
<1>. QED
  BY <1>1, <1>8, <1>9 DEF Bijection

\* As many rows have places from a to before b as there are places.
Placed(S, order, a, b) == {r \in S : Cardinality(Foregoing(S, order, r)) \in a..(b - 1)}

\* The places from a to b are those of b - a rows.
LEMMA PlacesBetween ==
  ASSUME NEW S, S \subseteq Int, IsFiniteSet(S), NEW order, NEW a \in Nat, NEW b \in Nat,
         a <= b, b <= Cardinality(S)
  PROVE  Cardinality(Placed(S, order, a, b)) = b - a
<1>1a. PICK n \in Nat : \E p :
        /\ n = Cardinality(S) /\ p = Places(S, order)
        /\ p \in Bijection(S, 0..(n - 1))
  BY PlacesAre
<1>1. PICK p :
        /\ n = Cardinality(S) /\ p = Places(S, order)
        /\ p \in Bijection(S, 0..(n - 1))
  BY <1>1a
<1>2. /\ p \in [S -> 0..(n - 1)] /\ \A r, s \in S : p[r] = p[s] => r = s
      /\ \A k \in 0..(n - 1) : \E r \in S : p[r] = k
  BY <1>1 DEF Bijection, Injection, Surjection, IsInjective
<1>3. PICK T : T = {r \in S : p[r] \in a..(b - 1)}
  OBVIOUS
<1>4. T = Placed(S, order, a, b)
  BY <1>1, <1>3 DEF Places, Placed
<1>5. PICK q : q = [r \in T |-> p[r]]
  OBVIOUS
<1>6. q \in [T -> a..(b - 1)] /\ \A r, s \in T : q[r] = q[s] => r = s
  BY <1>2, <1>3, <1>5
<1>7. ASSUME NEW k \in a..(b - 1) PROVE \E r \in T : q[r] = k
  <2>1. k \in 0..(n - 1)
    BY <1>1
  <2>. QED
    BY <1>2, <1>3, <1>5, <2>1
<1>8. q \in Bijection(T, a..(b - 1))
  BY <1>6, <1>7 DEF Bijection, Injection, Surjection, IsInjective
<1>9. IsFiniteSet(T)
  BY <1>3, FS_Subset
<1>10. Cardinality(a..(b - 1)) = Cardinality(T)
  BY <1>8, <1>9, FS_Bijection DEF ExistsBijection
<1>11. Cardinality(a..(b - 1)) = b - a
  <2>1. PICK c : c = b - 1
    OBVIOUS
  <2>2. a \in Int /\ c \in Int
    BY <2>1
  <2>3. Cardinality(a..c) = IF a > c THEN 0 ELSE c - a + 1
    BY <2>2, FS_Interval
  <2>. QED
    BY <2>1, <2>3
<1>. QED
  BY <1>4, <1>10, <1>11

Sorts == list.order # "any"
Missed(k) == {r \in steady \ seen : Cardinality(Preceding(r)) < k}

\* A row ahead of the reader who was not shown it has slipped past the cursor when
\* another left.
ListsInv ==
  /\ ListsTypeOK
  /\ gone \in Nat /\ slipped \in Nat
  /\ page.does = "next" => page.cursor \in Nat /\ (Sorts => Cardinality(Missed(page.cursor)) <= gone)
  /\ page.does = "counted" =>
       /\ page.offset \in Nat /\ page.size \in Nat /\ page.total \in Nat
       /\ Cardinality(listed) <= page.total + slipped
       /\ Sorts => Cardinality(Missed(page.offset)) <= gone
  /\ PagesCoverTheList

\* The rows of a list, and those missed so far, can be counted.
LEMMA RowsAre ==
  ASSUME ListsInv
  PROVE  /\ listed \subseteq Int /\ IsFiniteSet(listed) /\ Cardinality(listed) \in Nat
         /\ \A r : Preceding(r) = Foregoing(listed, list.order, r) /\ IsFiniteSet(Preceding(r))
                   /\ Cardinality(Preceding(r)) \in Nat
         /\ \A k : IsFiniteSet(Missed(k)) /\ Cardinality(Missed(k)) \in Nat
                   /\ Missed(k) \subseteq listed
<1>1. Row \subseteq Int /\ IsFiniteSet(Row)
  <2>1. MaxRows \in Int /\ 1 \in Int
    BY ListsAssumption
  <2>. QED
    BY <2>1, FS_Interval DEF Row
<1>2. listed \subseteq Row /\ steady \subseteq listed
  BY DEF ListsInv, ListsTypeOK
<1>3. IsFiniteSet(listed) /\ Cardinality(listed) \in Nat
  BY <1>1, <1>2, FS_Subset, FS_CardinalityType
<1>4. ASSUME NEW r PROVE /\ Preceding(r) = Foregoing(listed, list.order, r) /\ IsFiniteSet(Preceding(r))
                         /\ Cardinality(Preceding(r)) \in Nat
  <2>1. Preceding(r) \subseteq listed
    BY DEF Preceding
  <2>. QED
    BY <1>3, <2>1, FS_Subset, FS_CardinalityType DEF Preceding, Foregoing
<1>5. ASSUME NEW k PROVE /\ IsFiniteSet(Missed(k)) /\ Cardinality(Missed(k)) \in Nat
                         /\ Missed(k) \subseteq listed
  <2>1. Missed(k) \subseteq listed
    BY <1>2 DEF Missed
  <2>. QED
    BY <1>3, <2>1, FS_Subset, FS_CardinalityType
<1>. QED
  BY <1>1, <1>2, <1>3, <1>4, <1>5

\* Of those who were shown more, fewer are missed.
LEMMA MissesFewer ==
  ASSUME ListsInv, NEW k, NEW l, Missed(l)' \subseteq Missed(k)
  PROVE  Cardinality(Missed(l))' \in Nat /\ Cardinality(Missed(l))' <= Cardinality(Missed(k))
<1>1. IsFiniteSet(Missed(k))
  BY RowsAre
<1>2. IsFiniteSet(Missed(l)') /\ Cardinality(Missed(l)') <= Cardinality(Missed(k))
  BY <1>1, FS_Subset
<1>. QED
  BY <1>2, FS_CardinalityType

\* A row that appears pushes others back; ...
LEMMA AppearingMisses ==
  ASSUME ListsInv, RowAppears, NEW k \in Nat
  PROVE  Cardinality(Missed(k))' \in Nat /\ Cardinality(Missed(k))' <= Cardinality(Missed(k))
<1>1. UNCHANGED <<list, seen, steady>> /\ listed \subseteq listed' /\ steady \subseteq listed
      /\ IsFiniteSet(listed')
  <2>1. PICK x : x \in Row \ listed /\ listed' = listed \cup {x}
    BY DEF RowAppears
  <2>. QED
    BY <2>1, RowsAre, FS_AddElement DEF RowAppears, ListsInv, ListsTypeOK
<1>2. ASSUME NEW r PROVE /\ Cardinality(Preceding(r)) <= Cardinality(Preceding(r)')
                         /\ Cardinality(Preceding(r)') \in Nat /\ Cardinality(Preceding(r)) \in Nat
  <2>1. Preceding(r) \subseteq Preceding(r)' /\ Preceding(r)' \subseteq listed'
    BY <1>1 DEF Preceding
  <2>. QED
    BY <1>1, <2>1, RowsAre, FS_Subset, FS_CardinalityType
<1>3. Missed(k)' \subseteq Missed(k)
  BY <1>1, <1>2 DEF Missed
<1>. QED
  BY <1>3, MissesFewer

\* ... one that leaves lets a single one past the cursor.
LEMMA LeavingMisses ==
  ASSUME ListsInv, RowLeaves, NEW k \in Nat
  PROVE  Cardinality(Missed(k))' \in Nat /\ Cardinality(Missed(k))' <= Cardinality(Missed(k)) + 1
<1>1. PICK x \in listed : listed' = listed \ {x} /\ steady' = steady \ {x}
  BY DEF RowLeaves
<1>2. UNCHANGED <<list, seen>> /\ steady \subseteq listed
  BY DEF RowLeaves, ListsInv, ListsTypeOK
<1>3. ASSUME NEW r \in listed
      PROVE  Cardinality(Preceding(r)') < k => Cardinality(Preceding(r)) < k \/ Cardinality(Preceding(r)) = k
  <2>1. Preceding(r)' = Preceding(r) \ {x}
    BY <1>1, <1>2 DEF Preceding
  <2>2. IsFiniteSet(Preceding(r)) /\ Cardinality(Preceding(r)) \in Nat
    BY RowsAre
  <2>3. Cardinality(Preceding(r) \ {x}) = IF x \in Preceding(r) THEN Cardinality(Preceding(r)) - 1
                                      ELSE Cardinality(Preceding(r))
    BY <2>2, FS_RemoveElement
  <2>. QED
    BY <2>1, <2>2, <2>3
<1>4. Missed(k)' \subseteq Missed(k) \cup {r \in listed : Cardinality(Preceding(r)) = k}
  BY <1>1, <1>2, <1>3 DEF Missed
<1>5. PICK m \in listed \cup {0} : \A r \in listed : Cardinality(Preceding(r)) = k => r = m
  <2>1. PICK p : /\ p = Places(listed, list.order)
                 /\ p \in Bijection(listed, 0..(Cardinality(listed) - 1))
    BY RowsAre, PlacesAre
  <2>2. \A r, s \in listed : p[r] = p[s] => r = s
    BY <2>1 DEF Bijection, Injection, IsInjective
  <2>3. \A r \in listed : p[r] = Cardinality(Preceding(r))
    BY <2>1, RowsAre DEF Places
  <2>. QED
    BY <2>2, <2>3
<1>6. Missed(k)' \subseteq Missed(k) \cup {m}
  BY <1>4, <1>5
<1>7. IsFiniteSet(Missed(k)) /\ Cardinality(Missed(k)) \in Nat
  BY RowsAre
<1>8. /\ IsFiniteSet(Missed(k) \cup {m}) /\ Cardinality(Missed(k) \cup {m}) \in Nat
      /\ Cardinality(Missed(k) \cup {m}) <= Cardinality(Missed(k)) + 1
  <2>1. /\ IsFiniteSet(Missed(k) \cup {m})
        /\ Cardinality(Missed(k) \cup {m}) = IF m \in Missed(k) THEN Cardinality(Missed(k))
                                             ELSE Cardinality(Missed(k)) + 1
    BY <1>7, FS_AddElement
  <2>. QED
    BY <1>7, <2>1
<1>9. Cardinality(Missed(k)') <= Cardinality(Missed(k) \cup {m}) /\ Cardinality(Missed(k)') \in Nat
  BY <1>6, <1>8, FS_Subset, FS_CardinalityType
<1>. QED
  BY <1>7, <1>8, <1>9

\* What a slice of a sorted list is: every row of its places, up to the last.
LEMMA SliceOf ==
  ASSUME ListsInv, Sorts, NEW offset \in Nat, NEW size \in Nat,
         NEW items \in Slices(offset, offset + size),
         NEW end, end = offset + Cardinality(items)
  PROVE  /\ items = {r \in listed : /\ Cardinality(Preceding(r)) >= offset
                                    /\ Cardinality(Preceding(r)) < offset + size}
         /\ end \in Nat /\ end <= offset + size
         /\ end < Cardinality(listed) => end = offset + size
<1>1. PICK n, o : n = Cardinality(listed) /\ o = list.order
  OBVIOUS
<1>2. /\ n \in Nat /\ listed \subseteq Int /\ IsFiniteSet(listed)
      /\ \A r : Preceding(r) = Foregoing(listed, o, r) /\ Cardinality(Preceding(r)) \in Nat
  BY <1>1, RowsAre
<1>3. items = {r \in listed : Cardinality(Preceding(r)) \in offset..(offset + size - 1)}
  BY DEF Slices, Sorts
<1>4. items = {r \in listed : /\ Cardinality(Preceding(r)) >= offset
                              /\ Cardinality(Preceding(r)) < offset + size}
  BY <1>2, <1>3
<1>5. \A r \in listed : Cardinality(Preceding(r)) < n
  <2>1. Places(listed, o) \in Bijection(listed, 0..(n - 1))
    BY <1>1, <1>2, PlacesAre
  <2>2. ASSUME NEW r \in listed PROVE Cardinality(Preceding(r)) \in 0..(n - 1)
    <3>1. Places(listed, o)[r] \in 0..(n - 1)
      BY <2>1 DEF Bijection, Injection
    <3>. QED
      BY <1>2, <3>1 DEF Places
  <2>. QED
    BY <1>2, <2>2
<1>6. CASE offset > n
  <2>0. ASSUME NEW r \in items PROVE FALSE
    <3>1. /\ r \in listed /\ Cardinality(Preceding(r)) >= offset
          /\ Cardinality(Preceding(r)) < n /\ Cardinality(Preceding(r)) \in Nat
      BY <1>2, <1>4, <1>5
    <3>. QED
      BY <1>2, <1>6, <3>1
  <2>1. items = {}
    BY <2>0
  <2>2. end = offset
    BY <2>1, FS_EmptySet
  <2>. QED
    BY <1>1, <1>2, <1>4, <1>6, <2>2
<1>7. CASE offset <= n
  <2>1. PICK b : b = IF offset + size <= n THEN offset + size ELSE n
    OBVIOUS
  <2>2. b \in Nat /\ offset <= b /\ b <= n
    BY <1>2, <1>7, <2>1
  <2>3. items = Placed(listed, o, offset, b)
    <3>1. ASSUME NEW r \in listed
          PROVE  r \in items <=> Cardinality(Foregoing(listed, o, r)) \in offset..(b - 1)
      <4>1. PICK k \in Nat : k = Cardinality(Preceding(r)) /\ k = Cardinality(Foregoing(listed, o, r))
        BY <1>2
      <4>2. r \in items <=> k >= offset /\ k < offset + size
        BY <1>4, <4>1
      <4>3. k < n
        BY <1>5, <4>1
      <4>. QED
        BY <1>2, <2>1, <2>2, <4>1, <4>2, <4>3
    <3>2. items \subseteq listed
      BY <1>4
    <3>. QED
      BY <3>1, <3>2 DEF Placed
  <2>4. Cardinality(Placed(listed, o, offset, b)) = b - offset
    <3>1. b <= Cardinality(listed) /\ listed \subseteq Int /\ IsFiniteSet(listed)
      BY <1>1, <1>2, <2>2
    <3>. QED
      BY ONLY <2>2, <3>1, offset \in Nat, PlacesBetween
  <2>5. end = b
    BY <2>2, <2>3, <2>4
  <2>. QED
    BY <1>1, <1>2, <1>4, <2>1, <2>2, <2>5
<1>. QED
  BY <1>2, <1>6, <1>7

\* A slice shows all that is there, so that none but those missed before are
\* missed, or are behind it.
LEMMA SlicingMisses ==
  ASSUME ListsInv, Sorts, page.does = "counted", UNCHANGED <<list, listed, steady>>,
         NEW items \in Slices(page.offset, page.offset + page.size),
         seen' = seen \cup items, NEW end, end = page.offset + Cardinality(items)
  PROVE  /\ end \in Nat
         /\ Cardinality(Missed(end))' <= gone
         /\ ~HasNextPage(end, page.total) => Cardinality(steady \ seen)' <= gone + slipped
<1>1. PICK offset, size, total, n :
        /\ offset = page.offset /\ size = page.size /\ total = page.total
        /\ n = Cardinality(listed)
  OBVIOUS
<1>2. /\ offset \in Nat /\ size \in Nat /\ total \in Nat /\ n \in Nat /\ gone \in Nat
      /\ slipped \in Nat /\ n <= total + slipped /\ steady \subseteq listed
      /\ Cardinality(Missed(offset)) <= gone
  BY <1>1, RowsAre DEF ListsInv, ListsTypeOK
<1>3. /\ items = {r \in listed : /\ Cardinality(Preceding(r)) >= offset
                                 /\ Cardinality(Preceding(r)) < offset + size}
      /\ end \in Nat /\ end <= offset + size
      /\ end < n => end = offset + size
  BY <1>1, <1>2, SliceOf
<1>4. \A r : Preceding(r)' = Preceding(r) /\ Cardinality(Preceding(r)) \in Nat
  BY RowsAre DEF Preceding
<1>5. Missed(end)' \subseteq Missed(offset)
  <2>1. ASSUME NEW r \in Missed(end)' PROVE r \in Missed(offset)
    <3>1. /\ r \in steady \ (seen \cup items) /\ Cardinality(Preceding(r)) < end
          /\ r \in listed
      BY <1>2, <1>4, <2>1 DEF Missed
    <3>2. Cardinality(Preceding(r)) < offset
      BY <1>2, <1>3, <1>4, <3>1
    <3>. QED
      BY <3>1, <3>2 DEF Missed
  <2>. QED
    BY <2>1
<1>6. Cardinality(Missed(end))' <= gone
  <2>1. /\ Cardinality(Missed(end))' \in Nat
        /\ Cardinality(Missed(end))' <= Cardinality(Missed(offset))
    BY <1>5, MissesFewer
  <2>2. Cardinality(Missed(offset)) \in Nat
    BY RowsAre
  <2>. QED
    BY <1>2, <2>1, <2>2
<1>7. ASSUME ~HasNextPage(end, total)
      PROVE  Cardinality(steady \ seen)' <= gone + slipped
  <2>1. end >= total
    BY <1>2, <1>3, <1>7 DEF HasNextPage
  <2>2. PICK rest : rest = {r \in listed : Cardinality(Preceding(r)) \in end..(n - 1)}
    OBVIOUS
  <2>3. IsFiniteSet(rest) /\ Cardinality(rest) \in Nat /\ Cardinality(rest) <= slipped
    <3>1. rest \subseteq listed
      BY <2>2
    <3>2. IsFiniteSet(rest) /\ Cardinality(rest) \in Nat
      BY <3>1, RowsAre, FS_Subset, FS_CardinalityType
    <3>3. CASE end <= n
      <4>1. PICK o : o = list.order
        OBVIOUS
      <4>2. listed \subseteq Int /\ IsFiniteSet(listed) /\ rest = Placed(listed, o, end, n)
        BY <2>2, <4>1, RowsAre DEF Placed
      <4>3. Cardinality(Placed(listed, o, end, n)) = n - end
        <5>1. end \in Nat /\ n \in Nat /\ end <= n /\ n <= Cardinality(listed)
          BY <1>1, <1>2, <1>3, <3>3
        <5>. QED
          BY ONLY <4>2, <5>1, PlacesBetween
      <4>4. Cardinality(rest) = n - end
        BY <4>2, <4>3
      <4>. QED
        <5>1. n - end <= slipped
          BY <1>2, <1>3, <2>1
        <5>. QED
          BY <3>2, <4>4, <5>1
    <3>4. CASE end > n
      <4>1. end..(n - 1) = {}
        BY <1>2, <1>3, <3>4
      <4>2. rest = {}
        BY <2>2, <4>1
      <4>. QED
        BY <1>2, <3>2, <4>2, FS_EmptySet
    <3>. QED
      BY <1>2, <1>3, <3>3, <3>4
  <2>4. ASSUME NEW r \in (steady \ seen)' PROVE r \in Missed(offset) \cup rest
    <3>1. r \in steady /\ r \notin seen /\ r \notin items /\ r \in listed
      BY <1>2, <2>4
    <3>2. Cardinality(Preceding(r)) < n
      <4>1. PICK o : o = list.order
        OBVIOUS
      <4>2. Places(listed, o) \in Bijection(listed, 0..(n - 1))
        BY <1>1, RowsAre, PlacesAre
      <4>3. Places(listed, o)[r] \in 0..(n - 1)
        BY <3>1, <4>2 DEF Bijection, Injection
      <4>4. Places(listed, o)[r] = Cardinality(Preceding(r))
        BY <3>1, <4>1, RowsAre DEF Places
      <4>. QED
        BY <1>2, <4>3, <4>4
    <3>3. CASE Cardinality(Preceding(r)) < offset
      BY <3>1, <3>3 DEF Missed
    <3>4. CASE ~(Cardinality(Preceding(r)) < offset)
      <4>1. Cardinality(Preceding(r)) \in end..(n - 1)
        BY <1>2, <1>3, <1>4, <3>1, <3>2, <3>4
      <4>. QED
        BY <2>2, <3>1, <4>1
    <3>. QED
      BY <3>3, <3>4
  <2>5. (steady \ seen)' \subseteq Missed(offset) \cup rest
    BY <2>4
  <2>6. IsFiniteSet(Missed(offset)) /\ Cardinality(Missed(offset)) \in Nat
    BY RowsAre
  <2>7. PICK both : both = Missed(offset) \cap rest
    OBVIOUS
  <2>8. /\ IsFiniteSet(Missed(offset) \cup rest) /\ Cardinality(both) \in Nat
        /\ Cardinality(Missed(offset) \cup rest)
             = Cardinality(Missed(offset)) + Cardinality(rest) - Cardinality(both)
    <3>1. both \subseteq rest
      BY <2>7
    <3>2. Cardinality(both) \in Nat
      BY <2>3, <3>1, FS_Subset, FS_CardinalityType
    <3>. QED
      BY <2>3, <2>6, <2>7, <3>2, FS_Union
  <2>9. /\ Cardinality((steady \ seen)') <= Cardinality(Missed(offset) \cup rest)
        /\ Cardinality((steady \ seen)') \in Nat
    BY <2>5, <2>8, FS_Subset, FS_CardinalityType
  <2>. QED
    BY <1>2, <2>3, <2>6, <2>8, <2>9
<1>. QED
  BY <1>1, <1>3, <1>6, <1>7

\* A row that appears or leaves between two requests.
LEMMA RowsChangeKeeps ==
  ASSUME ListsInv, RowAppears \/ RowLeaves
  PROVE  ListsInv'
<1>1. UNCHANGED <<list, page, seen>> /\ page.does \in {"next", "counted"}
  <2>1. CASE RowAppears
    BY <2>1 DEF RowAppears, Reading
  <2>2. CASE RowLeaves
    BY <2>2 DEF RowLeaves, Reading
  <2>. QED
    BY <2>1, <2>2
<1>2. ListsTypeOK'
  BY <1>1 DEF RowAppears, RowLeaves, ListsInv, ListsTypeOK
<1>3. PagesCoverTheList'
  BY <1>1 DEF PagesCoverTheList
<1>4. PICK n : n = Cardinality(listed) /\ n \in Nat
  BY RowsAre
<1>5. ASSUME NEW k \in Nat, Sorts, Cardinality(Missed(k)) <= gone
      PROVE  gone \in Nat /\ gone' \in Nat /\ Cardinality(Missed(k))' <= gone'
  <2>1. gone \in Nat /\ Cardinality(Missed(k)) \in Nat
    BY RowsAre DEF ListsInv
  <2>2. CASE RowAppears
    <3>1. gone' = gone
      BY <2>2 DEF RowAppears
    <3>. QED
      BY <1>5, <2>1, <2>2, <3>1, AppearingMisses
  <2>3. CASE RowLeaves
    <3>1. gone' = gone + 1
      BY <2>3 DEF RowLeaves
    <3>. QED
      BY <1>5, <2>1, <2>3, <3>1, LeavingMisses
  <2>. QED
    BY <2>2, <2>3
<1>6. gone' \in Nat /\ slipped' \in Nat
  BY DEF RowAppears, RowLeaves, ListsInv
<1>7. ASSUME page.does = "counted"
      PROVE  Cardinality(listed)' <= page.total + slipped'
  <2>1. n <= page.total + slipped /\ page.total \in Nat /\ slipped \in Nat
    BY <1>4, <1>7 DEF ListsInv
  <2>2. CASE RowAppears
    <3>1. slipped' = slipped + 1
      BY <1>7, <2>2 DEF RowAppears
    <3>2. PICK r \in Row \ listed : listed' = listed \cup {r}
      BY <2>2 DEF RowAppears
    <3>3. Cardinality(listed)' = n + 1
      BY <1>4, <3>2, RowsAre, FS_AddElement
    <3>. QED
      BY <1>4, <2>1, <3>1, <3>3
  <2>3. CASE RowLeaves
    <3>1. slipped' = slipped
      BY <2>3 DEF RowLeaves
    <3>2. PICK r \in listed : listed' = listed \ {r}
      BY <2>3 DEF RowLeaves
    <3>3. Cardinality(listed)' = n - 1
      BY <1>4, <3>2, RowsAre, FS_RemoveElement
    <3>. QED
      BY <1>4, <2>1, <3>1, <3>3
  <2>. QED
    BY <2>2, <2>3
<1>8. Sorts' = Sorts
  BY <1>1 DEF Sorts
<1>9. ASSUME page.does = "next"
      PROVE  (page.cursor \in Nat /\ (Sorts => Cardinality(Missed(page.cursor)) <= gone))'
  <2>1. PICK k : k = page.cursor /\ k \in Nat /\ (Sorts => Cardinality(Missed(k)) <= gone)
    BY <1>9 DEF ListsInv
  <2>2. Sorts => Cardinality(Missed(k))' <= gone'
    BY <1>5, <2>1
  <2>. QED
    BY <1>1, <1>8, <2>1, <2>2 DEF Missed
<1>10. ASSUME page.does = "counted"
       PROVE  (page.offset \in Nat /\ (Sorts => Cardinality(Missed(page.offset)) <= gone))'
  <2>1. PICK k : k = page.offset /\ k \in Nat /\ (Sorts => Cardinality(Missed(k)) <= gone)
    BY <1>10 DEF ListsInv
  <2>2. Sorts => Cardinality(Missed(k))' <= gone'
    BY <1>5, <2>1
  <2>. QED
    BY <1>1, <1>8, <2>1, <2>2 DEF Missed
<1>. QED
  BY <1>1, <1>2, <1>3, <1>6, <1>7, <1>9, <1>10 DEF ListsInv

\* queryset.count().
LEMMA CountKeeps ==
  ASSUME ListsInv, CountRows
  PROVE  ListsInv'
<1>1a. PICK size \in PageSizes : \E total, cursor :
        /\ total = Cardinality(listed)
        /\ cursor = (IF page.does = "start" THEN 0 ELSE page.cursor)
        /\ page' = [does |-> "counted", offset |-> Offset(cursor, total), size |-> size,
                    total |-> total]
  BY DEF CountRows
<1>1. PICK total, cursor :
        /\ total = Cardinality(listed)
        /\ cursor = (IF page.does = "start" THEN 0 ELSE page.cursor)
        /\ page' = [does |-> "counted", offset |-> Offset(cursor, total), size |-> size,
                    total |-> total]
  BY <1>1a
<1>2. PICK offset : offset = Offset(cursor, total)
  OBVIOUS
<1>3. /\ page.does \in {"start", "next"} /\ slipped' = 0 /\ UNCHANGED <<list, listed, seen, gone>>
      /\ steady' = IF page.does = "start" THEN listed ELSE steady
  BY DEF CountRows
<1>4. /\ total \in Nat /\ size \in Nat /\ cursor \in Nat /\ gone \in Nat
      /\ page.does = "next" => cursor = page.cursor
      /\ page.does = "start" => cursor = 0
  BY <1>1, <1>3, RowsAre, ListsAssumption DEF ListsInv
<1>5. offset \in Nat /\ offset <= cursor /\ offset <= total
  <2>1. offset = Min({cursor, total})
    BY <1>2 DEF Offset
  <2>2. \A m \in {cursor, total} : m \in Int
    BY <1>4
  <2>. QED
    BY <1>4, <2>1 DEF Min
<1>6. ASSUME Sorts PROVE Cardinality(Missed(offset))' <= gone'
  <2>1. CASE page.does = "start"
    <3>1. offset = 0
      BY <1>4, <1>5, <2>1
    <3>2. \A r : Preceding(r)' = Preceding(r) /\ Cardinality(Preceding(r)) \in Nat
      BY <1>3, RowsAre DEF Preceding
    <3>3. ASSUME NEW r \in Missed(0)' PROVE FALSE
      BY <3>2, <3>3 DEF Missed
    <3>4. Missed(offset)' = {}
      BY <3>1, <3>3 DEF Missed
    <3>. QED
      BY <1>3, <1>4, <3>4, FS_EmptySet
  <2>2. CASE page.does = "next"
    <3>1. Cardinality(Missed(cursor)) <= gone /\ Cardinality(Missed(cursor)) \in Nat
      BY <1>4, <1>6, <2>2, RowsAre DEF ListsInv
    <3>2. \A r : Preceding(r)' = Preceding(r) /\ Cardinality(Preceding(r)) \in Nat
      BY <1>3, RowsAre DEF Preceding
    <3>3. ASSUME NEW r, r \in steady \ seen, Cardinality(Preceding(r)) < offset
          PROVE  Cardinality(Preceding(r)) < cursor
      BY <1>4, <1>5, <3>2, <3>3
    <3>4. Missed(offset)' \subseteq Missed(cursor)
      BY <1>3, <2>2, <3>2, <3>3 DEF Missed
    <3>5. /\ Cardinality(Missed(offset))' \in Nat
          /\ Cardinality(Missed(offset))' <= Cardinality(Missed(cursor))
      BY <3>4, MissesFewer
    <3>. QED
      BY <1>3, <1>4, <3>1, <3>5
  <2>. QED
    BY <1>3, <2>1, <2>2
<1>7. page'.does = "counted" /\ page'.offset = offset /\ page'.size = size /\ page'.total = total
  BY <1>1, <1>2
<1>8. ListsTypeOK' /\ PagesCoverTheList'
  BY <1>3, <1>5, <1>7 DEF ListsInv, ListsTypeOK, PagesCoverTheList
<1>9. Sorts' = Sorts
  BY <1>3 DEF Sorts
<1>10. Cardinality(listed') <= page'.total + slipped'
  BY <1>1, <1>3, <1>4, <1>7
<1>11. (Sorts => Cardinality(Missed(page.offset)) <= gone)'
  BY <1>6, <1>7, <1>9 DEF Missed
<1>. QED
  BY <1>3, <1>4, <1>5, <1>7, <1>8, <1>10, <1>11 DEF ListsInv

\* The slice of a page and where its cursor ends.
LEMMA SliceKeeps ==
  ASSUME ListsInv, SliceRows
  PROVE  ListsInv'
<1>1. /\ page.does = "counted" /\ UNCHANGED <<list, listed, steady, gone, slipped>>
  BY DEF SliceRows
<1>2. PICK items, end :
        /\ items \in Slices(page.offset, page.offset + page.size)
        /\ end = page.offset + Cardinality(items) /\ seen' = seen \cup items
        /\ page' = IF ~list.continued THEN [does |-> "stuck"]
                   ELSE IF HasNextPage(end, page.total)
                        THEN [does |-> "next", cursor |-> end]
                        ELSE [does |-> "done"]
  BY DEF SliceRows
<1>3. items \subseteq listed /\ IsFiniteSet(items)
  <2>1. items \subseteq listed
    BY <1>2 DEF Slices, kSubset
  <2>. QED
    BY <2>1, RowsAre, FS_Subset
<1>4. end \in Nat
  BY <1>1, <1>2, <1>3, FS_CardinalityType DEF ListsInv
<1>5. Sorts => /\ Cardinality(Missed(end))' <= gone
               /\ ~HasNextPage(end, page.total) => Cardinality(steady \ seen)' <= gone + slipped
  BY <1>1, <1>2, SlicingMisses
<1>6. /\ page'.does \in {"stuck", "next", "done"}
      /\ page'.does = "next" => page'.cursor = end
      /\ page'.does = "done" => ~HasNextPage(end, page.total)
  <2>1. CASE ~list.continued
    BY <1>2, <2>1
  <2>2. CASE list.continued /\ HasNextPage(end, page.total)
    BY <1>2, <2>2
  <2>3. CASE list.continued /\ ~HasNextPage(end, page.total)
    BY <1>2, <2>3
  <2>. QED
    BY <2>1, <2>2, <2>3
<1>7. ListsTypeOK'
  BY <1>1, <1>2, <1>3, <1>6 DEF ListsInv, ListsTypeOK
<1>8. PagesCoverTheList'
  BY <1>1, <1>5, <1>6 DEF PagesCoverTheList, Sorts
<1>9. page'.does = "next" => /\ page'.cursor \in Nat
                             /\ (Sorts => Cardinality(Missed(page.cursor)) <= gone)'
  BY <1>1, <1>4, <1>5, <1>6 DEF Missed, Sorts
<1>. QED
  BY <1>1, <1>6, <1>7, <1>8, <1>9 DEF ListsInv

\* Of the rows ahead of its cursor a client has missed no more than left the list,
\* if the list has an order.
THEOREM ListsSound == Spec => []ListsInv
<1>1. ASSUME Init PROVE ListsInv
  BY <1>1 DEF Init, ListsInit, ListsInv, ListsTypeOK, PagesCoverTheList
<1>2. ASSUME ListsInv, [Next]_vars PROVE ListsInv'
  <2>1. CASE ListsNext
    BY <1>2, <2>1, RowsChangeKeeps, CountKeeps, SliceKeeps DEF ListsNext
  <2>2. CASE UNCHANGED lists
    BY <1>2, <2>2 DEF lists, ListsInv, ListsTypeOK, PagesCoverTheList, Missed, Preceding, Sorts
  <2>. QED
    BY <1>2, <2>1, <2>2, StepsOfDesks
<1>. QED
  BY <1>1, <1>2, PTL DEF Spec

\* Who follows the cursors to the end of a sorted list has been shown all that were
\* in it all the while, but for as many at most as rows left it or appeared between
\* the two statements of the last page.
THEOREM PagesCover == Spec => []PagesCoverTheList
<1>1. ListsInv => PagesCoverTheList
  BY DEF ListsInv
<1>. QED
  BY ListsSound, <1>1, PTL
-----------------------------------------------------------------------------
(***************************************************************************)
(* Types.  The invariants above say most of it; what they leave open is     *)
(* proved here.                                                            *)
(***************************************************************************)
LengthOK == Len(dates) \in 0..MaxLength

\* A schedule grows up to its bound.
THEOREM LengthSound == Spec => []LengthOK
<1>1. ASSUME Init PROVE LengthOK
  <2>1. Len(dates) = 0 \/ Len(dates) = 1
    <3>1. \/ \E start : dates = <<start>>
          \/ dates = <<>>
      BY <1>1 DEF Init, CalendarInit
    <3>. QED
      BY <3>1
  <2>. QED
    BY <2>1, CalendarAssumption DEF LengthOK
<1>2. ASSUME CalendarInv, LengthOK, [Next]_vars PROVE LengthOK'
  <2>1. CASE AddDueDate
    <3>1. Len(dates) < MaxLength /\ MaxLength \in Nat /\ Len(dates) \in Nat
      BY <1>2, <2>1, CalendarAssumption DEF AddDueDate, LengthOK
    <3>2. \E d : dates' = Append(dates, d)
      BY <2>1 DEF AddDueDate
    <3>3. Len(dates') = Len(dates) + 1
      BY <1>2, <3>2 DEF CalendarInv, IsSeq
    <3>. QED
      BY <3>1, <3>3 DEF LengthOK
  <2>2. CASE UNCHANGED dates
    BY <1>2, <2>2 DEF LengthOK
  <2>3. CalendarNext \/ UNCHANGED schedule
    BY <1>2, StepsOfDesks
  <2>. QED
    BY <2>1, <2>2, <2>3 DEF CalendarNext, schedule
<1>. QED
  BY <1>1, <1>2, CalendarSound, PTL DEF Spec

\* What the types of the limiter ask for.
WindowsOK ==
  /\ counter \in 0..(Limit + 1)
  /\ connected \in [Process -> {"unknown", "yes", "no"}]
  /\ DOMAIN hits = Process /\ DOMAIN serving = Process
  /\ \A p \in Process :
       /\ hits[p] = [at \in Times |-> hits[p][at]]
       /\ serving[p].does \in {"nothing", "expire", "memory"}

\* The counter, the clients and the windows of the limiter keep their types.
THEOREM WindowsSound == Spec => []WindowsOK
<1>. DEFINE Doing == {"nothing", "expire", "memory"}
<1>1. Limit \in Nat /\ Limit > 0
  BY LimiterAssumption
<1>2. ASSUME Init PROVE WindowsOK
  <2>1. /\ counter = 0 /\ connected = [p \in Process |-> "unknown"]
        /\ hits = [p \in Process |-> [at \in Times |-> 0]]
        /\ serving = [p \in Process |-> Waiting]
    BY <1>2 DEF Init, LimiterInit
  <2>. QED
    BY <1>1, <2>1 DEF WindowsOK, Waiting
<1>3. ASSUME WindowsOK, LimiterNext PROVE WindowsOK'
  <2>1. ASSUME NEW p \in Process, NEW does \in Doing, Serves(p, does)
        PROVE  /\ DOMAIN serving' = Process
               /\ \A q \in Process : serving'[q].does \in Doing
    BY <1>3, <2>1 DEF Serves, WindowsOK
  <2>2. Incremented \in 0..(Limit + 1)
    BY <1>1, <1>3 DEF Incremented, WindowsOK
  <2>3. CASE Tick \/ RedisRestarts
    <3>1. counter' \in {0, counter} /\ UNCHANGED <<connected, hits, serving>>
      BY <2>3 DEF Tick, RedisRestarts
    <3>. QED
      BY <1>1, <1>3, <3>1 DEF WindowsOK
  <2>4. ASSUME NEW p \in Process, Connect(p) PROVE WindowsOK'
    <3>1. PICK found \in {"yes", "no"} : connected' = [connected EXCEPT ![p] = found]
      BY <2>4 DEF Connect
    <3>2. UNCHANGED <<counter, hits, serving>>
      BY <2>4 DEF Connect
    <3>. QED
      BY <1>3, <3>1, <3>2 DEF WindowsOK
  <2>5. ASSUME NEW p \in Process, Incr(p) \/ Expire60(p) \/ RedisCallFails(p) PROVE WindowsOK'
    <3>1. counter' \in {counter, Incremented} /\ UNCHANGED <<connected, hits>>
      BY <2>5 DEF Incr, Expire60, RedisCallFails
    <3>2. \E does \in Doing : Serves(p, does)
      BY <2>5 DEF Incr, Expire60, RedisCallFails
    <3>. QED
      BY <1>3, <2>1, <2>2, <3>1, <3>2 DEF WindowsOK
  <2>6. ASSUME NEW p \in Process, MemoryHit(p) PROVE WindowsOK'
    <3>1. UNCHANGED <<counter, connected>> /\ Serves(p, "nothing")
      BY <2>6 DEF MemoryHit
    <3>2. PICK h : /\ h = Recent(p) \/ h = [Recent(p) EXCEPT ![clock] = @ + 1]
                   /\ hits' = [hits EXCEPT ![p] = h]
      BY <2>6 DEF MemoryHit
    <3>3. h = [at \in Times |-> h[at]]
      BY <3>2 DEF Recent
    <3>4. DOMAIN hits' = Process /\ hits'[p] = h
          /\ \A q \in Process \ {p} : hits'[q] = hits[q]
      BY <1>3, <3>2 DEF WindowsOK
    <3>. QED
      BY <1>3, <2>1, <3>1, <3>3, <3>4 DEF WindowsOK
  <2>7. ASSUME NEW p \in Process, ProcessRestarts(p) PROVE WindowsOK'
    <3>1. /\ UNCHANGED counter /\ Serves(p, "nothing")
          /\ connected' = [connected EXCEPT ![p] = "unknown"]
          /\ hits' = [hits EXCEPT ![p] = [at \in Times |-> 0]]
      BY <2>7 DEF ProcessRestarts
    <3>. QED
      BY <1>3, <2>1, <3>1 DEF WindowsOK
  <2>. QED
    BY <1>3, <2>3, <2>4, <2>5, <2>6, <2>7 DEF LimiterNext
<1>4. ASSUME WindowsOK, [Next]_vars PROVE WindowsOK'
  <2>1. CASE UNCHANGED limiter
    BY <1>4, <2>1 DEF limiter, WindowsOK
  <2>. QED
    BY <1>3, <1>4, <2>1, StepsOfDesks
<1>. QED
  BY <1>2, <1>4, PTL DEF Spec

\* The rows of accounts and entries are kept per account.
RowsKept ==
  /\ row = [a \in Account |-> row[a]]
  /\ entries = [a \in Account |-> entries[a]]

\* Accounts and entries are kept per account.
THEOREM RowsSound == Spec => []RowsKept
<1>1. ASSUME Init PROVE RowsKept
  BY <1>1 DEF Init, VerificationInit, RowsKept
<1>2. ASSUME RowsKept, VerificationNext PROVE RowsKept'
  <2>1. ASSUME NEW accounts, NEW debit, NEW credit, NEW amount,
               Posts(accounts, debit, credit, amount)
        PROVE  RowsKept'
    BY <2>1 DEF Posts, RowsKept
  <2>2. CASE PostTransaction
    BY <2>1, <2>2 DEF PostTransaction
  <2>3. ASSUME NEW a \in Account, CreateAccount(a) PROVE RowsKept'
    <3>1a. PICK opening \in Openings : \E allow \in BOOLEAN : \E accounts :
            /\ accounts = [row EXCEPT ![a] = Created(allow, opening)]
            /\ \/ row' = accounts /\ UNCHANGED entries
               \/ \E debit, credit, amount : Posts(accounts, debit, credit, amount)
      BY <2>3 DEF CreateAccount
    <3>1. PICK allow \in BOOLEAN : \E accounts :
            /\ accounts = [row EXCEPT ![a] = Created(allow, opening)]
            /\ \/ row' = accounts /\ UNCHANGED entries
               \/ \E debit, credit, amount : Posts(accounts, debit, credit, amount)
      BY <3>1a
    <3>2. CASE row' = [row EXCEPT ![a] = Created(allow, opening)] /\ UNCHANGED entries
      BY <1>2, <3>2 DEF RowsKept
    <3>. QED
      BY <2>1, <3>1, <3>2
  <2>4. CASE UNCHANGED <<row, entries>>
    BY <1>2, <2>4 DEF RowsKept
  <2>. QED
    BY <1>2, <2>2, <2>3, <2>4 DEF VerificationNext, ReadAccounts, SnapshotAccount,
      VerifyBalances, ReportDies
<1>3. ASSUME RowsKept, [Next]_vars PROVE RowsKept'
  <2>1. CASE UNCHANGED ledger
    BY <1>3, <2>1 DEF ledger, RowsKept
  <2>. QED
    BY <1>2, <1>3, <2>1, StepsOfDesks
<1>. QED
  BY <1>1, <1>3, PTL DEF Spec

\* A history stays one, and the points of an assessment are no more than a hundred
\* for each weight read.
ReadInRange(a) ==
  /\ a = [does |-> "read", rules |-> a.rules, weighted |-> a.weighted, total |-> a.total]
  /\ Ahead(a.rules)
  /\ a.total = SumFunctionOnSet(Weight, Behind(a.rules))
  /\ a.total \in Nat /\ a.weighted \in 0..(100 * a.total)

AssessmentOK(a) ==
  /\ a.does \in {"nothing", "read", "assessed"}
  /\ a.does = "read" => ReadInRange(a)
  /\ a.does = "assessed" => a.score \in Scores /\ a.decision \in {"APPROVE", "REVIEW", "REJECT"}

PointsOK == history \in History /\ AssessmentOK(assessment)

\* What other services commit leaves a history of the same form.
LEMMA HistoriesGoOn ==
  ASSUME history \in History,
         Contributes \/ Pays \/ PaymentFails \/ KycDecided \/ Borrows
  PROVE  history' \in History
<1>1. CASE Contributes
  <2>1. PICK worth \in {0, 1} :
          history' = [history EXCEPT !.contributions = @ + 1, !.payments = @ + worth]
    BY <1>1 DEF Contributes, Happens
  <2>. QED
    BY <2>1, ContributionHelps
<1>2. CASE Pays
  <2>1. \/ history' = [history EXCEPT !.payments = @ + 1]
        \/ /\ history.loans["ACTIVE"] > 0
           /\ history' = [history EXCEPT !.payments = @ + 1, !.loans["ACTIVE"] = @ - 1,
                                         !.loans["COMPLETED"] = @ + 1]
    BY <1>2 DEF Pays, Happens
  <2>. QED
    BY <2>1, PaymentKept
<1>3. CASE KycDecided
  <2>1. PICK n \in DOMAIN Verified : history' = [history EXCEPT !.level = Verified[n]]
    BY <1>3 DEF KycDecided, Happens
  <2>2. Verified[n] \in ToSet(Verified)
    BY DEF ToSet
  <2>. QED
    BY <2>1, <2>2, HistoryGoesOn
<1>4. CASE Borrows
  <2>1. history' = [history EXCEPT !.loans["ACTIVE"] = @ + 1]
    BY <1>4 DEF Borrows, Happens
  <2>2. PICK lent, more : lent = history.loans /\ more = [lent EXCEPT !["ACTIVE"] = @ + 1]
    OBVIOUS
  <2>3. more \in [ACTIVE : Nat, COMPLETED : Nat, DELINQUENT : Nat, DEFAULTED : Nat]
    BY <2>2 DEF History
  <2>4. history' = [history EXCEPT !.loans = more]
    BY <2>1, <2>2 DEF History
  <2>. QED
    BY <2>3, <2>4, HistoryGoesOn
<1>5. CASE PaymentFails
  <2>1. /\ history.payments > 0
        /\ history' = [history EXCEPT !.payments = @ - 1]
    BY <1>5 DEF PaymentFails, Happens
  <2>2. history.payments - 1 \in Nat
    <3>1. history.payments \in Nat
      BY HistoryFacts
    <3>. QED
      BY <2>1, <3>1
  <2>. QED
    BY <2>1, <2>2, HistoryGoesOn
<1>. QED
  BY <1>1, <1>2, <1>3, <1>4, <1>5

\* A rule gives at most a hundred points for each of its weight.
LEMMA EvaluationBounds ==
  ASSUME PointsOK, EvaluateRule
  PROVE  PointsOK'
<1>1. /\ assessment.does = "read" /\ assessment.rules # <<>>
      /\ UNCHANGED history /\ history \in History
  BY DEF EvaluateRule, PointsOK
<1>2. PICK a : a = assessment
  OBVIOUS
<1>3. PICK rules, weighted, total :
        rules = a.rules /\ weighted = a.weighted /\ total = a.total
  OBVIOUS
<1>4. /\ a = [does |-> "read", rules |-> rules, weighted |-> weighted, total |-> total]
      /\ Ahead(rules) /\ total = SumFunctionOnSet(Weight, Behind(rules))
      /\ total \in Nat /\ weighted \in 0..(100 * total)
  BY <1>1, <1>2, <1>3 DEF PointsOK, AssessmentOK, ReadInRange
<1>5. PICK s : s = Head(rules)
  OBVIOUS
<1>6. /\ Ahead(Tail(rules)) /\ s \in Signal \ Behind(rules)
      /\ Behind(Tail(rules)) = Behind(rules) \cup {s} /\ Behind(rules) \in SUBSET Signal
  BY <1>1, <1>2, <1>3, <1>4, <1>5, RuleByRule DEF Behind
<1>7. PICK v \in 0..100, w \in Nat : v = Evaluated(s, history) /\ w = Weight[s]
  BY <1>1, <1>6, EvaluatedFacts, Weights
<1>8. PICK next : next = assessment'
  OBVIOUS
<1>9. next = [does |-> "read", rules |-> Tail(rules), weighted |-> weighted + v * w,
              total |-> total + w]
  BY <1>2, <1>3, <1>4, <1>5, <1>7, <1>8 DEF EvaluateRule
<1>10. total + w = SumFunctionOnSet(Weight, Behind(Tail(rules)))
  <2>1. PICK W : W = Weight
    OBVIOUS
  <2>2. IsFiniteSet(Behind(rules)) /\ \A x \in Signal : W[x] \in Int
    BY <1>6, <2>1, Weights, FS_Subset
  <2>3. \A x \in Behind(rules) \cup {s} : W[x] \in Int
    BY <1>6, <2>2
  <2>4. SumFunctionOnSet(W, Behind(rules) \cup {s}) = W[s] + SumFunctionOnSet(W, Behind(rules))
    BY <1>6, <2>2, <2>3, SumAdd
  <2>. QED
    <3>1. w = W[s] /\ total = SumFunctionOnSet(W, Behind(rules))
      BY <1>4, <1>7, <2>1
    <3>2. SumFunctionOnSet(W, Behind(Tail(rules))) = w + total
      BY <1>6, <2>4, <3>1
    <3>3. w + total = total + w
      BY <1>4, <1>7
    <3>. QED
      BY <2>1, <3>2, <3>3
<1>11. v * w \in 0..(100 * w) /\ 100 * (total + w) = 100 * total + 100 * w
  <2>1. v * w <= 100 * w /\ 0 <= v * w /\ v * w \in Int
    BY <1>7
  <2>. QED
    BY <1>4, <1>7, <2>1
<1>12. weighted + v * w \in 0..(100 * (total + w)) /\ total + w \in Nat
  <2>1. PICK m \in Nat, n \in Nat : m = v * w /\ n = weighted
    BY <1>4, <1>11
  <2>2. m <= 100 * w /\ n <= 100 * total
    BY <1>4, <1>11, <2>1
  <2>. QED
    <3>1. m + n <= 100 * w + 100 * total /\ m + n \in Nat
      <4>1. w \in Nat /\ total \in Nat
        BY <1>4, <1>7
      <4>2. \A i, j, k, l \in Nat : i <= 100 * k /\ j <= 100 * l
              => i + j <= 100 * k + 100 * l /\ i + j \in Nat
        OBVIOUS
      <4>3. m \in Nat /\ n \in Nat
        BY <2>1
      <4>. QED
        BY ONLY <2>2, <4>1, <4>2, <4>3
    <3>2. 100 * (total + w) = 100 * total + 100 * w /\ 100 * w \in Nat /\ 100 * total \in Nat
      BY <1>4, <1>7
    <3>3. m + n <= 100 * (total + w) /\ 100 * (total + w) \in Int
      BY <1>4, <1>7, <3>1, <3>2
    <3>4. n + m = weighted + v * w /\ n + m = m + n
      BY <2>1
    <3>5. total + w \in Nat
      BY <1>4, <1>7
    <3>. QED
      BY <3>1, <3>3, <3>4, <3>5
<1>13. /\ next = [does |-> "read", rules |-> next.rules, weighted |-> next.weighted,
                  total |-> next.total]
       /\ next.rules = Tail(rules) /\ next.weighted = weighted + v * w
       /\ next.total = total + w /\ next.does = "read"
  BY <1>9
<1>14. AssessmentOK(next)
  BY <1>6, <1>10, <1>12, <1>13 DEF AssessmentOK, ReadInRange
<1>. QED
  BY <1>1, <1>8, <1>14 DEF PointsOK

\* The score of all rules is a percentage.
LEMMA WritingBounds ==
  ASSUME PointsOK, WriteAssessment
  PROVE  PointsOK'
<1>1. /\ assessment.does = "read" /\ assessment.rules = <<>>
      /\ UNCHANGED history /\ history \in History
  BY DEF WriteAssessment, PointsOK
<1>2. Behind(<<>>) = Signal
  <2>1. DOMAIN <<>> = {}
    OBVIOUS
  <2>. QED
    BY <2>1 DEF Behind, ToSet
<1>3. PICK weighted, total : weighted = assessment.weighted /\ total = assessment.total
  OBVIOUS
<1>4. /\ total = SumFunctionOnSet(Weight, Behind(assessment.rules))
      /\ weighted \in 0..(100 * total)
  BY <1>1, <1>3 DEF PointsOK, AssessmentOK, ReadInRange
<1>5. total = 100
  BY <1>1, <1>2, <1>4, Weights
<1>6. weighted \in Int /\ weighted \in Scores
  BY <1>4, <1>5 DEF Scores
<1>7. assessment' = [does |-> "assessed", score |-> weighted, decision |-> Decision(weighted)]
  BY <1>3, <1>5, <1>6, ScoresOf DEF WriteAssessment
<1>8. Decision(weighted) \in {"APPROVE", "REVIEW", "REJECT"}
  BY DEF Decision
<1>. QED
  BY <1>1, <1>6, <1>7, <1>8 DEF PointsOK, AssessmentOK, ReadInRange

\* However few or many active loans a customer may have, the points of an
\* assessment are within bounds.
THEOREM PointsSound == Spec => []PointsOK
<1>1. ASSUME Init PROVE PointsOK
  BY <1>1, RiskAssumption DEF Init, RiskInit, PointsOK, AssessmentOK
<1>2. ASSUME PointsOK, RiskNext PROVE PointsOK'
  <2>1. CASE StartAssessment
    <3>1. PICK rules \in RuleOrders :
            assessment' = [does |-> "read", rules |-> rules, weighted |-> 0, total |-> 0]
      BY <2>1 DEF StartAssessment
    <3>2. Ahead(rules) /\ Behind(rules) = {}
      BY RiskAssumption DEF Ahead, Behind
    <3>3. SumFunctionOnSet(Weight, {}) = 0
      BY SumEmpty
    <3>4. UNCHANGED history
      BY <2>1 DEF StartAssessment
    <3>5. PICK a : a = assessment'
      OBVIOUS
    <3>6. /\ a = [does |-> "read", rules |-> a.rules, weighted |-> a.weighted,
                   total |-> a.total]
          /\ a.rules = rules /\ a.weighted = 0 /\ a.total = 0 /\ a.does = "read"
      BY <3>1, <3>5
    <3>7. AssessmentOK(a)
      BY <3>2, <3>3, <3>6 DEF AssessmentOK, ReadInRange
    <3>. QED
      BY <1>2, <3>4, <3>5, <3>7 DEF PointsOK
  <2>2. CASE Contributes \/ Pays \/ PaymentFails \/ KycDecided \/ Borrows
    <3>1. UNCHANGED assessment
      BY <2>2 DEF Contributes, Pays, PaymentFails, KycDecided, Borrows, Happens
    <3>2. history' \in History
      BY <1>2, <2>2, HistoriesGoOn DEF PointsOK
    <3>. QED
      BY <1>2, <3>1, <3>2 DEF PointsOK
  <2>. QED
    BY <1>2, <2>1, <2>2, EvaluationBounds, WritingBounds DEF RiskNext
<1>3. ASSUME PointsOK, [Next]_vars PROVE PointsOK'
  <2>1. CASE UNCHANGED risk
    BY <1>3, <2>1 DEF risk, PointsOK
  <2>. QED
    BY <1>2, <1>3, <2>1, StepsOfDesks
<1>. QED
  BY <1>1, <1>3, PTL DEF Spec

\* Every variable of every desk keeps its type: no request, job, row or report is
\* ever in a form its service does not have.
THEOREM OfficeTyped == Spec => []TypeOK
<1>. DEFINE Typed == /\ SessionsInv /\ ReconciliationInv /\ OutboxInv /\ FilesInv
                     /\ CalendarInv /\ LengthOK /\ ListsInv /\ LimiterInv /\ WindowsOK
                     /\ VerificationInv /\ RowsKept /\ PointsOK
<1>1. Spec => [](desk \in Desk)
  <2>1. Init => desk \in Desk
    BY DEF Init
  <2>2. desk \in Desk /\ [Next]_vars => (desk \in Desk)'
    BY DEF Next, vars, AtDispatch, AtFiles, AtSessions, AtReconciliation, AtCalendar,
      AtLists, AtRisk, AtLimiter, AtVerification
  <2>. QED
    BY <2>1, <2>2, PTL DEF Spec
<1>2. ASSUME Typed, desk \in Desk PROVE TypeOK
  <2>1. SessionsTypeOK /\ ListsTypeOK
    BY <1>2 DEF SessionsInv, ListsInv
  <2>2. OutboxTypeOK
    <3>1. ASSUME NEW d \in Dispatcher
          PROVE  /\ pending[d] \subseteq DOMAIN outbox
                 /\ sending[d] # Nothing => sending[d].event \in DOMAIN outbox
      BY <1>2 DEF OutboxInv, DispatchersOK, SendingOK
    <3>2. /\ outbox \in Seq(Event) /\ messages \in Seq(Nat \X Channel)
          /\ deliveries \in Seq(Nat \X Channel \X Outcome) /\ deaths \in Seq(Nat)
      BY <1>2 DEF OutboxInv, OutboxRowsOK
    <3>. QED
      BY <3>1, <3>2 DEF OutboxTypeOK, Channel
  <2>3. FilesTypeOK
    BY <1>2 DEF FilesInv, TrailOK, ProfileOK, AlertOK, FilesTypeOK
  <2>4. ReconciliationTypeOK
    BY <1>2 DEF ReconciliationInv, BooksOK, RunsOK, Accounts, ReconciliationTypeOK
  <2>5. CalendarTypeOK
    BY <1>2 DEF CalendarInv, LengthOK, CalendarTypeOK
  <2>6. RiskTypeOK
    <3>1. history.level \in ToSet(Verified)
      BY <1>2 DEF PointsOK, History
    <3>2. AssessmentOK(assessment)
      BY <1>2 DEF PointsOK
    <3>3. assessment.does \in {"nothing", "read", "assessed"}
      BY <3>2 DEF AssessmentOK
    <3>4. assessment.does = "assessed" =>
            /\ assessment.score \in Scores
            /\ assessment.decision \in {"APPROVE", "REVIEW", "REJECT"}
      BY <3>2 DEF AssessmentOK
    <3>. QED
      BY <3>1, <3>3, <3>4 DEF RiskTypeOK
  <2>7. LimiterTypeOK
    <3>1. clock \in Times /\ expiry \in Nat \cup {Never}
      BY <1>2 DEF LimiterInv, RedisInv, AdmittedOK
    <3>2. ASSUME NEW p \in Process PROVE hits[p] \in [Times -> Nat]
      <4>1. hits[p] = [at \in Times |-> hits[p][at]]
        BY <1>2 DEF WindowsOK
      <4>2. \A at \in Times : hits[p][at] \in Nat
        BY <1>2 DEF LimiterInv, MemoryOK
      <4>. QED
        BY <4>1, <4>2
    <3>. QED
      BY <1>2, <3>1, <3>2 DEF WindowsOK, LimiterTypeOK
  <2>8. VerificationTypeOK
    <3>1. /\ row = [a \in Account |-> row[a]] /\ entries = [a \in Account |-> entries[a]]
          /\ \A a \in Account : /\ row[a] \in LedgerAccount \cup {NoRow}
                                /\ entries[a] \in Seq(LedgerEntry)
      BY <1>2 DEF VerificationInv, AccountsOK, AccountOK, RowsKept
    <3>2. report.does \in {"nothing", "snapshot", "verify"}
      BY <1>2 DEF VerificationInv, ReportOK, NoReport
    <3>. QED
      BY <3>1, <3>2 DEF VerificationTypeOK
  <2>. QED
    BY <1>2, <2>1, <2>2, <2>3, <2>4, <2>5, <2>6, <2>7, <2>8 DEF TypeOK
<1>. QED
  BY <1>1, <1>2, SessionsSound, ReconciliationSound, OutboxSound, FilesSound, CalendarSound,
    LengthSound, ListsSound, LimiterSound, WindowsSound, VerificationSound, RowsSound,
    PointsSound, PTL
=============================================================================
