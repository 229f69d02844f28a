---------------------------- MODULE AgentsProofs ----------------------------
(***************************************************************************)
(* Proofs about Agents, for any agents, workers, keys, amounts, limits and  *)
(* number of days, transactions and settlements.                            *)
(***************************************************************************)
EXTENDS Agents, SumTheorems

\* The rows: a call works on a settlement that exists, and every settlement
\* asks for something.
RowsOK ==
  /\ TypeOK
  /\ Len(settlements) <= MaxSettlements
  /\ \A w \in Worker : call[w].does \in {"reviewing", "float_checked"}
                         => call[w].row \in DOMAIN settlements
  /\ \A s \in DOMAIN settlements : settlements[s].amount > 0

\* The lock of an agent's row is held by the call that is within the agent's
\* limits, and what it checked is still so.
LockInv ==
  \A a \in Agent, w \in Worker :
    owner[a] = w <=> call[w].does = "within_limits" /\ call[w].agent = a

LimitsInv ==
  /\ LockInv
  /\ \A w \in Worker : call[w].does = "within_limits" => WithinLimits(call[w])
  /\ \A n \in DOMAIN txns : txns[n].day <= today
  /\ LimitsHold

\* A key is posted once; what a settlement's key posted is the settlement's
\* amount, and a movement of the float came with it.
KeysOnce ==
  /\ \A m, n \in DOMAIN ledger : ledger[m].key = ledger[n].key => m = n
  /\ \A n \in DOMAIN ledger :
       ledger[n].key[1] = "agentsettle" =>
         /\ ledger[n].key[2] \in DOMAIN settlements
         /\ settlements[ledger[n].key[2]].movements >= 1
  /\ \A s \in DOMAIN settlements :
       settlements[s].status = "SETTLED" =>
         \E n \in PostedAs(SettlementKey(s)) : ledger[n].legs["SETTLEMENT"] > 0
-----------------------------------------------------------------------------
(***************************************************************************)
(* What the steps do to the rows.                                          *)
(***************************************************************************)
LEMMA Constants ==
  /\ Amounts \subseteq Nat
  /\ \A amount \in Amounts : amount > 0
  /\ SingleLimit \in Nat /\ DailyCashIn \in Nat /\ DailyPayout \in Nat
  /\ MonthlyLimit \in Nat /\ MaxTransactions \in Nat /\ MaxSettlements \in Nat
  /\ LastDay \in Nat /\ LastDay >= 1
  /\ EmptyKey \notin ClientKey
  /\ Nobody \notin Worker
  BY AgentsAssumption

\* The forms of a call, by what it does.
LEMMA Calls ==
  ASSUME NEW c \in Call
  PROVE  /\ c.does \in {"nothing", "started", "within_limits", "reviewing",
                        "float_checked"}
         /\ c = Idle <=> c.does = "nothing"
         /\ c.does \in {"started", "within_limits"} =>
              c \in [does : {"started", "within_limits"}, agent : Agent,
                     kind : Kind, amount : Amounts, key : ClientKey \cup {EmptyKey}]
         /\ c.does \in {"reviewing", "float_checked"} =>
              c \in [does : {"reviewing", "float_checked"}, row : 1..MaxSettlements,
                     status : Progress]
<1>1. CASE c = Idle
  BY <1>1 DEF Idle
<1>2. CASE c \in [does : {"started", "within_limits"}, agent : Agent, kind : Kind,
                  amount : Amounts, key : ClientKey \cup {EmptyKey}]
  <2>1. c.does \in {"started", "within_limits"}
    BY <1>2
  <2>. QED
    BY <1>2, <2>1 DEF Idle
<1>3. CASE c \in [does : {"reviewing", "float_checked"}, row : 1..MaxSettlements,
                  status : Progress]
  <2>1. c.does \in {"reviewing", "float_checked"}
    BY <1>3
  <2>. QED
    BY <1>3, <2>1 DEF Idle
<1>. QED
  BY <1>1, <1>2, <1>3 DEF Call

\* The places of a sequence.
LEMMA Length ==
  ASSUME NEW S, NEW s \in Seq(S)
  PROVE  /\ Len(s) \in Nat /\ DOMAIN s = 1..Len(s)
         /\ \A n \in DOMAIN s : s[n] \in S
  OBVIOUS

\* What appending a row does to a table.
LEMMA Rows ==
  ASSUME NEW S, NEW s \in Seq(S), NEW e \in S
  PROVE  /\ Append(s, e) \in Seq(S)
         /\ Len(s) \in Nat /\ DOMAIN s = 1..Len(s)
         /\ DOMAIN Append(s, e) = 1..(Len(s) + 1)
         /\ Len(Append(s, e)) = Len(s) + 1
         /\ \A n \in DOMAIN s : Append(s, e)[n] = s[n]
         /\ Append(s, e)[Len(s) + 1] = e
  OBVIOUS

PostingKey == (Kind \X (ClientKey \cup Nat)) \cup ({"agentsettle"} \X Nat)

\* The legs of a posting are numbers.
LEMMA LegsOK ==
  /\ \A debit, credit \in Account, amount \in Int :
       Move(debit, credit, amount) \in [Account -> Int]
  /\ \A kind \in Kind, amount \in Int : Legs(kind, amount) \in [Account -> Int]
  BY DEF Move, Legs, Account, Kind

\* What post_transaction leaves: the ledger has a transaction of the key with
\* these legs, and at most one more than before, of this key.
LEMMA Posts ==
  ASSUME ledger \in Seq(Posting), NEW key \in PostingKey,
         NEW legs \in [Account -> Int], Post(key, legs)
  PROVE  /\ ledger' \in Seq(Posting)
         /\ DOMAIN ledger \subseteq DOMAIN ledger'
         /\ \A n \in DOMAIN ledger : ledger'[n] = ledger[n]
         /\ \E n \in DOMAIN ledger' : ledger'[n] = [key |-> key, legs |-> legs]
         /\ ledger' # ledger =>
              /\ PostedAs(key) = {}
              /\ DOMAIN ledger' = DOMAIN ledger \cup {Len(ledger) + 1}
              /\ ledger'[Len(ledger) + 1] = [key |-> key, legs |-> legs]
<1>. DEFINE e == [key |-> key, legs |-> legs]
<1>1. e \in Posting
  BY DEF Posting, PostingKey
<1>2. CASE PostedAs(key) = {} /\ ledger' = Append(ledger, e)
  <2>1. Len(ledger) \in Nat /\ DOMAIN ledger = 1..Len(ledger)
    OBVIOUS
  <2>. HIDE DEF e
  <2>2. /\ Append(ledger, e) \in Seq(Posting)
        /\ DOMAIN Append(ledger, e) = 1..(Len(ledger) + 1)
        /\ \A n \in DOMAIN ledger : Append(ledger, e)[n] = ledger[n]
        /\ Append(ledger, e)[Len(ledger) + 1] = e
    BY <1>1, Rows
  <2>3. \A n \in DOMAIN ledger : ledger'[n] = ledger[n]
    BY <1>2, <2>2
  <2>4. DOMAIN ledger' = DOMAIN ledger \cup {Len(ledger) + 1}
    BY <1>2, <2>1, <2>2
  <2>5. ledger'[Len(ledger) + 1] = e
    BY <1>2, <2>2
  <2>. QED
    BY <1>2, <2>2, <2>3, <2>4, <2>5 DEF e
<1>3. CASE (\E n \in PostedAs(key) : ledger[n].legs = legs) /\ ledger' = ledger
  <2>1. PICK n \in DOMAIN ledger : ledger[n].key = key /\ ledger[n].legs = legs
    BY <1>3 DEF PostedAs
  <2>2. ledger[n] \in Posting
    OBVIOUS
  <2>3. ledger[n] = [key |-> key, legs |-> legs]
    BY <2>1, <2>2 DEF Posting
  <2>. QED
    BY <1>3, <2>1, <2>3
<1>. QED
  BY <1>2, <1>3 DEF Post

\* What Collect and PayOut have in common: the row they write and its posting.
LEMMA Recorded ==
  ASSUME TypeOK, NEW w \in Worker, call[w].does = "within_limits", Records(w)
  PROVE  LET c == call[w]
             n == Len(txns) + 1
         IN /\ c.agent \in Agent /\ c.kind \in Kind /\ c.amount \in Amounts
            /\ c.key \in ClientKey \cup {EmptyKey}
            /\ TransactionKey(c.kind, c.key, n) \in PostingKey
            /\ Post(TransactionKey(c.kind, c.key, n), Legs(c.kind, c.amount))
            /\ Legs(c.kind, c.amount) \in [Account -> Int]
            /\ KeyIsFree(c.key)
            /\ txns' \in Seq(AgentTransaction)
            /\ DOMAIN txns = 1..Len(txns) /\ Len(txns) \in Nat
            /\ DOMAIN txns' = 1..n /\ Len(txns') = n
            /\ \A m \in DOMAIN txns : txns'[m] = txns[m]
            /\ txns'[n] = [agent |-> c.agent, kind |-> c.kind,
                           amount |-> c.amount, key |-> c.key, day |-> today]
<1>. DEFINE c == call[w]
            row == [agent |-> c.agent, kind |-> c.kind, amount |-> c.amount,
                    key |-> c.key, day |-> today]
<1>1. c \in Call
  BY DEF TypeOK
<1>2. /\ c.agent \in Agent /\ c.kind \in Kind /\ c.amount \in Amounts
      /\ c.key \in ClientKey \cup {EmptyKey}
  <2>. HIDE DEF c
  <2>1. c \in [does : {"started", "within_limits"}, agent : Agent, kind : Kind,
               amount : Amounts, key : ClientKey \cup {EmptyKey}]
    BY <1>1, Calls DEF c
  <2>. QED
    BY <2>1
<1>3. row \in AgentTransaction
  BY <1>2 DEF AgentTransaction, TypeOK
<1>4. txns \in Seq(AgentTransaction) /\ Len(txns) \in Nat /\ DOMAIN txns = 1..Len(txns)
  <2>1. txns \in Seq(AgentTransaction)
    BY DEF TypeOK
  <2>. QED
    BY <2>1, Length
<1>5. TransactionKey(c.kind, c.key, Len(txns) + 1) \in PostingKey
  <2>1. Len(txns) + 1 \in Nat
    BY <1>4
  <2>2. (IF c.key = EmptyKey THEN Len(txns) + 1 ELSE c.key) \in ClientKey \cup Nat
    BY <1>2, <2>1
  <2>. HIDE DEF c
  <2>. QED
    BY <1>2, <2>2 DEF TransactionKey, PostingKey
<1>6. Legs(c.kind, c.amount) \in [Account -> Int]
  <2>. HIDE DEF c
  <2>2. \A x \in Amounts : x \in Int
    BY AgentsAssumption
  <2>1. c.amount \in Int
    BY <1>2, <2>2
  <2>. QED
    BY <1>2, <2>1, LegsOK
<1>7. txns' = Append(txns, row)
  BY DEF Records
<1>8. /\ Append(txns, row) \in Seq(AgentTransaction)
      /\ DOMAIN Append(txns, row) = 1..(Len(txns) + 1)
      /\ Len(Append(txns, row)) = Len(txns) + 1
      /\ \A m \in DOMAIN txns : Append(txns, row)[m] = txns[m]
      /\ Append(txns, row)[Len(txns) + 1] = row
  <2>. HIDE DEF row
  <2>. QED
    BY <1>3, <1>4, Rows DEF AgentTransaction
<1>. QED
  BY <1>2, <1>4, <1>5, <1>6, <1>7, <1>8 DEF Records
-----------------------------------------------------------------------------
(***************************************************************************)
(* The rows keep their form.                                               *)
(***************************************************************************)
LEMMA CallsStay ==
  ASSUME TypeOK, NEW w \in Worker, NEW c \in Call, Becomes(w, c)
  PROVE  /\ call' \in [Worker -> Call]
         /\ call'[w] = c
         /\ \A v \in Worker \ {w} : call'[v] = call[v]
  BY DEF TypeOK, Becomes

\* The end of a call gives up its locks and nobody else's.
LEMMA Ended ==
  ASSUME TypeOK, NEW w \in Worker, Ends(w)
  PROVE  /\ call' \in [Worker -> Call]
         /\ call'[w] = Idle
         /\ \A v \in Worker \ {w} : call'[v] = call[v]
         /\ owner' \in [Agent -> Worker \cup {Nobody}]
         /\ \A a \in Agent : owner'[a] = IF owner[a] = w THEN Nobody ELSE owner[a]
<1>1. Idle \in Call
  BY DEF Call
<1>. QED
  BY <1>1, CallsStay DEF Ends, TypeOK

\* A float is a number.
LEMMA FloatInt ==
  ASSUME TypeOK, NEW a
  PROVE  Float(a) \in Int
<1>. DEFINE settled == {s \in DOMAIN settlements : /\ settlements[s].agent = a
                                                   /\ settlements[s].status = "SETTLED"}
            f == [n \in DOMAIN txns |-> txns[n].amount]
            g == [s \in settled |-> settlements[s].amount * settlements[s].movements]
<1>1. /\ Len(txns) \in Nat /\ DOMAIN txns = 1..Len(txns)
      /\ \A n \in DOMAIN txns : txns[n] \in AgentTransaction
  BY Length DEF TypeOK
<1>2. /\ Len(settlements) \in Nat /\ DOMAIN settlements = 1..Len(settlements)
      /\ \A s \in DOMAIN settlements : settlements[s] \in AgentSettlement
  BY Length DEF TypeOK
<1>3. \A n \in DOMAIN txns : f[n] \in Int
  <2>1. \A x \in Amounts : x \in Int
    BY AgentsAssumption
  <2>. QED
    BY <1>1, <2>1 DEF AgentTransaction
<1>4. \A s \in settled : g[s] \in Int
  BY <1>2 DEF AgentSettlement
<1>5. IsFiniteSet(DOMAIN txns) /\ IsFiniteSet(DOMAIN settlements)
  BY <1>1, <1>2, FS_Interval
<1>6. IsFiniteSet(OfKind(a, "CASH_COLLECTION")) /\ IsFiniteSet(OfKind(a, "CUSTOMER_PAYOUT"))
      /\ IsFiniteSet(settled)
  BY <1>5, FS_Subset DEF OfKind, Of
<1>7. /\ SumFunctionOnSet(f, OfKind(a, "CASH_COLLECTION")) \in Int
      /\ SumFunctionOnSet(f, OfKind(a, "CUSTOMER_PAYOUT")) \in Int
  <2>. HIDE DEF f
  <2>1. \A kind : OfKind(a, kind) \subseteq DOMAIN txns
    BY DEF OfKind, Of
  <2>. QED
    BY <1>3, <1>6, <2>1, SumInt
<1>8. SumFunctionOnSet(g, settled) \in Int
  <2>. HIDE DEF g, settled
  <2>. QED
    BY <1>4, <1>6, SumInt
<1>9. SumFunction(g) = SumFunctionOnSet(g, settled)
  BY DEF SumFunction
<1>. QED
  BY <1>7, <1>8, <1>9 DEF Float, Volume

\* At the beginning there are no rows.
LEMMA RowsInit == Init => RowsOK
<1>. SUFFICES ASSUME Init PROVE RowsOK
  OBVIOUS
<1>1. Idle \in Call /\ Idle.does = "nothing"
  BY DEF Call, Idle
<1>2. 1 \in 1..LastDay /\ MaxSettlements \in Nat
  BY Constants
<1>. QED
  BY <1>1, <1>2 DEF Init, RowsOK, TypeOK, Standing

\* Review, CheckFloat and Approve serve a call whose row exists.
LEMMA OfficersCall ==
  ASSUME RowsOK, NEW w \in Worker, call[w].does \in {"reviewing", "float_checked"}
  PROVE  /\ call[w].row \in DOMAIN settlements
         /\ call[w] \in [does : {"reviewing", "float_checked"},
                         row : 1..MaxSettlements, status : Progress]
         /\ settlements[call[w].row] \in AgentSettlement
  BY Calls, Length DEF RowsOK, TypeOK

\* Every step keeps the form of the rows.
LEMMA RowsInductive ==
  ASSUME RowsOK, [Next]_vars
  PROVE  RowsOK'
<1>0. /\ Len(settlements) \in Nat /\ DOMAIN settlements = 1..Len(settlements)
      /\ settlements \in Seq(AgentSettlement) /\ ledger \in Seq(Posting)
  BY Length DEF RowsOK, TypeOK
<1>1. CASE UNCHANGED vars
  BY <1>1 DEF RowsOK, TypeOK, vars
<1>2. CASE NextDay
  BY <1>2, Constants DEF NextDay, RowsOK, TypeOK
<1>3. ASSUME NEW a \in Agent, RequestSettlement(a)
      PROVE  RowsOK'
  <2>1. PICK amount \in Amounts \cup {Float(a)} :
          /\ amount > 0
          /\ settlements' = Append(settlements,
               [agent |-> a, amount |-> amount, status |-> "SETTLEMENT_REQUESTED",
                movements |-> 0])
    BY <1>3 DEF RequestSettlement
  <2>. DEFINE row == [agent |-> a, amount |-> amount,
                      status |-> "SETTLEMENT_REQUESTED", movements |-> 0]
  <2>2. amount \in Nat
    <3>1. \A x \in Amounts : x \in Nat
      BY AgentsAssumption
    <3>2. Float(a) \in Int
      BY FloatInt DEF RowsOK
    <3>. HIDE DEF Float
    <3>. QED
      BY <2>1, <3>1, <3>2
  <2>3. row \in AgentSettlement
    BY <2>2 DEF AgentSettlement, Progress
  <2>4. /\ settlements' \in Seq(AgentSettlement)
        /\ Len(settlements') = Len(settlements) + 1
        /\ DOMAIN settlements' = 1..(Len(settlements) + 1)
        /\ \A s \in DOMAIN settlements : settlements'[s] = settlements[s]
        /\ settlements'[Len(settlements) + 1] = row
    <3>. HIDE DEF row
    <3>1. settlements' = Append(settlements, row)
      BY <2>1 DEF row
    <3>. QED
      BY <1>0, <2>3, <3>1, Rows
  <2>5. \A s \in DOMAIN settlements' : settlements'[s].amount > 0
    <3>1. row.amount > 0
      BY <2>1
    <3>. HIDE DEF row
    <3>. QED
      BY <1>0, <2>4, <3>1 DEF RowsOK
  <2>6. Len(settlements') <= MaxSettlements
    BY <1>0, <1>3, <2>4, Constants DEF RequestSettlement
  <2>. QED
    BY <1>0, <1>3, <2>4, <2>5, <2>6 DEF RequestSettlement, RowsOK, TypeOK
<1>4. ASSUME NEW a \in Agent, SetAgentStatus(a)
      PROVE  RowsOK'
  BY <1>4 DEF SetAgentStatus, RowsOK, TypeOK
<1>5. ASSUME NEW w \in Worker, NEW kind \in Kind, Starts(w, kind)
      PROVE  RowsOK'
  <2>1. PICK a \in Agent, amount \in Amounts, k \in ClientKey \cup {EmptyKey} :
          Becomes(w, [does |-> "started", agent |-> a, kind |-> kind,
                      amount |-> amount, key |-> k])
    BY <1>5 DEF Starts
  <2>. DEFINE c == [does |-> "started", agent |-> a, kind |-> kind,
                    amount |-> amount, key |-> k]
  <2>2. c \in Call /\ c.does = "started"
    BY DEF Call
  <2>. HIDE DEF c
  <2>3. Becomes(w, c)
    BY <2>1 DEF c
  <2>4. /\ call' \in [Worker -> Call] /\ call'[w] = c
        /\ \A v \in Worker \ {w} : call'[v] = call[v]
    BY <2>2, <2>3, CallsStay DEF RowsOK
  <2>. QED
    BY <1>5, <2>2, <2>4 DEF Starts, RowsOK, TypeOK
<1>6. ASSUME NEW w \in Worker, LockAndCheck(w)
      PROVE  RowsOK'
  <2>. DEFINE c == [call[w] EXCEPT !.does = "within_limits"]
  <2>1. call[w] \in [does : {"started", "within_limits"}, agent : Agent, kind : Kind,
                     amount : Amounts, key : ClientKey \cup {EmptyKey}]
    BY <1>6, Calls DEF LockAndCheck, RowsOK, TypeOK
  <2>2. c \in Call /\ c.does = "within_limits" /\ call[w].agent \in Agent
    BY <2>1 DEF Call
  <2>. HIDE DEF c
  <2>3. Becomes(w, c)
    BY <1>6 DEF LockAndCheck, c
  <2>4. /\ call' \in [Worker -> Call] /\ call'[w] = c
        /\ \A v \in Worker \ {w} : call'[v] = call[v]
    BY <2>2, <2>3, CallsStay DEF RowsOK
  <2>. QED
    BY <1>6, <2>2, <2>4 DEF LockAndCheck, RowsOK, TypeOK
<1>7. ASSUME NEW w \in Worker, Collect(w) \/ PayOut(w)
      PROVE  RowsOK'
  <2>0. TypeOK /\ Records(w) /\ call[w].does = "within_limits" /\ Ends(w)
    BY <1>7 DEF Collect, PayOut, RowsOK
  <2>1. txns' \in Seq(AgentTransaction) /\ ledger' \in Seq(Posting)
    BY <2>0, <1>0, Recorded, Posts
  <2>2. /\ call' \in [Worker -> Call] /\ call'[w] = Idle
        /\ \A v \in Worker \ {w} : call'[v] = call[v]
        /\ owner' \in [Agent -> Worker \cup {Nobody}]
    BY <2>0, Ended
  <2>3. Idle.does = "nothing"
    BY DEF Idle
  <2>. QED
    BY <1>7, <2>1, <2>2, <2>3 DEF Collect, PayOut, RowsOK, TypeOK
<1>8. ASSUME NEW w \in Worker, GiveUp(w)
      PROVE  RowsOK'
  <2>1. /\ call' \in [Worker -> Call] /\ call'[w] = Idle
        /\ \A v \in Worker \ {w} : call'[v] = call[v]
        /\ owner' \in [Agent -> Worker \cup {Nobody}]
    BY <1>8, Ended DEF GiveUp, RowsOK
  <2>2. Idle.does = "nothing"
    BY DEF Idle
  <2>. QED
    BY <1>8, <2>1, <2>2 DEF GiveUp, RowsOK, TypeOK
<1>9. ASSUME NEW w \in Worker, OpenSettlement(w)
      PROVE  RowsOK'
  <2>1. PICK s \in DOMAIN settlements :
          Becomes(w, [does |-> "reviewing", row |-> s,
                      status |-> settlements[s].status])
    BY <1>9 DEF OpenSettlement
  <2>. DEFINE c == [does |-> "reviewing", row |-> s,
                    status |-> settlements[s].status]
  <2>2. s \in 1..MaxSettlements /\ settlements[s].status \in Progress
    <3>1. settlements[s] \in AgentSettlement
      BY <1>0
    <3>2. MaxSettlements \in Nat /\ Len(settlements) <= MaxSettlements
      BY Constants DEF RowsOK
    <3>. QED
      BY <1>0, <3>1, <3>2 DEF AgentSettlement
  <2>3. c \in Call /\ c.does = "reviewing" /\ c.row = s
    BY <2>2 DEF Call
  <2>. HIDE DEF c
  <2>4. Becomes(w, c)
    BY <2>1 DEF c
  <2>5. /\ call' \in [Worker -> Call] /\ call'[w] = c
        /\ \A v \in Worker \ {w} : call'[v] = call[v]
    BY <2>3, <2>4, CallsStay DEF RowsOK
  <2>. QED
    BY <1>9, <2>3, <2>5 DEF OpenSettlement, RowsOK, TypeOK
<1>10. ASSUME NEW w \in Worker, Review(w)
       PROVE  RowsOK'
  <2>. DEFINE c == [call[w] EXCEPT !.status = "UNDER_REVIEW"]
              r == call[w].row
  <2>1. /\ r \in DOMAIN settlements
        /\ call[w] \in [does : {"reviewing", "float_checked"},
                        row : 1..MaxSettlements, status : Progress]
    BY <1>10, OfficersCall DEF Review
  <2>2. c \in Call /\ c.does \in {"reviewing", "float_checked"} /\ c.row = r
    BY <2>1 DEF Call, Progress
  <2>. HIDE DEF c
  <2>3. Becomes(w, c)
    BY <1>10 DEF Review, c
  <2>4. /\ call' \in [Worker -> Call] /\ call'[w] = c
        /\ \A v \in Worker \ {w} : call'[v] = call[v]
    BY <2>2, <2>3, CallsStay DEF RowsOK
  <2>5. settlements' = [settlements EXCEPT ![r].status = "UNDER_REVIEW"]
    BY <1>10 DEF Review
  <2>6. /\ settlements' \in Seq(AgentSettlement)
        /\ Len(settlements') = Len(settlements)
        /\ DOMAIN settlements' = DOMAIN settlements
        /\ \A s \in DOMAIN settlements : settlements'[s].amount = settlements[s].amount
    <3>. HIDE DEF r
    <3>0. settlements[r] \in AgentSettlement
      BY <1>0, <2>1, Length
    <3>1. [settlements[r] EXCEPT !.status = "UNDER_REVIEW"] \in AgentSettlement
      BY <3>0 DEF AgentSettlement, Progress
    <3>. QED
      BY <1>0, <2>1, <2>5, <3>1
  <2>. QED
    BY <1>10, <2>1, <2>2, <2>4, <2>6 DEF Review, RowsOK, TypeOK
<1>11. ASSUME NEW w \in Worker, CheckFloat(w)
       PROVE  RowsOK'
  <2>. DEFINE c == [call[w] EXCEPT !.does = "float_checked"]
  <2>1. /\ call[w].row \in DOMAIN settlements
        /\ call[w] \in [does : {"reviewing", "float_checked"},
                        row : 1..MaxSettlements, status : Progress]
    BY <1>11, OfficersCall DEF CheckFloat
  <2>2. c \in Call /\ c.does = "float_checked" /\ c.row = call[w].row
    BY <2>1 DEF Call
  <2>. HIDE DEF c
  <2>3. Becomes(w, c)
    BY <1>11 DEF CheckFloat, c
  <2>4. /\ call' \in [Worker -> Call] /\ call'[w] = c
        /\ \A v \in Worker \ {w} : call'[v] = call[v]
    BY <2>2, <2>3, CallsStay DEF RowsOK
  <2>. QED
    BY <1>11, <2>1, <2>2, <2>4 DEF CheckFloat, RowsOK, TypeOK
<1>12. ASSUME NEW w \in Worker, Approve(w)
       PROVE  RowsOK'
  <2>. DEFINE r == call[w].row
  <2>1. r \in DOMAIN settlements /\ settlements[r] \in AgentSettlement
    BY <1>12, OfficersCall DEF Approve
  <2>2. settlements' = [settlements EXCEPT ![r].movements = MovementsAfter(r),
                                           ![r].status = "SETTLED"]
    BY <1>12 DEF Approve
  <2>3. /\ settlements' \in Seq(AgentSettlement)
        /\ Len(settlements') = Len(settlements)
        /\ DOMAIN settlements' = DOMAIN settlements
        /\ \A s \in DOMAIN settlements : settlements'[s].amount = settlements[s].amount
    <3>. HIDE DEF r
    <3>. DEFINE row == [settlements[r] EXCEPT !.movements = MovementsAfter(r),
                                              !.status = "SETTLED"]
    <3>1. MovementsAfter(r) \in Nat
      BY <2>1 DEF AgentSettlement, MovementsAfter
    <3>2. row \in AgentSettlement /\ row.amount = settlements[r].amount
      BY <2>1, <3>1 DEF AgentSettlement, Progress
    <3>3. settlements' = [settlements EXCEPT ![r] = row]
      BY <1>0, <2>1, <2>2
    <3>. HIDE DEF row
    <3>. QED
      BY <1>0, <2>1, <3>2, <3>3
  <2>4. ledger' \in Seq(Posting)
    <3>1. SettlementKey(r) \in PostingKey
      BY <1>0, <2>1 DEF SettlementKey, PostingKey
    <3>2. Move("SETTLEMENT", "CASH_IN_HAND", settlements[r].amount) \in [Account -> Int]
      <4>1. settlements[r].amount \in Int
        BY <2>1 DEF AgentSettlement
      <4>. HIDE DEF r
      <4>. QED
        BY <4>1, LegsOK DEF Account
    <3>3. Post(SettlementKey(r), Move("SETTLEMENT", "CASH_IN_HAND", settlements[r].amount))
      BY <1>12 DEF Approve
    <3>. QED
      BY <1>0, <3>1, <3>2, <3>3, Posts
  <2>5. /\ call' \in [Worker -> Call] /\ call'[w] = Idle
        /\ \A v \in Worker \ {w} : call'[v] = call[v]
        /\ owner' \in [Agent -> Worker \cup {Nobody}]
    BY <1>12, Ended DEF Approve, RowsOK
  <2>6. Idle.does = "nothing"
    BY DEF Idle
  <2>. QED
    BY <1>12, <2>3, <2>4, <2>5, <2>6 DEF Approve, RowsOK, TypeOK
<1>. QED
  BY <1>1, <1>2, <1>3, <1>4, <1>5, <1>6, <1>7, <1>8, <1>9, <1>10, <1>11, <1>12
  DEF Next, StartCollection, StartPayout, Kind

\* The rows of agents, transactions, settlements and postings keep their form.
THEOREM AgentsTyped == Spec => []TypeOK
<1>1. RowsOK => TypeOK
  BY DEF RowsOK
<1>. QED
  BY <1>1, RowsInit, RowsInductive, PTL DEF Spec
-----------------------------------------------------------------------------
(***************************************************************************)
(* Keys: what is posted once and what is handed over once.                 *)
(***************************************************************************)
\* How the settlements change: a new one that nothing has moved for, or one
\* whose movements do not shrink.
LEMMA SettlementsGrow ==
  ASSUME RowsOK, [Next]_vars,
         ~ \E w \in Worker : Approve(w)
  PROVE  /\ DOMAIN settlements \subseteq DOMAIN settlements'
         /\ \A s \in DOMAIN settlements :
              settlements'[s].movements = settlements[s].movements
         /\ \A s \in DOMAIN settlements' :
              settlements'[s].status = "SETTLED" =>
                s \in DOMAIN settlements /\ settlements[s].status = "SETTLED"
<1>0. /\ Len(settlements) \in Nat /\ DOMAIN settlements = 1..Len(settlements)
      /\ \A s \in DOMAIN settlements : settlements[s] \in AgentSettlement
      /\ settlements \in Seq(AgentSettlement)
  BY Length DEF RowsOK, TypeOK
<1>1. ASSUME NEW a \in Agent, RequestSettlement(a)
      PROVE  /\ DOMAIN settlements \subseteq DOMAIN settlements'
             /\ \A s \in DOMAIN settlements : settlements'[s] = settlements[s]
             /\ \A s \in DOMAIN settlements' :
                  s \notin DOMAIN settlements => settlements'[s].status # "SETTLED"
  <2>1. PICK amount :
          settlements' = Append(settlements,
               [agent |-> a, amount |-> amount, status |-> "SETTLEMENT_REQUESTED",
                movements |-> 0])
    BY <1>1 DEF RequestSettlement
  <2>. QED
    BY <1>0, <2>1
<1>2. ASSUME NEW w \in Worker, Review(w)
      PROVE  /\ DOMAIN settlements = DOMAIN settlements'
             /\ \A s \in DOMAIN settlements :
                  /\ settlements'[s].movements = settlements[s].movements
                  /\ settlements'[s].status \in {settlements[s].status, "UNDER_REVIEW"}
  <2>1. call[w].row \in DOMAIN settlements
    BY <1>2, OfficersCall DEF Review
  <2>2. \A s \in DOMAIN settlements :
          settlements'[s] = IF s = call[w].row
                            THEN [settlements[s] EXCEPT !.status = "UNDER_REVIEW"]
                            ELSE settlements[s]
    BY <1>0, <1>2, <2>1 DEF Review
  <2>3. DOMAIN settlements' = DOMAIN settlements
    BY <1>2 DEF Review
  <2>4. \A s \in DOMAIN settlements :
          LET row == [settlements[s] EXCEPT !.status = "UNDER_REVIEW"]
          IN row.movements = settlements[s].movements /\ row.status = "UNDER_REVIEW"
    BY <1>0 DEF AgentSettlement
  <2>. QED
    BY <2>2, <2>3, <2>4
<1>3. CASE UNCHANGED settlements
  BY <1>3
<1>. QED
  BY <1>1, <1>2, <1>3
  DEF Next, vars, NextDay, SetAgentStatus, StartCollection, StartPayout, Starts,
      LockAndCheck, Collect, PayOut, GiveUp, OpenSettlement, CheckFloat

\* A settlement's key is never a transaction's.
LEMMA KeyParts ==
  /\ \A k \in PostingKey : k = <<k[1], k[2]>>
  /\ \A kind \in Kind : \A k, n : TransactionKey(kind, k, n)[1] # "agentsettle"
  /\ \A s : SettlementKey(s) = <<"agentsettle", s>>
  BY DEF PostingKey, Kind, TransactionKey, SettlementKey

\* Every step keeps the keys apart.
LEMMA KeysInductive ==
  ASSUME RowsOK, KeysOnce, [Next]_vars
  PROVE  KeysOnce'
<1>0. /\ ledger \in Seq(Posting) /\ Len(ledger) \in Nat /\ DOMAIN ledger = 1..Len(ledger)
      /\ \A n \in DOMAIN ledger : ledger[n] \in Posting
  BY Length DEF RowsOK, TypeOK
<1>1. ASSUME NEW w \in Worker, Approve(w)
      PROVE  KeysOnce'
  <2>. DEFINE r == call[w].row
              legs == Move("SETTLEMENT", "CASH_IN_HAND", settlements[r].amount)
  <2>1. /\ r \in DOMAIN settlements /\ settlements[r] \in AgentSettlement
        /\ settlements[r].amount > 0
    BY <1>1, OfficersCall DEF Approve, RowsOK
  <2>2. SettlementKey(r) \in PostingKey /\ legs \in [Account -> Int]
        /\ legs["SETTLEMENT"] > 0
    <3>1. r \in Nat
      BY <2>1, Length DEF RowsOK, TypeOK
    <3>2. settlements[r].amount \in Int
      BY <2>1 DEF AgentSettlement
    <3>3. legs["SETTLEMENT"] = settlements[r].amount
      BY DEF Move, Account
    <3>. HIDE DEF r
    <3>. QED
      BY <2>1, <3>1, <3>2, <3>3, LegsOK DEF SettlementKey, PostingKey, Account
  <2>3. /\ DOMAIN settlements' = DOMAIN settlements
        /\ \A s \in DOMAIN settlements \ {r} : settlements'[s] = settlements[s]
        /\ settlements'[r].movements = settlements[r].movements + 1
    BY <1>1, <2>1 DEF Approve, MovementsAfter, AgentSettlement
  <2>4. Post(SettlementKey(r), legs)
    BY <1>1 DEF Approve
  <2>. HIDE DEF legs
  <2>5. /\ DOMAIN ledger \subseteq DOMAIN ledger'
        /\ \A n \in DOMAIN ledger : ledger'[n] = ledger[n]
        /\ \E n \in DOMAIN ledger' :
             ledger'[n] = [key |-> SettlementKey(r), legs |-> legs]
        /\ ledger' # ledger =>
             /\ PostedAs(SettlementKey(r)) = {}
             /\ DOMAIN ledger' = DOMAIN ledger \cup {Len(ledger) + 1}
             /\ ledger'[Len(ledger) + 1] = [key |-> SettlementKey(r), legs |-> legs]
    BY <1>0, <2>2, <2>4, Posts
  <2>6. settlements[r].movements \in Nat
    BY <2>1 DEF AgentSettlement
  <2>7. \A m, n \in DOMAIN ledger' : ledger'[m].key = ledger'[n].key => m = n
    BY <1>0, <2>5 DEF KeysOnce, PostedAs
  <2>8. \A n \in DOMAIN ledger' :
          ledger'[n].key[1] = "agentsettle" =>
            /\ ledger'[n].key[2] \in DOMAIN settlements'
            /\ settlements'[ledger'[n].key[2]].movements >= 1
    <3>1. ASSUME NEW n \in DOMAIN ledger, ledger[n].key[1] = "agentsettle"
          PROVE  /\ ledger'[n].key[2] \in DOMAIN settlements'
                 /\ settlements'[ledger'[n].key[2]].movements >= 1
      BY <2>3, <2>5, <2>6, <3>1 DEF KeysOnce
    <3>2. SettlementKey(r)[2] \in DOMAIN settlements'
          /\ settlements'[SettlementKey(r)[2]].movements >= 1
      BY <2>1, <2>3, <2>6, KeyParts
    <3>. QED
      BY <2>5, <3>1, <3>2
  <2>9. ASSUME NEW s \in DOMAIN settlements', settlements'[s].status = "SETTLED"
        PROVE  \E n \in DOMAIN ledger' : /\ ledger'[n].key = SettlementKey(s)
                                         /\ ledger'[n].legs["SETTLEMENT"] > 0
    <3>1. CASE s = r
      BY <2>2, <2>5, <3>1
    <3>2. CASE s # r
      BY <2>3, <2>5, <2>9, <3>2 DEF KeysOnce, PostedAs
    <3>. QED
      BY <3>1, <3>2
  <2>. QED
    BY <2>7, <2>8, <2>9 DEF KeysOnce, PostedAs, SettlementKey
<1>2. ASSUME ~ \E w \in Worker : Approve(w),
             NEW w \in Worker, Collect(w) \/ PayOut(w)
      PROVE  KeysOnce'
  <2>. DEFINE key == TransactionKey(call[w].kind, call[w].key, Len(txns) + 1)
              legs == Legs(call[w].kind, call[w].amount)
  <2>1. /\ key \in PostingKey /\ legs \in [Account -> Int] /\ Post(key, legs)
        /\ key[1] # "agentsettle"
    <3>1. TypeOK /\ Records(w) /\ call[w].does = "within_limits"
      BY <1>2 DEF Collect, PayOut, RowsOK
    <3>2. /\ key \in PostingKey /\ legs \in [Account -> Int] /\ Post(key, legs)
          /\ call[w].kind \in Kind
      BY <3>1, Recorded
    <3>. QED
      BY <3>2, KeyParts
  <2>. HIDE DEF key, legs
  <2>2. /\ DOMAIN ledger \subseteq DOMAIN ledger'
        /\ \A n \in DOMAIN ledger : ledger'[n] = ledger[n]
        /\ ledger' # ledger =>
             /\ PostedAs(key) = {}
             /\ DOMAIN ledger' = DOMAIN ledger \cup {Len(ledger) + 1}
             /\ ledger'[Len(ledger) + 1] = [key |-> key, legs |-> legs]
    BY <1>0, <2>1, Posts
  <2>3. UNCHANGED settlements
    BY <1>2 DEF Collect, PayOut
  <2>4. \A m, n \in DOMAIN ledger' : ledger'[m].key = ledger'[n].key => m = n
    BY <1>0, <2>2 DEF KeysOnce, PostedAs
  <2>5. \A n \in DOMAIN ledger' :
          ledger'[n].key[1] = "agentsettle" => n \in DOMAIN ledger
    BY <2>1, <2>2
  <2>6. \A s \in DOMAIN settlements :
          \A n \in PostedAs(SettlementKey(s)) : n \in PostedAs(SettlementKey(s))'
    BY <2>2 DEF PostedAs, SettlementKey
  <2>. QED
    BY <2>2, <2>3, <2>4, <2>5, <2>6 DEF KeysOnce, PostedAs
<1>3. CASE UNCHANGED ledger /\ ~ \E w \in Worker : Approve(w)
  <2>1. UNCHANGED ledger
    BY <1>3
  <2>2. /\ DOMAIN settlements \subseteq DOMAIN settlements'
        /\ \A s \in DOMAIN settlements :
             settlements'[s].movements = settlements[s].movements
        /\ \A s \in DOMAIN settlements' :
             settlements'[s].status = "SETTLED" =>
               s \in DOMAIN settlements /\ settlements[s].status = "SETTLED"
    BY <1>3, SettlementsGrow
  <2>. QED
    BY <2>1, <2>2 DEF KeysOnce, PostedAs, SettlementKey
<1>. QED
  BY <1>1, <1>2, <1>3
  DEF Next, vars, NextDay, SetAgentStatus, StartCollection, StartPayout, Starts,
      LockAndCheck, GiveUp, OpenSettlement, CheckFloat, RequestSettlement, Review

\* The ledger has a key once, and a settlement's keys are those of its movements.
THEOREM KeysSound == Spec => [](RowsOK /\ KeysOnce)
<1>1. Init => KeysOnce
  BY DEF Init, KeysOnce
<1>2. (RowsOK /\ KeysOnce) /\ [Next]_vars => (RowsOK /\ KeysOnce)'
  BY RowsInductive, KeysInductive
<1>. QED
  BY <1>1, <1>2, RowsInit, PTL DEF Spec

\* The cash of a settlement moves in the ledger once, and not without a
\* movement of the agent's float.
THEOREM HandedOver == Spec => []HandedOverOnce
<1>1. RowsOK /\ KeysOnce => HandedOverOnce
  <2>. SUFFICES ASSUME RowsOK, KeysOnce, NEW s \in DOMAIN settlements
                PROVE  LET posted == {n \in DOMAIN ledger :
                                        /\ ledger[n].key[1] = "agentsettle"
                                        /\ ledger[n].legs["SETTLEMENT"] > 0
                                        /\ ledger[n].key[2] = s}
                       IN /\ settlements[s].status = "SETTLED" => posted # {}
                          /\ Cardinality(posted) <= 1
                          /\ posted # {} => settlements[s].movements >= 1
    BY DEF HandedOverOnce
  <2>. DEFINE posted == {n \in DOMAIN ledger : /\ ledger[n].key[1] = "agentsettle"
                                               /\ ledger[n].legs["SETTLEMENT"] > 0
                                               /\ ledger[n].key[2] = s}
  <2>1. \A n \in DOMAIN ledger : ledger[n].key \in PostingKey
    <3>1. \A n \in DOMAIN ledger : ledger[n] \in Posting
      BY Length DEF RowsOK, TypeOK
    <3>. QED
      BY <3>1 DEF Posting, PostingKey
  <2>2. \A m, n \in posted : m = n
    BY <2>1, KeyParts DEF KeysOnce
  <2>3. posted # {} => settlements[s].movements >= 1
    BY DEF KeysOnce
  <2>4. settlements[s].status = "SETTLED" => posted # {}
    BY KeyParts DEF KeysOnce, PostedAs
  <2>. HIDE DEF posted
  <2>5. Cardinality(posted) <= 1
    <3>1. CASE posted = {}
      BY <3>1, FS_EmptySet
    <3>2. CASE posted # {}
      <4>1. PICK n : posted = {n}
        BY <2>2, <3>2
      <4>2. Cardinality({n}) = 1
        BY FS_Singleton
      <4>. QED
        BY <4>1, <4>2
    <3>. QED
      BY <3>1, <3>2
  <2>. QED
    BY <2>3, <2>4, <2>5 DEF posted
<1>. QED
  BY <1>1, KeysSound, PTL

\* Every step keeps each transaction posted.
LEMMA PostedInductive ==
  ASSUME RowsOK, TransactionsArePosted, [Next]_vars
  PROVE  TransactionsArePosted'
<1>0. /\ ledger \in Seq(Posting) /\ DOMAIN ledger = 1..Len(ledger)
      /\ txns \in Seq(AgentTransaction) /\ DOMAIN txns = 1..Len(txns)
      /\ Len(txns) \in Nat
      /\ \A n \in DOMAIN txns : txns[n].key \in ClientKey \cup {EmptyKey}
                                /\ txns[n].kind \in Kind
  <2>1. \A n \in DOMAIN txns : txns[n] \in AgentTransaction
    BY Length DEF RowsOK, TypeOK
  <2>. QED
    BY <2>1, Length DEF RowsOK, TypeOK, AgentTransaction
<1>1. ASSUME NEW w \in Worker, Collect(w) \/ PayOut(w)
      PROVE  TransactionsArePosted'
  <2>. DEFINE c == call[w]
              n == Len(txns) + 1
              key == TransactionKey(c.kind, c.key, n)
              legs == Legs(c.kind, c.amount)
  <2>1. TypeOK /\ Records(w) /\ call[w].does = "within_limits"
    BY <1>1 DEF Collect, PayOut, RowsOK
  <2>2. /\ key \in PostingKey /\ legs \in [Account -> Int] /\ Post(key, legs)
        /\ KeyIsFree(c.key)
        /\ c.kind \in Kind /\ c.key \in ClientKey \cup {EmptyKey}
        /\ DOMAIN txns' = 1..n
        /\ \A m \in DOMAIN txns : txns'[m] = txns[m]
        /\ txns'[n] = [agent |-> c.agent, kind |-> c.kind,
                       amount |-> c.amount, key |-> c.key, day |-> today]
    BY <2>1, Recorded
  <2>3. /\ DOMAIN ledger \subseteq DOMAIN ledger'
        /\ \A m \in DOMAIN ledger : ledger'[m] = ledger[m]
        /\ \E m \in DOMAIN ledger' : ledger'[m] = [key |-> key, legs |-> legs]
    <3>. HIDE DEF key, legs
    <3>. QED
      BY <1>0, <2>2, Posts
  <2>4. \A m \in DOMAIN txns :
          LET t == txns'[m]
          IN \E p \in DOMAIN ledger' :
               /\ ledger'[p].key = TransactionKey(t.kind, t.key, m)
               /\ ledger'[p].legs = Legs(t.kind, t.amount)
    BY <2>2, <2>3 DEF TransactionsArePosted, PostedAs
  <2>5. \E p \in DOMAIN ledger' :
          /\ ledger'[p].key = TransactionKey(txns'[n].kind, txns'[n].key, n)
          /\ ledger'[p].legs = Legs(txns'[n].kind, txns'[n].amount)
    BY <2>2, <2>3
  <2>6. ASSUME NEW m \in DOMAIN txns, TransactionKey(txns[m].kind, txns[m].key, m) = key
        PROVE  \/ txns[m].key = n /\ c.key = EmptyKey
               \/ c.key = m /\ txns[m].key = EmptyKey
    <3>. DEFINE k == txns[m].key
    <3>1. m # n
      BY <1>0
    <3>2. c.key # EmptyKey => k # c.key
      BY <2>2 DEF KeyIsFree, WithKey
    <3>3. (IF k = EmptyKey THEN m ELSE k) = (IF c.key = EmptyKey THEN n ELSE c.key)
      <4>. HIDE DEF c, n, k
      <4>. QED
        BY <2>6 DEF TransactionKey, key, k
    <3>. HIDE DEF c, n, k
    <3>4. \/ k = n /\ c.key = EmptyKey
          \/ c.key = m /\ k = EmptyKey
      BY <3>1, <3>2, <3>3
    <3>. QED
      BY <3>4 DEF k
  <2>7. PostedAlone'
    <3>1. DOMAIN txns' = DOMAIN txns \cup {n}
      BY <1>0, <2>2
    <3>2. txns'[n].kind = c.kind /\ txns'[n].key = c.key
      BY <2>2
    <3>3. TransactionKey(txns'[n].kind, txns'[n].key, n) = key
      BY <3>2
    <3>. HIDE DEF n, c, key
    <3>4. ASSUME NEW l \in DOMAIN txns', NEW m \in DOMAIN txns', l # m,
                 TransactionKey(txns'[l].kind, txns'[l].key, l)
                   = TransactionKey(txns'[m].kind, txns'[m].key, m)
          PROVE  \/ txns'[l].key = m /\ txns'[m].key = EmptyKey
                 \/ txns'[m].key = l /\ txns'[l].key = EmptyKey
      <4>1. CASE l \in DOMAIN txns /\ m \in DOMAIN txns
        BY <2>2, <3>4, <4>1 DEF TransactionsArePosted, PostedAlone, TookReference
      <4>2. CASE l = n
        <5>1. m \in DOMAIN txns /\ txns'[m] = txns[m]
          BY <2>2, <3>1, <3>4, <4>2
        <5>2. TransactionKey(txns[m].kind, txns[m].key, m) = key
          BY <3>3, <3>4, <4>2, <5>1
        <5>. QED
          BY <2>6, <3>2, <4>2, <5>1, <5>2
      <4>3. CASE m = n
        <5>1. l \in DOMAIN txns /\ txns'[l] = txns[l]
          BY <2>2, <3>1, <3>4, <4>3
        <5>2. TransactionKey(txns[l].kind, txns[l].key, l) = key
          BY <3>3, <3>4, <4>3, <5>1
        <5>. QED
          BY <2>6, <3>2, <4>3, <5>1, <5>2
      <4>. QED
        BY <3>1, <4>1, <4>2, <4>3
    <3>5. \A l, m \in DOMAIN txns' :
            l # m /\ TransactionKey(txns'[l].kind, txns'[l].key, l)
                       = TransactionKey(txns'[m].kind, txns'[m].key, m)
              => \/ txns'[l].key = m /\ txns'[m].key = EmptyKey
                 \/ txns'[m].key = l /\ txns'[l].key = EmptyKey
      BY <3>4
    <3>. QED
      BY <3>5 DEF PostedAlone, TookReference, TransactionKey
  <2>8. DOMAIN txns' = DOMAIN txns \cup {n}
    BY <1>0, <2>2
  <2>. HIDE DEF n, c, key, legs
  <2>9. \A m \in DOMAIN txns' :
          LET t == txns'[m]
          IN \E p \in DOMAIN ledger' :
               /\ ledger'[p].key = TransactionKey(t.kind, t.key, m)
               /\ ledger'[p].legs = Legs(t.kind, t.amount)
    BY <2>4, <2>5, <2>8
  <2>. QED
    BY <2>7, <2>9 DEF TransactionsArePosted, PostedAs, TransactionKey, Legs, Move
<1>2. ASSUME NEW w \in Worker, Approve(w)
      PROVE  TransactionsArePosted'
  <2>. DEFINE r == call[w].row
              key == SettlementKey(r)
              legs == Move("SETTLEMENT", "CASH_IN_HAND", settlements[r].amount)
  <2>1. r \in DOMAIN settlements /\ settlements[r] \in AgentSettlement
    BY <1>2, OfficersCall DEF Approve
  <2>2. key \in PostingKey /\ legs \in [Account -> Int] /\ Post(key, legs)
    <3>1. r \in Nat
      BY <2>1, Length DEF RowsOK, TypeOK
    <3>2. settlements[r].amount \in Int
      BY <2>1 DEF AgentSettlement
    <3>3. Post(key, legs)
      BY <1>2 DEF Approve
    <3>. HIDE DEF r
    <3>. QED
      BY <3>1, <3>2, <3>3, LegsOK DEF SettlementKey, PostingKey, Account
  <2>. HIDE DEF key, legs
  <2>3. /\ DOMAIN ledger \subseteq DOMAIN ledger'
        /\ \A m \in DOMAIN ledger : ledger'[m] = ledger[m]
    BY <1>0, <2>2, Posts
  <2>4. UNCHANGED txns
    BY <1>2 DEF Approve
  <2>5. ASSUME NEW n \in DOMAIN txns
        PROVE  \E p \in DOMAIN ledger' :
                 /\ ledger'[p].key = TransactionKey(txns'[n].kind, txns'[n].key, n)
                 /\ ledger'[p].legs = Legs(txns'[n].kind, txns'[n].amount)
    <3>1. PICK p \in DOMAIN ledger :
            /\ ledger[p].key = TransactionKey(txns[n].kind, txns[n].key, n)
            /\ ledger[p].legs = Legs(txns[n].kind, txns[n].amount)
      BY DEF TransactionsArePosted, PostedAs
    <3>. QED
      BY <2>3, <2>4, <3>1
  <2>6. PostedAlone'
    BY <2>4 DEF TransactionsArePosted, PostedAlone, TookReference, TransactionKey
  <2>7. \A m \in DOMAIN txns' :
          LET t == txns'[m]
          IN \E p \in DOMAIN ledger' :
               /\ ledger'[p].key = TransactionKey(t.kind, t.key, m)
               /\ ledger'[p].legs = Legs(t.kind, t.amount)
    BY <2>4, <2>5
  <2>. QED
    BY <2>6, <2>7 DEF TransactionsArePosted, PostedAs, TransactionKey, Legs, Move
<1>3. CASE UNCHANGED <<txns, ledger>>
  <2>1. PostedAlone'
    BY <1>3 DEF TransactionsArePosted, PostedAlone, TookReference, TransactionKey
  <2>. QED
    BY <1>3, <2>1 DEF TransactionsArePosted, PostedAs, TransactionKey, Legs, Move
<1>. QED
  BY <1>1, <1>2, <1>3
  DEF Next, vars, NextDay, SetAgentStatus, StartCollection, StartPayout, Starts,
      LockAndCheck, GiveUp, OpenSettlement, CheckFloat, RequestSettlement, Review

\* Every transaction an agent is told of is posted as it says, and two share a
\* posting only if the key of one is the reference of the other.
THEOREM Posted == Spec => []TransactionsArePosted
<1>1. Init => TransactionsArePosted
  BY DEF Init, TransactionsArePosted, PostedAlone
<1>2. (RowsOK /\ TransactionsArePosted) /\ [Next]_vars
        => (RowsOK /\ TransactionsArePosted)'
  BY RowsInductive, PostedInductive
<1>. QED
  BY <1>1, <1>2, RowsInit, PTL DEF Spec
-----------------------------------------------------------------------------
(***************************************************************************)
(* Limits.                                                                 *)
(***************************************************************************)
Total(t, rows) == SumFunctionOnSet([n \in DOMAIN t |-> t[n].amount], rows)
TheirDay(t, a, kind, day) ==
  {n \in DOMAIN t : t[n].agent = a /\ t[n].kind = kind /\ t[n].day = day}
TheirFirst(t, a, last) == {n \in DOMAIN t : t[n].agent = a /\ n <= last}

Limits(t) ==
  \A a \in Agent :
    /\ \A day \in 1..LastDay :
         /\ Total(t, TheirDay(t, a, "CASH_COLLECTION", day)) <= DailyCashIn
         /\ Total(t, TheirDay(t, a, "CUSTOMER_PAYOUT", day)) <= DailyPayout
    /\ \A n \in DOMAIN t :
         t[n].agent = a /\ t[n].kind = "CASH_COLLECTION"
           => Total(t, TheirFirst(t, a, n)) <= MonthlyLimit

Allowed(t, day, c) ==
  IF c.kind = "CASH_COLLECTION"
  THEN /\ Total(t, TheirDay(t, c.agent, "CASH_COLLECTION", day)) + c.amount <= DailyCashIn
       /\ Total(t, TheirFirst(t, c.agent, Len(t))) + c.amount <= MonthlyLimit
  ELSE Total(t, TheirDay(t, c.agent, "CUSTOMER_PAYOUT", day)) + c.amount <= DailyPayout

\* The limits, of the rows before and after a step.
LEMMA LimitsRestated ==
  /\ LimitsHold <=> Limits(txns)
  /\ LimitsHold' <=> Limits(txns')
<1>1. /\ \A a, kind, day : OnDay(a, kind, day) = TheirDay(txns, a, kind, day)
      /\ \A a, last : Upto(a, last) = TheirFirst(txns, a, last)
      /\ \A rows : Volume(rows) = Total(txns, rows)
      /\ \A a, kind, n :
           n \in OfKind(a, kind)
             <=> n \in DOMAIN txns /\ txns[n].agent = a /\ txns[n].kind = kind
  BY DEF OfKind, Of, OnDay, TheirDay, Upto, TheirFirst, Volume, Total
<1>2. LimitsHold <=> Limits(txns)
  BY <1>1 DEF LimitsHold, Limits
<1>3. /\ \A a, kind, day : OnDay(a, kind, day)' = TheirDay(txns', a, kind, day)
      /\ \A a, last : Upto(a, last)' = TheirFirst(txns', a, last)
      /\ \A rows : Volume(rows)' = Total(txns', rows)
      /\ \A a, kind, n :
           n \in OfKind(a, kind)'
             <=> n \in DOMAIN txns' /\ txns'[n].agent = a /\ txns'[n].kind = kind
  BY DEF OfKind, Of, OnDay, TheirDay, Upto, TheirFirst, Volume, Total
<1>4. LimitsHold' <=> Limits(txns')
  BY <1>3 DEF LimitsHold, Limits
<1>. QED
  BY <1>2, <1>4

\* A row more adds its amount to the sums it is part of.
LEMMA TotalAppend ==
  ASSUME NEW t \in Seq(AgentTransaction), NEW u \in Seq(AgentTransaction),
         Len(u) = Len(t) + 1, \A n \in DOMAIN t : u[n] = t[n],
         NEW rows \in SUBSET DOMAIN t
  PROVE  /\ Total(t, rows) \in Nat
         /\ Total(u, rows) = Total(t, rows)
         /\ Total(u, rows \cup {Len(u)}) = Total(t, rows) + u[Len(u)].amount
<1>. DEFINE f == [n \in DOMAIN t |-> t[n].amount]
            g == [n \in DOMAIN u |-> u[n].amount]
<1>1. /\ Len(t) \in Nat /\ DOMAIN t = 1..Len(t) /\ DOMAIN u = 1..Len(t) + 1
      /\ \A n \in DOMAIN t : t[n] \in AgentTransaction
      /\ \A n \in DOMAIN u : u[n] \in AgentTransaction
  BY Length
<1>2. IsFiniteSet(rows)
  <2>1. IsFiniteSet(1..Len(t))
    BY <1>1, FS_Interval
  <2>. QED
    BY <1>1, <2>1, FS_Subset
<1>3. \A x \in Amounts : x \in Nat
  BY Constants
<1>4. /\ \A n \in rows : f[n] \in Nat /\ f[n] = g[n]
      /\ \A n \in rows \cup {Len(u)} : g[n] \in Int
      /\ Len(u) \notin rows /\ g[Len(u)] = u[Len(u)].amount
  BY <1>1, <1>3 DEF AgentTransaction
<1>. HIDE DEF f, g
<1>5. SumFunctionOnSet(f, rows) \in Nat
  BY <1>2, <1>4, SumNat
<1>6. SumFunctionOnSet(g, rows) = SumFunctionOnSet(f, rows)
  BY <1>2, <1>4, SumAgree
<1>7. SumFunctionOnSet(g, rows \cup {Len(u)}) = g[Len(u)] + SumFunctionOnSet(g, rows)
  BY <1>2, <1>4, SumAdd
<1>8. g[Len(u)] \in Int
  BY <1>4
<1>9. /\ Total(t, rows) = SumFunctionOnSet(f, rows)
      /\ Total(u, rows) = SumFunctionOnSet(g, rows)
      /\ Total(u, rows \cup {Len(u)}) = SumFunctionOnSet(g, rows \cup {Len(u)})
  BY DEF Total, f, g
<1>. QED
  BY <1>4, <1>5, <1>6, <1>7, <1>8, <1>9

\* A row more is one of its agent, kind and day.
LEMMA RowsAppend ==
  ASSUME NEW t \in Seq(AgentTransaction), NEW u \in Seq(AgentTransaction),
         Len(u) = Len(t) + 1, \A n \in DOMAIN t : u[n] = t[n]
  PROVE  /\ \A a, kind, day :
              /\ TheirDay(t, a, kind, day) \in SUBSET DOMAIN t
              /\ TheirDay(u, a, kind, day)
                   = IF /\ u[Len(u)].agent = a /\ u[Len(u)].kind = kind
                        /\ u[Len(u)].day = day
                     THEN TheirDay(t, a, kind, day) \cup {Len(u)}
                     ELSE TheirDay(t, a, kind, day)
         /\ \A a : TheirFirst(u, a, Len(u)) = IF u[Len(u)].agent = a
                                        THEN TheirFirst(t, a, Len(t)) \cup {Len(u)}
                                        ELSE TheirFirst(t, a, Len(t))
         /\ \A a : TheirFirst(t, a, Len(t)) \in SUBSET DOMAIN t
         /\ \A a : \A n \in DOMAIN t : /\ TheirFirst(t, a, n) \in SUBSET DOMAIN t
                                      /\ TheirFirst(u, a, n) = TheirFirst(t, a, n)
<1>1. /\ Len(t) \in Nat /\ DOMAIN t = 1..Len(t) /\ DOMAIN u = 1..Len(t) + 1
      /\ DOMAIN u = DOMAIN t \cup {Len(u)} /\ Len(u) \notin DOMAIN t
  BY Length
<1>2. \A a, kind, day :
        TheirDay(u, a, kind, day)
          = IF /\ u[Len(u)].agent = a /\ u[Len(u)].kind = kind
               /\ u[Len(u)].day = day
            THEN TheirDay(t, a, kind, day) \cup {Len(u)}
            ELSE TheirDay(t, a, kind, day)
  BY <1>1 DEF TheirDay
<1>3. \A a : TheirFirst(u, a, Len(u)) = IF u[Len(u)].agent = a
                                  THEN TheirFirst(t, a, Len(t)) \cup {Len(u)}
                                  ELSE TheirFirst(t, a, Len(t))
  BY <1>1 DEF TheirFirst
<1>4. \A a : \A n \in DOMAIN t : TheirFirst(u, a, n) = TheirFirst(t, a, n)
  BY <1>1 DEF TheirFirst
<1>. QED
  BY <1>2, <1>3, <1>4 DEF TheirDay, TheirFirst

\* A transaction that is allowed when it is added keeps the limits.
LEMMA AllowedKeepsLimits ==
  ASSUME NEW t \in Seq(AgentTransaction), NEW u \in Seq(AgentTransaction),
         Len(u) = Len(t) + 1, \A n \in DOMAIN t : u[n] = t[n],
         u[Len(u)].kind \in Kind,
         Limits(t), Allowed(t, u[Len(u)].day, u[Len(u)])
  PROVE  Limits(u)
<1>. DEFINE row == u[Len(u)]
<1>1. DOMAIN u = DOMAIN t \cup {Len(u)}
  BY Length
<1>2. ASSUME NEW a \in Agent, NEW day \in 1..LastDay
      PROVE  /\ Total(u, TheirDay(u, a, "CASH_COLLECTION", day)) <= DailyCashIn
             /\ Total(u, TheirDay(u, a, "CUSTOMER_PAYOUT", day)) <= DailyPayout
  <2>1. \A kind : /\ TheirDay(t, a, kind, day) \in SUBSET DOMAIN t
                  /\ TheirDay(u, a, kind, day)
                       = IF row.agent = a /\ row.kind = kind /\ row.day = day
                         THEN TheirDay(t, a, kind, day) \cup {Len(u)}
                         ELSE TheirDay(t, a, kind, day)
    BY RowsAppend
  <2>2. \A kind :
          /\ Total(u, TheirDay(t, a, kind, day)) = Total(t, TheirDay(t, a, kind, day))
          /\ Total(u, TheirDay(t, a, kind, day) \cup {Len(u)})
               = Total(t, TheirDay(t, a, kind, day)) + row.amount
    BY <2>1, TotalAppend
  <2>. HIDE DEF row
  <2>3. Allowed(t, row.day, row) /\ row.kind \in Kind
    BY DEF row
  <2>. QED
    BY <2>1, <2>2, <2>3 DEF Limits, Allowed, Kind
<1>3. ASSUME NEW a \in Agent, NEW n \in DOMAIN u,
             u[n].agent = a, u[n].kind = "CASH_COLLECTION"
      PROVE  Total(u, TheirFirst(u, a, n)) <= MonthlyLimit
  <2>1. CASE n = Len(u)
    <3>1. TheirFirst(u, a, n) = TheirFirst(t, a, Len(t)) \cup {Len(u)}
          /\ TheirFirst(t, a, Len(t)) \in SUBSET DOMAIN t
      BY <1>3, <2>1, RowsAppend
    <3>2. Total(u, TheirFirst(u, a, n)) = Total(t, TheirFirst(t, a, Len(t))) + row.amount
      BY <3>1, TotalAppend
    <3>. QED
      BY <1>3, <2>1, <3>2 DEF Allowed
  <2>2. CASE n \in DOMAIN t
    <3>1. TheirFirst(u, a, n) = TheirFirst(t, a, n) /\ TheirFirst(t, a, n) \in SUBSET DOMAIN t
      BY <2>2, RowsAppend
    <3>. DEFINE rows == TheirFirst(t, a, n)
    <3>2. rows \in SUBSET DOMAIN t
      BY <3>1
    <3>. HIDE DEF rows
    <3>3. Total(u, rows) = Total(t, rows)
      BY <3>2, TotalAppend
    <3>4. TheirFirst(u, a, n) = rows
      BY <3>1 DEF rows
    <3>5. Total(t, rows) <= MonthlyLimit
      BY <1>3, <2>2 DEF Limits, rows
    <3>. QED
      BY <3>3, <3>4, <3>5
  <2>. QED
    BY <1>1, <1>3, <2>1, <2>2
<1>. QED
  BY <1>2, <1>3 DEF Limits

\* What is allowed stays so when another agent's transaction is added.
LEMMA AllowedStays ==
  ASSUME NEW t \in Seq(AgentTransaction), NEW u \in Seq(AgentTransaction),
         Len(u) = Len(t) + 1, \A n \in DOMAIN t : u[n] = t[n],
         NEW c, NEW day, c.agent # u[Len(u)].agent, Allowed(t, day, c)
  PROVE  Allowed(u, day, c)
<1>. DEFINE rows == TheirFirst(t, c.agent, Len(t))
<1>1. rows \in SUBSET DOMAIN t /\ TheirFirst(u, c.agent, Len(u)) = rows
  BY RowsAppend
<1>2. ASSUME NEW kind
      PROVE  Total(u, TheirDay(u, c.agent, kind, day)) = Total(t, TheirDay(t, c.agent, kind, day))
  <2>. DEFINE ofday == TheirDay(t, c.agent, kind, day)
  <2>1. ofday \in SUBSET DOMAIN t /\ TheirDay(u, c.agent, kind, day) = ofday
    BY RowsAppend
  <2>. HIDE DEF ofday
  <2>2. Total(u, ofday) = Total(t, ofday)
    BY <2>1, TotalAppend
  <2>. QED
    BY <2>1, <2>2 DEF ofday
<1>3. Total(u, TheirFirst(u, c.agent, Len(u))) = Total(t, TheirFirst(t, c.agent, Len(t)))
  <2>. HIDE DEF rows
  <2>1. Total(u, rows) = Total(t, rows)
    BY <1>1, TotalAppend
  <2>. QED
    BY <1>1, <2>1 DEF rows
<1>. QED
  BY <1>2, <1>3 DEF Allowed

\* What a call checks, of the rows before and after a step.
LEMMA WithinRestated ==
  ASSUME RowsOK, NEW c
  PROVE  /\ WithinLimits(c) <=> c.amount <= SingleLimit /\ Allowed(txns, today, c)
         /\ txns' \in Seq(AgentTransaction) =>
              (WithinLimits(c)' <=> c.amount <= SingleLimit /\ Allowed(txns', today', c))
<1>. DEFINE Restated(t, day) ==
       c.amount <= SingleLimit /\ Allowed(t, day, c)
<1>0. txns \in Seq(AgentTransaction)
  BY DEF RowsOK, TypeOK
<1>1. /\ \A kind : OnDay(c.agent, kind, today) = TheirDay(txns, c.agent, kind, today)
      /\ Of(c.agent) = TheirFirst(txns, c.agent, Len(txns))
      /\ \A rows : Volume(rows) = Total(txns, rows)
  BY <1>0, Length DEF OfKind, Of, OnDay, TheirDay, TheirFirst, Volume, Total
<1>2. WithinLimits(c) <=> Restated(txns, today)
  BY <1>1 DEF WithinLimits, CollectionAllowed, PayoutAllowed, DailyTotal, Allowed
<1>3. ASSUME txns' \in Seq(AgentTransaction)
      PROVE  /\ \A kind : OnDay(c.agent, kind, today)'
                            = TheirDay(txns', c.agent, kind, today')
             /\ Of(c.agent)' = TheirFirst(txns', c.agent, Len(txns'))
             /\ \A rows : Volume(rows)' = Total(txns', rows)
  BY <1>3, Length DEF OfKind, Of, OnDay, TheirDay, TheirFirst, Volume, Total
<1>4. ASSUME txns' \in Seq(AgentTransaction)
      PROVE  WithinLimits(c)' <=> Restated(txns', today')
  BY <1>3, <1>4 DEF WithinLimits, CollectionAllowed, PayoutAllowed, DailyTotal, Allowed
<1>. QED
  BY <1>2, <1>4

\* Every step keeps the lock with the call that took it.
LEMMA LockInductive ==
  ASSUME RowsOK, LockInv, [Next]_vars
  PROVE  LockInv'
<1>0. /\ owner \in [Agent -> Worker \cup {Nobody}] /\ call \in [Worker -> Call]
      /\ Nobody \notin Worker /\ TypeOK
  BY Constants DEF RowsOK, TypeOK
<1>1. ASSUME NEW w \in Worker, Ends(w)
      PROVE  LockInv'
  <2>1. /\ call'[w] = Idle
        /\ \A v \in Worker \ {w} : call'[v] = call[v]
        /\ \A a \in Agent : owner'[a] = IF owner[a] = w THEN Nobody ELSE owner[a]
    BY <1>0, <1>1, Ended
  <2>2. Idle.does # "within_limits"
    BY DEF Idle
  <2>. QED
    BY <1>0, <2>1, <2>2 DEF LockInv
<1>2. ASSUME NEW w \in Worker, NEW c, Becomes(w, c), UNCHANGED owner,
             call[w].does # "within_limits", c.does # "within_limits"
      PROVE  LockInv'
  <2>1. call'[w] = c /\ \A v \in Worker \ {w} : call'[v] = call[v]
    BY <1>0, <1>2 DEF Becomes
  <2>. QED
    BY <1>2, <2>1 DEF LockInv
<1>3. ASSUME NEW w \in Worker, NEW kind, Starts(w, kind)
      PROVE  LockInv'
  <2>1. PICK a, amount, k :
          Becomes(w, [does |-> "started", agent |-> a, kind |-> kind,
                      amount |-> amount, key |-> k])
    BY <1>3 DEF Starts
  <2>. DEFINE c == [does |-> "started", agent |-> a, kind |-> kind,
                    amount |-> amount, key |-> k]
  <2>2. c.does # "within_limits" /\ Idle.does # "within_limits" /\ Becomes(w, c)
    BY <2>1 DEF Idle
  <2>. HIDE DEF c
  <2>. QED
    BY <1>2, <1>3, <2>2 DEF Starts
<1>4. ASSUME NEW w \in Worker, LockAndCheck(w)
      PROVE  LockInv'
  <2>. DEFINE c == [call[w] EXCEPT !.does = "within_limits"]
  <2>1. call[w] \in [does : {"started", "within_limits"}, agent : Agent, kind : Kind,
                     amount : Amounts, key : ClientKey \cup {EmptyKey}]
    BY <1>0, <1>4, Calls DEF LockAndCheck
  <2>2. c.does = "within_limits" /\ c.agent = call[w].agent /\ call[w].agent \in Agent
    BY <2>1
  <2>3. Becomes(w, c) /\ owner' = [owner EXCEPT ![call[w].agent] = w]
        /\ owner[call[w].agent] = Nobody /\ call[w].does = "started"
    BY <1>4 DEF LockAndCheck, RowIsFree
  <2>. HIDE DEF c
  <2>4. call'[w] = c /\ \A v \in Worker \ {w} : call'[v] = call[v]
    BY <1>0, <2>3 DEF Becomes
  <2>. QED
    BY <1>0, <2>2, <2>3, <2>4 DEF LockInv
<1>5. ASSUME NEW w \in Worker, OpenSettlement(w)
      PROVE  LockInv'
  <2>1. PICK s : Becomes(w, [does |-> "reviewing", row |-> s,
                             status |-> settlements[s].status])
    BY <1>5 DEF OpenSettlement
  <2>. DEFINE c == [does |-> "reviewing", row |-> s, status |-> settlements[s].status]
  <2>2. c.does # "within_limits" /\ Idle.does # "within_limits" /\ Becomes(w, c)
    BY <2>1 DEF Idle
  <2>. HIDE DEF c
  <2>. QED
    BY <1>2, <1>5, <2>2 DEF OpenSettlement
<1>6. ASSUME NEW w \in Worker, Review(w) \/ CheckFloat(w)
      PROVE  LockInv'
  <2>1. call[w] \in [does : {"reviewing", "float_checked"}, row : 1..MaxSettlements,
                     status : Progress]
    BY <1>6, OfficersCall DEF Review, CheckFloat
  <2>2. /\ [call[w] EXCEPT !.status = "UNDER_REVIEW"].does # "within_limits"
        /\ [call[w] EXCEPT !.does = "float_checked"].does # "within_limits"
        /\ call[w].does # "within_limits"
    BY <2>1
  <2>. QED
    BY <1>2, <1>6, <2>2 DEF Review, CheckFloat
<1>7. CASE UNCHANGED <<owner, call>>
  BY <1>7 DEF LockInv
<1>. QED
  BY <1>1, <1>3, <1>4, <1>5, <1>6, <1>7
  DEF Next, vars, NextDay, SetAgentStatus, StartCollection, StartPayout,
      Collect, PayOut, GiveUp, RequestSettlement, Approve

\* A call is within the limits because it was, or has just been found to be.
LEMMA WithinBefore ==
  ASSUME RowsOK, [Next]_vars, NEW v \in Worker, call'[v].does = "within_limits"
  PROVE  \/ LockAndCheck(v)
         \/ call'[v] = call[v] /\ ~ \E w \in Worker : LockAndCheck(w) /\ w = v
<1>0. call \in [Worker -> Call] /\ TypeOK
  BY DEF RowsOK, TypeOK
<1>1. ASSUME NEW w \in Worker, Ends(w)
      PROVE  call'[v] = call[v]
  <2>1. call'[w] = Idle /\ \A u \in Worker \ {w} : call'[u] = call[u]
    BY <1>0, <1>1, Ended
  <2>. QED
    BY <2>1 DEF Idle
<1>2. ASSUME NEW w \in Worker, NEW c, Becomes(w, c), c.does # "within_limits"
      PROVE  call'[v] = call[v]
  BY <1>0, <1>2 DEF Becomes
<1>3. ASSUME NEW w \in Worker, NEW kind, Starts(w, kind)
      PROVE  call'[v] = call[v]
  <2>1. PICK a, amount, k :
          Becomes(w, [does |-> "started", agent |-> a, kind |-> kind,
                      amount |-> amount, key |-> k])
    BY <1>3 DEF Starts
  <2>. DEFINE c == [does |-> "started", agent |-> a, kind |-> kind,
                    amount |-> amount, key |-> k]
  <2>2. c.does # "within_limits" /\ Becomes(w, c)
    BY <2>1
  <2>. HIDE DEF c
  <2>. QED
    BY <1>2, <2>2
<1>4. ASSUME NEW w \in Worker, LockAndCheck(w), w # v
      PROVE  call'[v] = call[v]
  BY <1>0, <1>4 DEF LockAndCheck, Becomes
<1>5. ASSUME NEW w \in Worker, OpenSettlement(w)
      PROVE  call'[v] = call[v]
  <2>1. PICK s : Becomes(w, [does |-> "reviewing", row |-> s,
                             status |-> settlements[s].status])
    BY <1>5 DEF OpenSettlement
  <2>. DEFINE c == [does |-> "reviewing", row |-> s, status |-> settlements[s].status]
  <2>2. c.does # "within_limits" /\ Becomes(w, c)
    BY <2>1
  <2>. HIDE DEF c
  <2>. QED
    BY <1>2, <2>2
<1>6. ASSUME NEW w \in Worker, Review(w) \/ CheckFloat(w)
      PROVE  call'[v] = call[v]
  <2>1. call[w] \in [does : {"reviewing", "float_checked"}, row : 1..MaxSettlements,
                     status : Progress]
    BY <1>6, OfficersCall DEF Review, CheckFloat
  <2>2. /\ [call[w] EXCEPT !.status = "UNDER_REVIEW"].does # "within_limits"
        /\ [call[w] EXCEPT !.does = "float_checked"].does # "within_limits"
    BY <2>1
  <2>. QED
    BY <1>2, <1>6, <2>2 DEF Review, CheckFloat
<1>7. CASE UNCHANGED call
  BY <1>7
<1>. QED
  BY <1>1, <1>3, <1>4, <1>5, <1>6, <1>7
  DEF Next, vars, NextDay, SetAgentStatus, StartCollection, StartPayout,
      Collect, PayOut, GiveUp, RequestSettlement, Approve

\* The totals of a day that has not begun are zero.
LEMMA NewDay ==
  ASSUME RowsOK, \A n \in DOMAIN txns : txns[n].day <= today,
         NEW c, c.amount \in Nat, Allowed(txns, today, c)
  PROVE  Allowed(txns, today + 1, c)
<1>1. \A kind : TheirDay(txns, c.agent, kind, today + 1) = {}
  <2>1. today \in Nat /\ \A n \in DOMAIN txns : txns[n].day \in Nat
    <3>1. \A n \in DOMAIN txns : txns[n] \in AgentTransaction
      BY Length DEF RowsOK, TypeOK
    <3>. QED
      BY <3>1, Constants DEF RowsOK, TypeOK, AgentTransaction
  <2>. QED
    BY <2>1 DEF TheirDay
<1>2. \A kind : Total(txns, TheirDay(txns, c.agent, kind, today + 1)) = 0
  BY <1>1, SumEmpty DEF Total
<1>3. \A kind : Total(txns, TheirDay(txns, c.agent, kind, today)) \in Nat
  <2>. TAKE kind
  <2>. DEFINE rows == TheirDay(txns, c.agent, kind, today)
              f == [n \in DOMAIN txns |-> txns[n].amount]
  <2>1. /\ Len(txns) \in Nat /\ DOMAIN txns = 1..Len(txns)
        /\ \A n \in DOMAIN txns : txns[n] \in AgentTransaction
    BY Length DEF RowsOK, TypeOK
  <2>2. rows \subseteq DOMAIN txns /\ IsFiniteSet(DOMAIN txns)
    BY <2>1, FS_Interval DEF TheirDay
  <2>3. IsFiniteSet(rows)
    BY <2>2, FS_Subset
  <2>4. \A x \in Amounts : x \in Nat
    BY Constants
  <2>5. \A n \in rows : f[n] \in Nat
    BY <2>1, <2>2, <2>4 DEF AgentTransaction
  <2>. HIDE DEF f, rows
  <2>6. SumFunctionOnSet(f, rows) \in Nat
    BY <2>3, <2>5, SumNat
  <2>. QED
    BY <2>6 DEF Total, f, rows
<1>4. DailyCashIn \in Nat /\ DailyPayout \in Nat
  BY Constants
<1>5. Total(txns, TheirFirst(txns, c.agent, Len(txns))) + c.amount <= MonthlyLimit
        \/ c.kind # "CASH_COLLECTION"
  BY DEF Allowed
<1>. QED
  BY <1>2, <1>3, <1>4, <1>5 DEF Allowed

\* Every step keeps the limits and what the holder of the lock checked.
LEMMA LimitsInductive ==
  ASSUME RowsOK, LimitsInv, [Next]_vars
  PROVE  LimitsInv'
<1>0. /\ call \in [Worker -> Call] /\ TypeOK /\ txns \in Seq(AgentTransaction)
      /\ today \in Nat
  BY Constants DEF RowsOK, TypeOK
<1>1. LockInv'
  BY LockInductive DEF LimitsInv
<1>2. ASSUME NEW w \in Worker, Collect(w) \/ PayOut(w)
      PROVE  LimitsInv'
  <2>. DEFINE c == call[w]
              n == Len(txns) + 1
  <2>1. Records(w) /\ c.does = "within_limits" /\ Ends(w) /\ UNCHANGED today
    BY <1>2 DEF Collect, PayOut
  <2>2. /\ c.agent \in Agent /\ c.kind \in Kind
        /\ txns' \in Seq(AgentTransaction)
        /\ Len(txns') = n /\ n \in DOMAIN txns' /\ DOMAIN txns' = DOMAIN txns \cup {n}
        /\ \A m \in DOMAIN txns : txns'[m] = txns[m]
        /\ txns'[n].agent = c.agent /\ txns'[n].kind = c.kind
        /\ txns'[n].amount = c.amount /\ txns'[n].day = today
    <3>1. /\ c.agent \in Agent /\ c.kind \in Kind
          /\ txns' \in Seq(AgentTransaction)
          /\ DOMAIN txns = 1..Len(txns) /\ Len(txns) \in Nat
          /\ DOMAIN txns' = 1..n /\ Len(txns') = n
          /\ \A m \in DOMAIN txns : txns'[m] = txns[m]
          /\ txns'[n] = [agent |-> c.agent, kind |-> c.kind,
                         amount |-> c.amount, key |-> c.key, day |-> today]
      BY <1>0, <2>1, Recorded
    <3>2. n \in DOMAIN txns' /\ DOMAIN txns' = DOMAIN txns \cup {n}
      BY <3>1
    <3>. QED
      BY <3>1, <3>2
  <2>3. Allowed(txns, today, c)
    BY <2>1, WithinRestated DEF LimitsInv
  <2>. HIDE DEF c, n
  <2>4. Allowed(txns, txns'[n].day, txns'[n])
    BY <2>2, <2>3 DEF Allowed
  <2>5. LimitsHold'
    <3>1. Limits(txns)
      BY LimitsRestated DEF LimitsInv
    <3>2. Limits(txns')
      BY <1>0, <2>2, <2>4, <3>1, AllowedKeepsLimits DEF n
    <3>. QED
      BY <3>2, LimitsRestated
  <2>6. \A m \in DOMAIN txns' : txns'[m].day <= today'
    BY <1>0, <2>1, <2>2 DEF LimitsInv
  <2>7. ASSUME NEW v \in Worker, call'[v].does = "within_limits"
        PROVE  WithinLimits(call[v])' /\ call'[v] = call[v]
    <3>1. call'[v] = call[v] /\ v # w
      BY <1>0, <2>1, <2>7, Ended DEF Idle
    <3>2. call[v].agent # c.agent
      <4>1. call[v] \in [does : {"started", "within_limits"}, agent : Agent,
                         kind : Kind, amount : Amounts,
                         key : ClientKey \cup {EmptyKey}]
        BY <1>0, <2>7, <3>1, Calls
      <4>2. call[v].agent \in Agent
        BY <4>1
      <4>. QED
        BY <2>1, <2>2, <2>7, <3>1, <4>2 DEF LimitsInv, LockInv, c
    <3>3. call[v].amount <= SingleLimit /\ Allowed(txns, today, call[v])
      BY <2>7, <3>1, WithinRestated DEF LimitsInv
    <3>. DEFINE d == call[v]
    <3>. HIDE DEF d
    <3>4. Allowed(txns', today, d)
      BY <1>0, <2>2, <3>2, <3>3, AllowedStays DEF n, d
    <3>. QED
      BY <2>1, <2>2, <3>1, <3>3, <3>4, WithinRestated DEF d
  <2>. QED
    BY <1>1, <2>5, <2>6, <2>7 DEF LimitsInv
<1>3. ASSUME NextDay
      PROVE  LimitsInv'
  <2>1. UNCHANGED <<txns, call>> /\ today' = today + 1
    BY <1>3 DEF NextDay
  <2>2. LimitsHold'
    BY <2>1, LimitsRestated DEF LimitsInv
  <2>3. \A m \in DOMAIN txns' : txns'[m].day <= today'
    <3>1. \A m \in DOMAIN txns : txns[m].day \in Nat
      <4>1. \A m \in DOMAIN txns : txns[m] \in AgentTransaction
        BY <1>0, Length
      <4>. QED
        BY <4>1, Constants DEF AgentTransaction
    <3>. QED
      BY <1>0, <2>1, <3>1 DEF LimitsInv
  <2>4. ASSUME NEW v \in Worker, call[v].does = "within_limits"
        PROVE  WithinLimits(call[v])'
    <3>. DEFINE d == call[v]
    <3>1. d.amount \in Nat
      <4>1. d \in [does : {"started", "within_limits"}, agent : Agent,
                   kind : Kind, amount : Amounts, key : ClientKey \cup {EmptyKey}]
        BY <1>0, <2>4, Calls
      <4>2. \A x \in Amounts : x \in Nat
        BY Constants
      <4>. HIDE DEF d
      <4>. QED
        BY <4>1, <4>2
    <3>2. d.amount <= SingleLimit /\ Allowed(txns, today, d)
      BY <2>4, WithinRestated DEF LimitsInv
    <3>. HIDE DEF d
    <3>3. Allowed(txns, today + 1, d)
      BY <3>1, <3>2, NewDay DEF LimitsInv
    <3>4. d.amount <= SingleLimit /\ Allowed(txns', today', d)
      BY <2>1, <3>2, <3>3
    <3>. QED
      BY <1>0, <2>1, <3>4, WithinRestated DEF d
  <2>. QED
    BY <1>1, <2>1, <2>2, <2>3, <2>4 DEF LimitsInv
<1>4. ASSUME UNCHANGED <<txns, today>>
      PROVE  LimitsInv'
  <2>1. LimitsHold'
    BY <1>4, LimitsRestated DEF LimitsInv
  <2>2. ASSUME NEW v \in Worker, call'[v].does = "within_limits"
        PROVE  WithinLimits(call[v])'
    <3>. DEFINE d == call[v]
                e == call'[v]
    <3>1. d.amount <= SingleLimit /\ Allowed(txns, today, d)
          /\ e.agent = d.agent /\ e.kind = d.kind /\ e.amount = d.amount
      <4>1. CASE LockAndCheck(v)
        <5>1. call[v] \in [does : {"started", "within_limits"}, agent : Agent,
                           kind : Kind, amount : Amounts,
                           key : ClientKey \cup {EmptyKey}]
          BY <1>0, <4>1, Calls DEF LockAndCheck
        <5>2. e = [d EXCEPT !.does = "within_limits"] /\ WithinLimits(d)
          BY <1>0, <4>1 DEF LockAndCheck, Becomes
        <5>. HIDE DEF e
        <5>3. e.agent = d.agent /\ e.kind = d.kind /\ e.amount = d.amount
          BY <5>1, <5>2
        <5>. QED
          BY <5>2, <5>3, WithinRestated
      <4>2. CASE call'[v] = call[v]
        BY <2>2, <4>2, WithinRestated DEF LimitsInv
      <4>. QED
        BY <2>2, <4>1, <4>2, WithinBefore
    <3>. HIDE DEF d, e
    <3>2. e.amount <= SingleLimit /\ Allowed(txns', today', e)
      BY <1>4, <3>1 DEF Allowed
    <3>. QED
      BY <1>0, <1>4, <3>2, WithinRestated DEF e
  <2>. QED
    BY <1>1, <1>4, <2>1, <2>2 DEF LimitsInv
<1>. QED
  BY <1>2, <1>3, <1>4
  DEF Next, vars, SetAgentStatus, StartCollection, StartPayout, Starts,
      LockAndCheck, GiveUp, RequestSettlement, OpenSettlement, Review, CheckFloat,
      Approve

\* No agent passes a limit, however the calls interleave and days end.
THEOREM LimitsSound == Spec => []LimitsHold
<1>1. Init => LimitsInv
  <2>. SUFFICES ASSUME Init PROVE LimitsInv
    OBVIOUS
  <2>1. txns = <<>> /\ Nobody \notin Worker /\ Idle.does # "within_limits"
    BY Constants DEF Init, Idle
  <2>2. \A rows : DOMAIN txns = {} /\ (rows \subseteq DOMAIN txns => rows = {})
    BY <2>1
  <2>3. \A a, kind, day : TheirDay(txns, a, kind, day) = {}
    BY <2>2 DEF TheirDay
  <2>4. Total(txns, {}) = 0
    BY SumEmpty DEF Total
  <2>5. Limits(txns)
    <3>1. DailyCashIn \in Nat /\ DailyPayout \in Nat
      BY Constants
    <3>2. \A a, kind, day : Total(txns, TheirDay(txns, a, kind, day)) = 0
      BY <2>3, <2>4
    <3>. QED
      BY <2>2, <3>1, <3>2 DEF Limits
  <2>. QED
    BY <2>1, <2>2, <2>5, LimitsRestated DEF Init, LimitsInv, LockInv
<1>2. (RowsOK /\ LimitsInv) /\ [Next]_vars => (RowsOK /\ LimitsInv)'
  BY RowsInductive, LimitsInductive
<1>3. LimitsInv => LimitsHold
  BY DEF LimitsInv
<1>. QED
  BY <1>1, <1>2, <1>3, RowsInit, PTL DEF Spec
-----------------------------------------------------------------------------
(***************************************************************************)
(* The book.                                                               *)
(***************************************************************************)
AccountEffect(a, legs) == IF a \in DebitNormal THEN legs[a] ELSE 0 - legs[a]

\* A posting moves each balance by its legs.
LEMMA BalanceAppend ==
  ASSUME ledger \in Seq(Posting), NEW e \in Posting, ledger' = Append(ledger, e),
         NEW a \in Account
  PROVE  /\ Balance[a] \in Int
         /\ Balance'[a] = Balance[a] + AccountEffect(a, e.legs)
<1>. DEFINE f == [n \in DOMAIN ledger |-> AccountEffect(a, ledger[n].legs)]
            g == [n \in DOMAIN ledger' |-> AccountEffect(a, ledger'[n].legs)]
            last == Len(ledger) + 1
<1>1. /\ Len(ledger) \in Nat /\ DOMAIN ledger = 1..Len(ledger)
      /\ \A n \in DOMAIN ledger : ledger[n] \in Posting
  BY Length
<1>2. /\ DOMAIN ledger' = 1..last
      /\ \A n \in DOMAIN ledger : ledger'[n] = ledger[n]
      /\ ledger'[last] = e
  BY Rows
<1>3. \A p \in Posting : AccountEffect(a, p.legs) \in Int
  BY DEF Posting, AccountEffect
<1>4. /\ DOMAIN f = DOMAIN ledger /\ DOMAIN g = DOMAIN ledger \cup {last}
      /\ last \notin DOMAIN ledger
      /\ \A n \in DOMAIN ledger : f[n] = g[n] /\ f[n] \in Int
      /\ g[last] = AccountEffect(a, e.legs) /\ g[last] \in Int
  BY <1>1, <1>2, <1>3
<1>5. IsFiniteSet(DOMAIN ledger)
  BY <1>1, FS_Interval
<1>6. Balance[a] = SumFunction(f) /\ Balance'[a] = SumFunction(g)
  BY DEF Balance, AccountEffect
<1>. HIDE DEF f, g, last
<1>7. SumFunctionOnSet(f, DOMAIN ledger) \in Int
  BY <1>4, <1>5, SumInt
<1>8. SumFunctionOnSet(g, DOMAIN ledger \cup {last})
        = g[last] + SumFunctionOnSet(g, DOMAIN ledger)
  BY <1>4, <1>5, SumAdd
<1>9. SumFunctionOnSet(g, DOMAIN ledger) = SumFunctionOnSet(f, DOMAIN ledger)
  BY <1>4, <1>5, SumAgree
<1>. QED
  BY <1>4, <1>6, <1>7, <1>8, <1>9 DEF SumFunction

\* What a movement between two accounts leaves on each.
LEMMA MoveBalanced ==
  ASSUME NEW debit \in Account, NEW credit \in Account, debit # credit,
         NEW amount \in Int, amount > 0
  PROVE  Books!Balanced(Move(debit, credit, amount))
<1>. DEFINE legs == Move(debit, credit, amount)
<1>1. /\ legs \in [Account -> Int]
      /\ legs[debit] = amount /\ legs[credit] = 0 - amount
      /\ \A a \in Account : a # debit /\ a # credit => legs[a] = 0
  BY LegsOK DEF Move
<1>. HIDE DEF legs
<1>2. IsFiniteSet(Account)
  <2>1. /\ IsFiniteSet({"CASH_IN_HAND"}) /\ IsFiniteSet({"SAVINGS_POOL"})
        /\ IsFiniteSet({"SETTLEMENT"})
    BY FS_Singleton
  <2>2. Account = ({"CASH_IN_HAND"} \cup {"SAVINGS_POOL"}) \cup {"SETTLEMENT"}
    BY DEF Account
  <2>. QED
    BY <2>1, <2>2, FS_Union
<1>3. SumFunctionOnSet(legs, Account)
        = legs[debit] + SumFunctionOnSet(legs, Account \ {debit})
  BY <1>1, <1>2, SumRemove
<1>4. SumFunctionOnSet(legs, Account \ {debit})
        = legs[credit] + SumFunctionOnSet(legs, (Account \ {debit}) \ {credit})
  <2>1. IsFiniteSet(Account \ {debit})
    BY <1>2, FS_Subset
  <2>. QED
    BY <1>1, <2>1, SumRemove
<1>5. SumFunctionOnSet(legs, (Account \ {debit}) \ {credit}) = 0
  <2>1. IsFiniteSet((Account \ {debit}) \ {credit})
    BY <1>2, FS_Subset
  <2>. QED
    BY <1>1, <2>1, SumZero
<1>6. SumFunctionOnSet(legs, Account) = 0
  BY <1>1, <1>3, <1>4, <1>5
<1>7. DOMAIN legs = Account
  BY <1>1
<1>8. Books!SumFunction(legs) = 0
  BY <1>6, <1>7 DEF Books!SumFunction, Books!SumFunctionOnSet, SumFunctionOnSet,
     FoldFunctionOnSet, Books!FoldFunctionOnSet, MapThenFoldSet, Books!MapThenFoldSet
<1>9. Books!Touched(legs) # {}
  BY <1>1 DEF Books!Touched
<1>. QED
  BY <1>8, <1>9 DEF Books!Balanced, legs

\* The pool never falls below zero.
PoolInv == Balance["SAVINGS_POOL"] >= 0

\* A posting of a new key that the guarded account can bear is a step of the
\* book; one that is replayed changes nothing.
LEMMA PostIsBook ==
  ASSUME RowsOK, PoolInv, NEW key \in PostingKey, NEW legs \in [Account -> Int],
         Post(key, legs), Books!Balanced(legs),
         legs["SAVINGS_POOL"] > 0 => Balance["SAVINGS_POOL"] >= legs["SAVINGS_POOL"]
  PROVE  PoolInv' /\ [Books!BookNext]_<<Balance, BookRows>>
<1>0. ledger \in Seq(Posting) /\ Len(ledger) \in Nat /\ DOMAIN ledger = 1..Len(ledger)
  BY Length DEF RowsOK, TypeOK
<1>1. CASE UNCHANGED ledger
  <2>1. Balance' = Balance /\ BookRows' = BookRows
    BY <1>1 DEF Balance, BookRows
  <2>. QED
    BY <2>1 DEF PoolInv
<1>2. CASE PostedAs(key) = {} /\ ledger' = Append(ledger, [key |-> key, legs |-> legs])
  <2>. DEFINE e == [key |-> key, legs |-> legs]
              last == Len(ledger) + 1
              t == [number |-> last, key |-> <<"caller", key>>, legs |-> legs,
                    reverses |-> 0]
  <2>1. e \in Posting /\ e.legs = legs
    BY DEF Posting, PostingKey
  <2>2. \A a \in Account : /\ Balance[a] \in Int
                           /\ Balance'[a] = Balance[a] + AccountEffect(a, legs)
    <3>. HIDE DEF e
    <3>1. ledger' = Append(ledger, e)
      BY <1>2 DEF e
    <3>. QED
      BY <1>0, <2>1, <3>1, BalanceAppend
  <2>3. /\ "SAVINGS_POOL" \in Account /\ "SAVINGS_POOL" \notin DebitNormal
        /\ Account \ MayGoNegative = {"SAVINGS_POOL"}
    BY DEF Account, DebitNormal, MayGoNegative
  <2>4. /\ legs["SAVINGS_POOL"] \in Int
        /\ AccountEffect("SAVINGS_POOL", legs) = 0 - legs["SAVINGS_POOL"]
        /\ Balance["SAVINGS_POOL"] + AccountEffect("SAVINGS_POOL", legs) >= 0
    BY <2>2, <2>3 DEF AccountEffect, PoolInv
  <2>5. PoolInv'
    BY <2>2, <2>3, <2>4 DEF PoolInv
  <2>6. /\ DOMAIN ledger' = DOMAIN ledger \cup {last} /\ last \notin DOMAIN ledger
        /\ \A n \in DOMAIN ledger : ledger'[n] = ledger[n] /\ n < last
        /\ ledger'[last] = e
    <3>. HIDE DEF e
    <3>1. ledger' = Append(ledger, e)
      BY <1>2 DEF e
    <3>. QED
      BY <1>0, <2>1, <3>1, Rows
  <2>7. BookRows' = BookRows \cup {t} /\ t \notin BookRows
    <3>. DEFINE Row(l, n) == [number |-> n, key |-> <<"caller", l[n].key>>,
                              legs |-> l[n].legs, reverses |-> 0]
    <3>1. BookRows = {Row(ledger, n) : n \in DOMAIN ledger}
          /\ BookRows' = {Row(ledger', n) : n \in DOMAIN ledger'}
      BY DEF BookRows
    <3>2. \A n \in DOMAIN ledger : Row(ledger', n) = Row(ledger, n)
      BY <2>6
    <3>3. Row(ledger', last) = t
      BY <2>6
    <3>4. \A n \in DOMAIN ledger : Row(ledger, n) # t
      BY <2>6
    <3>. HIDE DEF Row, t, last
    <3>. QED
      BY <2>6, <3>1, <3>2, <3>3, <3>4
  <2>8. Books!Post(t)
    <3>1. \A o \in BookRows : o.number < t.number
      BY <2>6 DEF BookRows
    <3>2. Books!WithKey(BookRows, t.key) = {}
      BY <1>2 DEF Books!WithKey, BookRows, PostedAs
    <3>3. t.reverses = Books!NoTxn
      BY DEF Books!NoTxn
    <3>4. Books!Funded(t.legs)
      BY <2>3, <2>4 DEF Books!Funded, Books!Effect, AccountEffect
    <3>5. Balance' = [a \in Account |-> Balance[a] + Books!Effect(t.legs, a)]
      <4>1. Balance' = [a \in Account |-> Balance'[a]]
        BY DEF Balance
      <4>2. \A a \in Account : Balance'[a] = Balance[a] + Books!Effect(t.legs, a)
        BY <2>2 DEF Books!Effect, AccountEffect
      <4>. QED
        BY <4>1, <4>2
    <3>6. Books!Balanced(t.legs)
      OBVIOUS
    <3>. HIDE DEF t
    <3>. QED
      BY <2>7, <3>1, <3>2, <3>3, <3>4, <3>5, <3>6 DEF Books!Post
  <2>9. t \in BookRows' \ BookRows
    BY <2>7
  <2>. HIDE DEF t
  <2>. QED
    BY <2>5, <2>8, <2>9 DEF Books!BookNext
<1>. QED
  BY <1>1, <1>2 DEF Post

\* Every step is a posting of Book or changes none of what Book sees.
LEMMA StepIsBook ==
  ASSUME RowsOK, PoolInv, [Next]_vars
  PROVE  PoolInv' /\ [Books!BookNext]_<<Balance, BookRows>>
<1>0. \A x \in Amounts : x \in Int /\ x > 0
  BY AgentsAssumption
<1>1. ASSUME NEW w \in Worker, Collect(w) \/ PayOut(w)
      PROVE  PoolInv' /\ [Books!BookNext]_<<Balance, BookRows>>
  <2>. DEFINE c == call[w]
              key == TransactionKey(c.kind, c.key, Len(txns) + 1)
              legs == Legs(c.kind, c.amount)
  <2>1. /\ key \in PostingKey /\ legs \in [Account -> Int] /\ Post(key, legs)
        /\ c.kind \in Kind /\ c.amount \in Amounts
    <3>1. TypeOK /\ Records(w) /\ call[w].does = "within_limits"
      BY <1>1 DEF Collect, PayOut, RowsOK
    <3>. QED
      BY <3>1, Recorded
  <2>2. c.amount \in Int /\ c.amount > 0
    <3>. HIDE DEF c
    <3>. QED
      BY <1>0, <2>1
  <2>3. CASE c.kind = "CASH_COLLECTION"
    <3>1. legs = Move("CASH_IN_HAND", "SAVINGS_POOL", c.amount)
      BY <2>3 DEF Legs
    <3>. HIDE DEF c, key, legs
    <3>2. Books!Balanced(legs) /\ legs["SAVINGS_POOL"] = 0 - c.amount
      BY <2>2, <3>1, MoveBalanced DEF Account, Move
    <3>. QED
      BY <2>1, <2>2, <3>2, PostIsBook
  <2>4. CASE c.kind = "CUSTOMER_PAYOUT"
    <3>1. /\ legs = Move("SAVINGS_POOL", "CASH_IN_HAND", c.amount)
          /\ Balance["SAVINGS_POOL"] >= c.amount
      BY <1>1, <2>4 DEF Legs, Collect, PayOut, Covered
    <3>. HIDE DEF c, key, legs
    <3>2. Books!Balanced(legs) /\ legs["SAVINGS_POOL"] = c.amount
      BY <2>2, <3>1, MoveBalanced DEF Account, Move
    <3>. QED
      BY <2>1, <2>2, <3>1, <3>2, PostIsBook
  <2>. QED
    BY <2>1, <2>3, <2>4 DEF Kind
<1>2. ASSUME NEW w \in Worker, Approve(w)
      PROVE  PoolInv' /\ [Books!BookNext]_<<Balance, BookRows>>
  <2>. DEFINE r == call[w].row
              key == SettlementKey(r)
              amount == settlements[r].amount
              legs == Move("SETTLEMENT", "CASH_IN_HAND", amount)
  <2>1. /\ r \in DOMAIN settlements /\ settlements[r] \in AgentSettlement
        /\ amount > 0
    BY <1>2, OfficersCall DEF Approve, RowsOK
  <2>2. amount \in Int
    BY <2>1 DEF AgentSettlement
  <2>3. key \in PostingKey /\ legs \in [Account -> Int] /\ Post(key, legs)
    <3>1. r \in Nat
      BY <2>1, Length DEF RowsOK, TypeOK
    <3>2. Post(key, legs)
      BY <1>2 DEF Approve
    <3>. HIDE DEF r, amount
    <3>. QED
      BY <2>2, <3>1, <3>2, LegsOK DEF SettlementKey, PostingKey, Account
  <2>. HIDE DEF key, amount
  <2>4. Books!Balanced(legs) /\ legs["SAVINGS_POOL"] = 0
    BY <2>1, <2>2, MoveBalanced DEF Account, Move
  <2>. HIDE DEF legs
  <2>. QED
    BY <2>3, <2>4, PostIsBook
<1>3. CASE UNCHANGED ledger
  <2>1. Balance' = Balance /\ BookRows' = BookRows
    BY <1>3 DEF Balance, BookRows
  <2>. QED
    BY <2>1 DEF PoolInv
<1>. QED
  BY <1>1, <1>2, <1>3
  DEF Next, vars, NextDay, SetAgentStatus, StartCollection, StartPayout, Starts,
      LockAndCheck, GiveUp, OpenSettlement, CheckFloat, RequestSettlement, Review

\* Collections, payouts and settlements are postings of the abstract book.
THEOREM AgentsImplementBook == Spec => ImplementsBook
<1>1. Init => RowsOK /\ PoolInv /\ Books!BookInit
  <2>. SUFFICES ASSUME Init PROVE PoolInv /\ Books!BookInit
    BY RowsInit
  <2>1. ledger = <<>> /\ DOMAIN ledger = {}
    BY DEF Init
  <2>2. \A a \in Account : Balance[a] = 0
    <3>. TAKE a \in Account
    <3>. DEFINE f == [n \in DOMAIN ledger |-> IF a \in DebitNormal THEN ledger[n].legs[a]
                                              ELSE 0 - ledger[n].legs[a]]
    <3>1. Balance[a] = SumFunction(f) /\ DOMAIN f = {}
      BY <2>1 DEF Balance
    <3>. HIDE DEF f
    <3>. QED
      BY <3>1, SumEmpty DEF SumFunction
  <2>3. Balance = [a \in Account |-> 0]
    <3>1. Balance = [a \in Account |-> Balance[a]]
      BY DEF Balance
    <3>. QED
      BY <2>2, <3>1
  <2>4. BookRows = {}
    BY <2>1 DEF BookRows
  <2>. QED
    BY <2>2, <2>3, <2>4 DEF PoolInv, Books!BookInit, Account
<1>2. RowsOK /\ PoolInv /\ [Next]_vars
        => (RowsOK /\ PoolInv)' /\ [Books!BookNext]_<<Balance, BookRows>>
  BY RowsInductive, StepIsBook
<1>. QED
  BY <1>1, <1>2, PTL DEF Spec, ImplementsBook, Books!BookSpec
=============================================================================
