------------------------------ MODULE Limiter ------------------------------
(***************************************************************************)
(* The rate limiter of the GraphQL endpoint (graphql_api/view.py), for the  *)
(* requests of one bucket and address: a counter in Redis that expires, and *)
(* a window in the memory of each process for when Redis fails.  A process  *)
(* serves one request at a time.  Any command may fail, before Redis        *)
(* carried it out or after.                                                *)
(***************************************************************************)
EXTENDS Integers, FiniteSets, FiniteSetsExt

CONSTANTS
  Process,    \* workers of gunicorn
  Limit,      \* requests a window admits (RATE_LIMIT_...)
  RateWindow, \* its length (60 s)
  MaxClock,   \* bound on time
  MaxLost     \* bound on restarts, of Redis and of the processes

ASSUME LimiterAssumption ==
  /\ {Limit, RateWindow} \subseteq Nat \ {0}
  /\ {MaxClock, MaxLost} \subseteq Nat
  /\ IsFiniteSet(Process) /\ "Redis" \notin Process

VARIABLES
  clock,
  counter,   \* the key in Redis: its value, 0 when there is no key
  expiry,    \* when the key expires, or Never
  connected, \* _redis_client of each process: unknown, yes or, for good, no
  hits,      \* MemoryWindow of each process: how many admissions of each time
  serving,   \* the request of each process
  admitted,  \* history: admissions by whom and when
  lost       \* history: restarts, of Redis and of the processes

limiter == <<clock, counter, expiry, connected, hits, serving, admitted, lost>>

Times == 0..MaxClock
Never == -1
Waiting == [does |-> "nothing"]
ByRedis == "Redis"
Via == Process \cup {ByRedis}

LimiterInit ==
  /\ clock = 0
  /\ counter = 0
  /\ expiry = Never
  /\ connected = [p \in Process |-> "unknown"]
  /\ hits = [p \in Process |-> [at \in Times |-> 0]]
  /\ serving = [p \in Process |-> Waiting]
  /\ admitted = {}
  /\ lost = [v \in Via |-> 0]

Serves(p, does) == serving' = [serving EXCEPT ![p] = [does |-> does]]
Serving(p, does) == serving[p].does = does
Admit(via) ==
  LET same == {a \in admitted : a.via = via /\ a.at = clock}
  IN admitted' = admitted \cup {[via |-> via, at |-> clock, nth |-> Cardinality(same) + 1]}
-----------------------------------------------------------------------------
\* _redis pings once in the life of a process, at its first request.
Connect(p) ==
  /\ connected[p] = "unknown"
  /\ \E found \in {"yes", "no"} : connected' = [connected EXCEPT ![p] = found]
  /\ UNCHANGED <<clock, counter, expiry, hits, serving, admitted, lost>>

\* INCR.  More than Limit + 1 need not be told apart.
Incremented == IF counter > Limit THEN counter ELSE counter + 1

\* Mutant: what was counted before this request is compared.
UnderLimitBefore(count) == count - 1 <= Limit

UnderLimit(count) == count <= Limit

\* A request past the checks of its size and depth: client.incr.  The first one
\* of a key has still to make it expire.
Incr(p) ==
  /\ Serving(p, "nothing") /\ connected[p] = "yes"
  /\ counter' = Incremented
  /\ IF Incremented = 1
     THEN Serves(p, "expire") /\ UNCHANGED admitted
     ELSE /\ Serves(p, "nothing")
          /\ IF UnderLimit(Incremented) THEN Admit(ByRedis) ELSE UNCHANGED admitted
  /\ UNCHANGED <<clock, expiry, connected, hits, lost>>

\* client.expire, on whatever the key is by then.
Expire60(p) ==
  /\ Serving(p, "expire")
  /\ expiry' = IF counter = 0 THEN Never ELSE clock + RateWindow
  /\ Serves(p, "nothing")
  /\ IF UnderLimit(1) THEN Admit(ByRedis) ELSE UNCHANGED admitted
  /\ UNCHANGED <<clock, counter, connected, hits, lost>>

\* An exception in either command: the memory of the process decides.  A key
\* whose EXPIRE never reached Redis stays.
RedisCallFails(p) ==
  /\ connected[p] = "yes" /\ ~Serving(p, "memory")
  /\ \/ UNCHANGED <<counter, expiry>>
     \/ Serving(p, "nothing") /\ counter' = Incremented /\ UNCHANGED expiry
     \/ /\ Serving(p, "expire") /\ counter # 0
        /\ expiry' = clock + RateWindow /\ UNCHANGED counter
  /\ Serves(p, "memory")
  /\ UNCHANGED <<clock, connected, hits, admitted, lost>>

\* What MemoryWindow.hit leaves in the deque, whose times never decrease.
Recent(p) == [at \in Times |-> IF clock - at <= RateWindow THEN hits[p][at] ELSE 0]

\* MemoryWindow.hit, after a failure or without a client.
MemoryHit(p) ==
  /\ Serving(p, "memory") \/ connected[p] = "no"
  /\ IF SumFunctionOnSet(Recent(p), Times) >= Limit
     THEN hits' = [hits EXCEPT ![p] = Recent(p)] /\ UNCHANGED admitted
     ELSE hits' = [hits EXCEPT ![p] = [Recent(p) EXCEPT ![clock] = @ + 1]] /\ Admit(p)
  /\ Serves(p, "nothing")
  /\ UNCHANGED <<clock, counter, expiry, connected, lost>>
-----------------------------------------------------------------------------
Tick ==
  /\ clock < MaxClock
  /\ clock' = clock + 1
  /\ LET expired == expiry # Never /\ expiry <= clock'
     IN /\ counter' = IF expired THEN 0 ELSE counter
        /\ expiry' = IF expired THEN Never ELSE expiry
  /\ UNCHANGED <<connected, hits, serving, admitted, lost>>

MayLose == SumFunctionOnSet(lost, Via) < MaxLost

\* Redis restarts without the key.
RedisRestarts ==
  /\ MayLose
  /\ counter # 0
  /\ counter' = 0
  /\ expiry' = Never
  /\ lost' = [lost EXCEPT ![ByRedis] = @ + 1]
  /\ UNCHANGED <<clock, connected, hits, serving, admitted>>

\* A process dies, even between INCR and EXPIRE, and another takes its place.
ProcessRestarts(p) ==
  /\ MayLose
  /\ connected' = [connected EXCEPT ![p] = "unknown"]
  /\ hits' = [hits EXCEPT ![p] = [at \in Times |-> 0]]
  /\ Serves(p, "nothing")
  /\ lost' = [lost EXCEPT ![p] = @ + 1]
  /\ UNCHANGED <<clock, counter, expiry, admitted>>

LimiterNext ==
  \/ Tick \/ RedisRestarts
  \/ \E p \in Process :
       Connect(p) \/ Incr(p) \/ Expire60(p) \/ RedisCallFails(p) \/ MemoryHit(p)
         \/ ProcessRestarts(p)
-----------------------------------------------------------------------------
LimiterTypeOK ==
  /\ clock \in Times
  /\ counter \in 0..(Limit + 1)
  /\ expiry \in Nat \cup {Never}
  /\ connected \in [Process -> {"unknown", "yes", "no"}]
  /\ \A p \in Process :
       /\ hits[p] \in [Times -> Nat]
       /\ serving[p].does \in {"nothing", "expire", "memory"}

\* However processes, failing commands and restarts interleave, what is admitted in
\* any stretch of a window's length is bounded: through Redis twice the limit, for
\* the window is fixed and not the sliding one of the comment, and through the
\* memory of each process once, plus the limit for each restart that forgot a
\* count.
AdmittedWithinLimit ==
  \A a \in admitted :
    LET during == {b \in admitted : b.via = a.via /\ b.at \in a.at..(a.at + RateWindow)}
        lives == (IF a.via = ByRedis THEN 2 ELSE 1) + lost[a.via]
    IN Cardinality(during) <= lives * Limit
=============================================================================
