---------------------------- MODULE ProducersProofs ----------------------------
(***************************************************************************)
(* The producers around one confluent-kafka client, for any number of      *)
(* messages, threads, interrupts and resets, and any queue: each one's     *)
(* inductive invariant, what its counters and its verdict mean, and that   *)
(* it keeps the contract of publishing.                                    *)
(***************************************************************************)
EXTENDS MCProducers, FiniteSetTheorems, TLAPS

(***************************************************************************)
(* Counting.  Every counter of these classes is the number of messages     *)
(* that have come to certain places: of a publish, or of the client.       *)
(***************************************************************************)
In(f, S) == {m \in Messages : f[m] \in S}
Count(f, S) == Cardinality(In(f, S))

LEMMA CountType ==
  ASSUME NEW f, NEW S
  PROVE  IsFiniteSet(In(f, S)) /\ Count(f, S) \in Nat
<1>1. In(f, S) \subseteq Messages
  BY DEF In
<1> QED
  BY <1>1, ClientAssumption, FS_Subset, FS_CardinalityType DEF Count

(* g is f, but for one message.                                            *)
OnlyAt(m, f, g) == \A n \in Messages \ {m} : g[n] = f[n]

LEMMA CountRises ==
  ASSUME NEW f, NEW g, NEW S, NEW m \in Messages, OnlyAt(m, f, g), f[m] \notin S, g[m] \in S
  PROVE  Count(g, S) = Count(f, S) + 1
<1>1. In(g, S) = In(f, S) \cup {m} /\ m \notin In(f, S)
  BY DEF In, OnlyAt
<1> QED
  BY <1>1, CountType, FS_AddElement DEF Count

LEMMA CountStays ==
  ASSUME NEW f, NEW g, NEW S, NEW m \in Messages, OnlyAt(m, f, g), f[m] \in S <=> g[m] \in S
  PROVE  Count(g, S) = Count(f, S)
<1>1. In(g, S) = In(f, S)
  BY DEF In, OnlyAt
<1> QED
  BY <1>1 DEF Count

(* A change at one place of a function.                                    *)
LEMMA OneChange ==
  ASSUME NEW V, NEW f \in [Messages -> V], NEW m \in Messages, NEW v \in V,
         NEW g, g = [f EXCEPT ![m] = v]
  PROVE  g \in [Messages -> V] /\ g[m] = v /\ OnlyAt(m, f, g)
BY DEF OnlyAt

LEMMA CountSame ==
  ASSUME NEW f, NEW g, NEW S, NEW T, \A m \in Messages : f[m] \in S <=> g[m] \in T
  PROVE  Count(f, S) = Count(g, T)
<1>1. In(f, S) = In(g, T)
  BY DEF In
<1> QED
  BY <1>1 DEF Count

LEMMA CountSplit ==
  ASSUME NEW f, NEW S, NEW T, S \cap T = {}
  PROVE  Count(f, S \cup T) = Count(f, S) + Count(f, T)
<1>1. In(f, S \cup T) = In(f, S) \cup In(f, T) /\ In(f, S) \cap In(f, T) = {}
  BY DEF In
<1>2. Cardinality(In(f, S) \cap In(f, T)) = 0
  BY <1>1, FS_EmptySet
<1>3. /\ IsFiniteSet(In(f, S)) /\ IsFiniteSet(In(f, T))
      /\ Cardinality(In(f, S)) \in Nat /\ Cardinality(In(f, T)) \in Nat
  BY CountType DEF Count
<1>4. Cardinality(In(f, S) \cup In(f, T))
        = Cardinality(In(f, S)) + Cardinality(In(f, T)) - Cardinality(In(f, S) \cap In(f, T))
  BY <1>3, FS_Union
<1>5. Count(f, S \cup T) = Cardinality(In(f, S) \cup In(f, T))
  BY <1>1 DEF Count
<1>6. Count(f, S) = Cardinality(In(f, S)) /\ Count(f, T) = Cardinality(In(f, T))
  BY DEF Count
<1> QED
  BY <1>2, <1>3, <1>4, <1>5, <1>6

LEMMA CountZero ==
  ASSUME NEW f, NEW S
  PROVE  Count(f, S) = 0 <=> \A m \in Messages : f[m] \notin S
<1>1. Count(f, S) = 0 <=> In(f, S) = {}
  BY CountType, FS_EmptySet DEF Count
<1> QED
  BY <1>1 DEF In

-----------------------------------------------------------------------------
(***************************************************************************)
(* The contract of publishing.  A step of a producer moves at most one     *)
(* message; what that may mean for its answer (x, then y) and for whether  *)
(* the client has it (t, then u) is                                        *)
(***************************************************************************)
MessageStep(x, y, t, u) ==
  \/ x = y /\ (t <=> u)
  \/ ~t /\ u /\ x = "none" /\ y \in {"none", "queued"}
  \/ t /\ u /\ x = "none" /\ y = "queued"
  \/ ~t /\ ~u /\ x = "none" /\ y = "refused"
  \/ (t <=> u) /\ x = "refused" /\ y = "none"

(* The same step as PublishContract sees it.                               *)
ContractStep(a, b, t, u) ==
  \/ b = a /\ u = t
  \/ \E m \in Messages :
       \/ /\ m \notin t /\ a[m] = "none" /\ u = t \cup {m}
          /\ b = a \/ b = [a EXCEPT ![m] = "queued"]
       \/ m \in t /\ a[m] = "none" /\ b = [a EXCEPT ![m] = "queued"] /\ u = t
       \/ m \notin t /\ a[m] = "none" /\ b = [a EXCEPT ![m] = "refused"] /\ u = t
       \/ a[m] = "refused" /\ b = [a EXCEPT ![m] = "none"] /\ u = t

LEMMA ContractMove ==
  ASSUME NEW a, NEW b, NEW t, NEW u, NEW m \in Messages,
         a = [n \in Messages |-> a[n]], b = [n \in Messages |-> b[n]],
         t \subseteq Messages, u \subseteq Messages,
         \A n \in Messages \ {m} : b[n] = a[n] /\ (n \in t <=> n \in u),
         MessageStep(a[m], b[m], m \in t, m \in u)
  PROVE  ContractStep(a, b, t, u)
<1>1. b = [a EXCEPT ![m] = b[m]]
  OBVIOUS
<1>2. b[m] = a[m] => b = a
  OBVIOUS
<1>3. (m \in t <=> m \in u) => u = t
  OBVIOUS
<1>4. m \notin t /\ m \in u => u = t \cup {m}
  OBVIOUS
<1> QED
  BY <1>1, <1>2, <1>3, <1>4 DEF MessageStep, ContractStep

(* What the place of one message says, where f tells the places.           *)
Says(place, queued, refused) ==
  CASE place \in queued -> "queued"
    [] place \in refused -> "refused"
    [] OTHER -> "none"

LEMMA ContractFollows ==
  ASSUME NEW f, NEW g, NEW h, NEW k, NEW Q, NEW R, NEW m \in Messages,
         DOMAIN f = Messages, DOMAIN g = Messages, DOMAIN h = Messages, DOMAIN k = Messages,
         OnlyAt(m, f, g), OnlyAt(m, h, k),
         MessageStep(Says(f[m], Q, R), Says(g[m], Q, R), h[m] # "absent", k[m] # "absent")
  PROVE  ContractStep(Answers(f, Q, R), Answers(g, Q, R), TakenBy(h), TakenBy(k))
<1> DEFINE a == Answers(f, Q, R)
           b == Answers(g, Q, R)
           t == TakenBy(h)
           u == TakenBy(k)
<1>1. /\ a = [n \in Messages |-> Says(f[n], Q, R)]
      /\ b = [n \in Messages |-> Says(g[n], Q, R)]
  BY DEF Answers, Says
<1>2. /\ a = [n \in Messages |-> a[n]] /\ b = [n \in Messages |-> b[n]]
      /\ \A n \in Messages : a[n] = Says(f[n], Q, R) /\ b[n] = Says(g[n], Q, R)
  BY <1>1
<1>3. /\ t \subseteq Messages /\ u \subseteq Messages
      /\ \A n \in Messages : (n \in t <=> h[n] # "absent") /\ (n \in u <=> k[n] # "absent")
  BY DEF TakenBy
<1> HIDE DEF a, b, t, u
<1>4. \A n \in Messages \ {m} : b[n] = a[n] /\ (n \in t <=> n \in u)
  BY <1>2, <1>3 DEF OnlyAt
<1>5. MessageStep(a[m], b[m], m \in t, m \in u)
  <2>1. a[m] = Says(f[m], Q, R) /\ b[m] = Says(g[m], Q, R)
        /\ (m \in t <=> h[m] # "absent") /\ (m \in u <=> k[m] # "absent")
    BY <1>2, <1>3
  <2> QED
    BY <2>1 DEF MessageStep
<1>6. ContractStep(a, b, t, u)
  BY <1>2, <1>3, <1>4, <1>5, ContractMove
<1> QED
  BY <1>6 DEF a, b, t, u

(* A step that moves no answer, and takes nothing.                         *)
LEMMA ContractStutters ==
  ASSUME NEW f, NEW h, NEW k, NEW Q, NEW R,
         DOMAIN h = Messages, DOMAIN k = Messages,
         \A n \in Messages : h[n] = "absent" <=> k[n] = "absent"
  PROVE  ContractStep(Answers(f, Q, R), Answers(f, Q, R), TakenBy(h), TakenBy(k))
<1>1. TakenBy(h) = TakenBy(k)
  BY DEF TakenBy
<1> QED
  BY <1>1 DEF ContractStep

-----------------------------------------------------------------------------
(***************************************************************************)
(* get_instance() and reset_instance().  OneInstance alone is not          *)
(* inductive: a thread that is about to be served must already hold the    *)
(* class's object, and one that is about to read the class must find an    *)
(* object there.                                                           *)
(***************************************************************************)
ClassInv ==
  /\ ymade \in Nat /\ yinstance \in {0, ymade} /\ yinitialized \in BOOLEAN
  /\ yconnected \subseteq {yinstance} \ {0}
  /\ yinitialized => yinstance \in yconnected

ThreadsInv ==
  /\ yat \in [Threads -> Lifecycle!Place] /\ ymine \in [Threads -> Nat]
  /\ \A t \in Threads :
       /\ yat[t] = "newReturn" => yinstance # 0
       /\ yat[t] \in {"init", "initLock", "done"} => ymine[t] = yinstance /\ yinstance # 0
       /\ yat[t] = "done" => yinitialized

LifecycleInv == ClassInv /\ ThreadsInv

-----------------------------------------------------------------------------
(* Before the first call.                                                  *)
LEMMA LifecycleInitInv == Lifecycle!Init => LifecycleInv
<1> USE DEF Lifecycle!Init, LifecycleInv, ClassInv, ThreadsInv, Lifecycle!Place
<1> SUFFICES ASSUME Lifecycle!Init PROVE LifecycleInv
  OBVIOUS
<1>1. ClassInv
  OBVIOUS
<1>2. ThreadsInv
  OBVIOUS
<1> QED
  BY <1>1, <1>2

(* The four steps that only read the class.                                *)
LEMMA ReadingInv ==
  ASSUME LifecycleInv, NEW t \in Threads,
         Lifecycle!Call(t) \/ Lifecycle!NewOuterCheck(t) \/ Lifecycle!NewReturn(t) \/ Lifecycle!InitOuterCheck(t)
  PROVE  LifecycleInv'
<1> USE DEF LifecycleInv, ClassInv, ThreadsInv, Lifecycle!Place, Lifecycle!Goto, Lifecycle!class
<1>1. CASE Lifecycle!Call(t)
  BY <1>1 DEF Lifecycle!Call
<1>2. CASE Lifecycle!NewOuterCheck(t)
  BY <1>2 DEF Lifecycle!NewOuterCheck
<1>3. CASE Lifecycle!NewReturn(t)
  BY <1>3 DEF Lifecycle!NewReturn
<1>4. CASE Lifecycle!InitOuterCheck(t)
  BY <1>4 DEF Lifecycle!InitOuterCheck
<1> QED
  BY <1>1, <1>2, <1>3, <1>4

(* __new__ under the lock: a new object is made only where there is none,  *)
(* and then nobody holds one and no client is connected.                   *)
LEMMA NewLockedInv ==
  ASSUME LifecycleInv, NEW t \in Threads, Lifecycle!NewLocked(t)
  PROVE  LifecycleInv'
<1> USE DEF LifecycleInv, ClassInv, ThreadsInv, Lifecycle!Place, Lifecycle!Goto, Lifecycle!NewLocked
<1>1. CASE yinstance = 0
  <2>1. yinstance' = ymade + 1 /\ ymade' = ymade + 1 /\ yconnected = {} /\ ~yinitialized
    BY <1>1
  <2>2. ClassInv'
    BY <2>1
  <2>3. \A u \in Threads : yat[u] \notin {"newReturn", "init", "initLock", "done"}
    BY <1>1
  <2>4. ThreadsInv'
    BY <2>1, <2>3
  <2> QED
    BY <2>2, <2>4
<1>2. CASE yinstance # 0
  BY <1>2
<1> QED
  BY <1>1, <1>2

(* __init__ under the lock: the client that is connected is that of the    *)
(* class's object, and the flag is raised behind it.                       *)
LEMMA InitLockedInv ==
  ASSUME LifecycleInv, NEW t \in Threads, Lifecycle!InitLocked(t)
  PROVE  LifecycleInv'
<1> USE DEF LifecycleInv, ClassInv, ThreadsInv, Lifecycle!Place, Lifecycle!Goto, Lifecycle!InitLocked
<1>1. ymine[t] = yinstance /\ yinstance # 0
  OBVIOUS
<1>2. ClassInv'
  <2>1. CASE UNCHANGED <<yconnected, yinitialized>>
    BY <2>1
  <2>2. CASE yconnected' = yconnected \cup {ymine[t]} /\ yinitialized' = TRUE
    BY <1>1, <2>2
  <2> QED
    BY <2>1, <2>2
<1>3. ThreadsInv'
  BY <1>1
<1> QED
  BY <1>2, <1>3

(* reset_instance() while nobody is inside get_instance().                 *)
LEMMA ResetInv ==
  ASSUME LifecycleInv, Lifecycle!Reset
  PROVE  LifecycleInv'
BY DEF LifecycleInv, ClassInv, ThreadsInv, Lifecycle!Place, Lifecycle!Reset

(* One step, or none, preserves the invariant.                             *)
LEMMA LifecycleNextInv == LifecycleInv /\ [Lifecycle!Next]_(Lifecycle!vars) => LifecycleInv'
<1> SUFFICES ASSUME LifecycleInv, [Lifecycle!Next]_(Lifecycle!vars) PROVE LifecycleInv'
  OBVIOUS
<1>1. ASSUME NEW t \in Threads, Lifecycle!Call(t) \/ Lifecycle!Step(t) PROVE LifecycleInv'
  BY <1>1, ReadingInv, NewLockedInv, InitLockedInv DEF Lifecycle!Step
<1>2. CASE UNCHANGED Lifecycle!vars
  BY <1>2 DEF Lifecycle!vars, Lifecycle!class, LifecycleInv, ClassInv, ThreadsInv
<1> QED
  BY <1>1, <1>2, ResetInv DEF Lifecycle!Next

(* The bench exercises one of them, and the others stay as they began.     *)
LEMMA LifecycleOnBench == Spec => Lifecycle!Spec
<1>1. Init => Lifecycle!Init
  BY DEF Init
<1>2. [Next]_vars => [Lifecycle!Next]_(Lifecycle!vars)
  BY DEF Next, vars, lifecycleVars, Lifecycle!vars, Lifecycle!class
<1> QED
  BY <1>1, <1>2, PTL DEF Spec, Lifecycle!Spec

LEMMA LifecycleSafe == Spec => []LifecycleInv
BY LifecycleInitInv, LifecycleNextInv, LifecycleOnBench, PTL DEF Lifecycle!Spec

(* However many threads call get_instance() at once, come back after a     *)
(* factory that raised or after a reset: all that have been served hold    *)
(* the class's one object, and only its client is connected.               *)
THEOREM ServedTheSame == Spec => []OneInstance
<1>1. LifecycleInv => OneInstance
  BY DEF LifecycleInv, ClassInv, ThreadsInv, OneInstance, Lifecycle!OneInstance,
         Lifecycle!OneConnection, Lifecycle!Served
<1> QED
  BY <1>1, LifecycleSafe, PTL

(* Whoever has been served holds an object whose client has been built:    *)
(* the flag that lets a thread past __init__ is never raised before it.    *)
THEOREM ServedReady == Spec => []ServedMeansReady
<1>1. LifecycleInv => ServedMeansReady
  BY DEF LifecycleInv, ClassInv, ThreadsInv, ServedMeansReady, Lifecycle!ServedMeansReady,
         Lifecycle!Served
<1> QED
  BY <1>1, LifecycleSafe, PTL

-----------------------------------------------------------------------------
(***************************************************************************)
(* Three of the producers keep books in the same way.  f tells the fates   *)
(* of the messages and g the places of their publishes: a message is with  *)
(* the client from produce() on, first at "counting" and then, counted, at *)
(* one of the places of C.  Q are the places that say "queued", and R      *)
(* those that say "refused".                                               *)
(***************************************************************************)
Held(C) == {"counting"} \cup C

Ledger(f, g, n, C) ==
  /\ f \in [Messages -> Fate] /\ DOMAIN g = Messages
  /\ \A m \in Messages : f[m] # "absent" <=> g[m] \in Held(C)
  /\ n = Count(g, C)

Results(f, d, e) == d = Count(f, {"delivered"}) /\ e = Count(f, {"failed"})

Contracted(f, g, f2, g2, Q, R) ==
  ContractStep(Answers(g, Q, R), Answers(g2, Q, R), TakenBy(f), TakenBy(f2))

LEMMA LedgerAside ==
  ASSUME NEW f, NEW g, NEW g2, NEW n, NEW C, NEW Q, NEW R, Q \subseteq C, Ledger(f, g, n, C),
         NEW m \in Messages, NEW place, g2 = [g EXCEPT ![m] = place],
         g[m] \notin Held(C), place \notin Held(C)
  PROVE  Ledger(f, g2, n, C) /\ Contracted(f, g, f, g2, Q, R)
<1>1. DOMAIN g2 = Messages /\ g2[m] = place /\ OnlyAt(m, g, g2)
  BY DEF Ledger, OnlyAt
<1>2. Count(g2, C) = Count(g, C)
  BY <1>1, CountStays DEF Held
<1>3. Ledger(f, g2, n, C)
  BY <1>1, <1>2 DEF Ledger, OnlyAt
<1>4. DOMAIN f = Messages /\ DOMAIN g = Messages /\ OnlyAt(m, f, f) /\ f[m] = "absent"
  BY DEF Ledger, OnlyAt
<1>5. MessageStep(Says(g[m], Q, R), Says(g2[m], Q, R), f[m] # "absent", f[m] # "absent")
  BY <1>1, <1>4 DEF MessageStep, Says, Held
<1> QED
  BY <1>1, <1>3, <1>4, <1>5, ContractFollows DEF Contracted

LEMMA LedgerProduce ==
  ASSUME NEW f, NEW f2, NEW g, NEW g2, NEW n, NEW C, NEW Q, NEW R, Q \subseteq C, "counting" \notin C,
         R \cap Held(C) = {}, Ledger(f, g, n, C), NEW m \in Messages,
         g[m] \notin Held(C) \cup R, g2 = [g EXCEPT ![m] = "counting"],
         f2 = [f EXCEPT ![m] = "queued"]
  PROVE  Ledger(f2, g2, n, C) /\ Contracted(f, g, f2, g2, Q, R)
<1>1. DOMAIN g2 = Messages /\ g2[m] = "counting" /\ OnlyAt(m, g, g2)
  BY DEF Ledger, OnlyAt
<1>2. f2 \in [Messages -> Fate] /\ f2[m] = "queued" /\ OnlyAt(m, f, f2)
  <2>1. "queued" \in Fate
    BY DEF Fate, Pending
  <2> QED
    BY <2>1 DEF Ledger, OnlyAt
<1>3. Count(g2, C) = Count(g, C)
  BY <1>1, CountStays DEF Held
<1>4. Ledger(f2, g2, n, C)
  BY <1>1, <1>2, <1>3 DEF Ledger, OnlyAt, Held
<1>5. DOMAIN f = Messages /\ DOMAIN f2 = Messages /\ DOMAIN g = Messages /\ f[m] = "absent"
  BY <1>2 DEF Ledger
<1>6. MessageStep(Says(g[m], Q, R), Says(g2[m], Q, R), f[m] # "absent", f2[m] # "absent")
  BY <1>1, <1>2, <1>5 DEF MessageStep, Says, Held
<1> QED
  BY <1>1, <1>2, <1>4, <1>5, <1>6, ContractFollows DEF Contracted

(* The publish counts its message.                                         *)
LEMMA LedgerCount ==
  ASSUME NEW f, NEW g, NEW g2, NEW n, NEW C, NEW Q, NEW R, Q \subseteq C, "counting" \notin C,
         R \cap Held(C) = {}, Ledger(f, g, n, C), NEW m \in Messages, NEW place \in C,
         g[m] = "counting", g2 = [g EXCEPT ![m] = place]
  PROVE  Ledger(f, g2, n + 1, C) /\ Contracted(f, g, f, g2, Q, R)
<1>1. DOMAIN g2 = Messages /\ g2[m] = place /\ OnlyAt(m, g, g2)
  BY DEF Ledger, OnlyAt
<1>2. Count(g2, C) = Count(g, C) + 1
  BY <1>1, CountRises
<1>3. Ledger(f, g2, n + 1, C)
  BY <1>1, <1>2 DEF Ledger, OnlyAt, Held
<1>4. DOMAIN f = Messages /\ DOMAIN g = Messages /\ OnlyAt(m, f, f) /\ f[m] # "absent"
  BY DEF Ledger, OnlyAt, Held
<1>5. MessageStep(Says(g[m], Q, R), Says(g2[m], Q, R), f[m] # "absent", f[m] # "absent")
  BY <1>1, <1>4 DEF MessageStep, Says, Held
<1> QED
  BY <1>1, <1>3, <1>4, <1>5, ContractFollows DEF Contracted

(* A publish that has counted its message comes to its end.                *)
LEMMA LedgerReturn ==
  ASSUME NEW f, NEW g, NEW g2, NEW n, NEW C, NEW Q, NEW R, Q \subseteq C,
         R \cap Held(C) = {}, Ledger(f, g, n, C), NEW m \in Messages, NEW place \in C,
         g[m] \in C \ Q, g2 = [g EXCEPT ![m] = place]
  PROVE  Ledger(f, g2, n, C) /\ Contracted(f, g, f, g2, Q, R)
<1>1. DOMAIN g2 = Messages /\ g2[m] = place /\ OnlyAt(m, g, g2)
  BY DEF Ledger, OnlyAt
<1>2. Count(g2, C) = Count(g, C)
  BY <1>1, CountStays
<1>3. Ledger(f, g2, n, C)
  BY <1>1, <1>2 DEF Ledger, OnlyAt, Held
<1>4. DOMAIN f = Messages /\ DOMAIN g = Messages /\ OnlyAt(m, f, f) /\ f[m] # "absent"
  BY DEF Ledger, OnlyAt, Held
<1>5. MessageStep(Says(g[m], Q, R), Says(g2[m], Q, R), f[m] # "absent", f[m] # "absent")
  BY <1>1, <1>4 DEF MessageStep, Says, Held
<1> QED
  BY <1>1, <1>3, <1>4, <1>5, ContractFollows DEF Contracted

(* The broker answers a message, or its callback runs.                     *)
LEMMA LedgerServe ==
  ASSUME NEW f, NEW f2, NEW g, NEW n, NEW C, NEW Q, NEW R, Ledger(f, g, n, C),
         NEW m \in Messages, NEW v \in Fate \ {"absent"}, f[m] # "absent", f2 = [f EXCEPT ![m] = v]
  PROVE  Ledger(f2, g, n, C) /\ Contracted(f, g, f2, g, Q, R)
<1>1. f2 \in [Messages -> Fate] /\ f2[m] = v /\ OnlyAt(m, f, f2)
  BY OneChange DEF Ledger
<1>2. \A p \in Messages : f[p] = "absent" <=> f2[p] = "absent"
  BY <1>1 DEF OnlyAt
<1>3. Ledger(f2, g, n, C)
  BY <1>1, <1>2 DEF Ledger
<1> QED
  BY <1>1, <1>2, <1>3, ContractStutters DEF Contracted, Ledger

LEMMA ResultsKept ==
  ASSUME NEW f \in [Messages -> Fate], NEW f2, NEW d, NEW e, Results(f, d, e), NEW m \in Messages,
         NEW v \in Fate \ {"delivered", "failed"}, f[m] \notin {"delivered", "failed"},
         f2 = [f EXCEPT ![m] = v]
  PROVE  Results(f2, d, e)
<1>1. f2[m] = v /\ OnlyAt(m, f, f2)
  BY OneChange
<1> QED
  BY <1>1, CountStays DEF Results

LEMMA ResultsServed ==
  ASSUME NEW f \in [Messages -> Fate], NEW f2, NEW d, NEW e, NEW d2, NEW e2, Results(f, d, e),
         NEW m \in Messages, f[m] \in {"acked", "refused"},
         f2 = [f EXCEPT ![m] = IF f[m] = "acked" THEN "delivered" ELSE "failed"],
         d2 = IF f[m] = "acked" THEN d + 1 ELSE d,
         e2 = IF f[m] = "refused" THEN e + 1 ELSE e
  PROVE  Results(f2, d2, e2)
<1> DEFINE v == IF f[m] = "acked" THEN "delivered" ELSE "failed"
<1>1. f2[m] = v /\ OnlyAt(m, f, f2)
  <2>1. v \in Fate /\ f2 = [f EXCEPT ![m] = v]
    BY DEF Fate
  <2> HIDE DEF v
  <2> QED
    BY <2>1, OneChange
<1>2. CASE f[m] = "acked"
  <2>1. f2[m] = "delivered" /\ d2 = d + 1 /\ e2 = e
    BY <1>1, <1>2
  <2>2. Count(f2, {"delivered"}) = Count(f, {"delivered"}) + 1
    BY <1>1, <1>2, <2>1, CountRises
  <2>3. Count(f2, {"failed"}) = Count(f, {"failed"})
    BY <1>1, <1>2, <2>1, CountStays
  <2> QED
    BY <2>1, <2>2, <2>3 DEF Results
<1>3. CASE f[m] = "refused"
  <2>1. f2[m] = "failed" /\ d2 = d /\ e2 = e + 1
    BY <1>1, <1>3
  <2>2. Count(f2, {"failed"}) = Count(f, {"failed"}) + 1
    BY <1>1, <1>3, <2>1, CountRises
  <2>3. Count(f2, {"delivered"}) = Count(f, {"delivered"})
    BY <1>1, <1>3, <2>1, CountStays
  <2> QED
    BY <2>1, <2>2, <2>3 DEF Results
<1> QED
  BY <1>2, <1>3

(* What is accepted and not heard of compares two partitions of the        *)
(* messages the client has taken.                                          *)
LEMMA LedgerBalance ==
  ASSUME NEW f, NEW g, NEW n, NEW d, NEW e, NEW C, "counting" \notin C,
         Ledger(f, g, n, C), Results(f, d, e)
  PROVE  /\ n - d - e = Count(f, Pending) - Count(g, {"counting"})
         /\ n \in Nat /\ d \in Nat /\ e \in Nat
         /\ Count(f, Pending) \in Nat /\ Count(g, {"counting"}) \in Nat
<1> DEFINE o == Count(f, Pending)
           c == Count(g, {"counting"})
<1>1. Count(g, Held(C)) = Count(f, Fate \ {"absent"})
  <2>1. \A p \in Messages : g[p] \in Held(C) <=> f[p] \in Fate \ {"absent"}
    BY DEF Ledger
  <2> QED
    BY <2>1, CountSame
<1>2. Count(g, Held(C)) = c + n
  <2>1. {"counting"} \cap C = {}
    OBVIOUS
  <2> QED
    BY <2>1, CountSplit DEF Ledger, Held
<1>3. Count(f, Fate \ {"absent"}) = o + (d + e)
  <2>1. Fate \ {"absent"} = Pending \cup ({"delivered"} \cup {"failed"})
    BY DEF Fate, Pending
  <2>2. Pending \cap ({"delivered"} \cup {"failed"}) = {} /\ {"delivered"} \cap {"failed"} = {}
    BY DEF Pending
  <2>3. Count(f, {"delivered"} \cup {"failed"}) = d + e
    BY <2>2, CountSplit DEF Results
  <2>4. Count(f, Fate \ {"absent"}) = o + Count(f, {"delivered"} \cup {"failed"})
    BY <2>1, <2>2, CountSplit
  <2> QED
    BY <2>3, <2>4
<1>4. n \in Nat /\ d \in Nat /\ e \in Nat /\ o \in Nat /\ c \in Nat
  BY CountType DEF Ledger, Results
<1> HIDE DEF o, c
<1>5. c + n = o + (d + e)
  BY <1>1, <1>2, <1>3
<1>6. n - d - e = o - c
  BY <1>4, <1>5
<1> QED
  BY <1>4, <1>6 DEF o, c

-----------------------------------------------------------------------------
(***************************************************************************)
(* KafkaEventRouter                                                        *)
(***************************************************************************)
RouterCounted  == {"polling", "returned"}
RouterRefusals == {"invalid", "refused", "timedOut"}

RouterInv ==
  /\ Ledger(fate, at, acceptedCount, RouterCounted)
  /\ Results(fate, deliveredCount, failedCount)

RouterGood == RouterInv' /\ Contracted(fate, at, fate', at', {"returned"}, RouterRefusals)

LEMMA RouterInitInv == Router!Init => RouterInv
<1> SUFFICES ASSUME Router!Init PROVE RouterInv
  OBVIOUS
<1>1. /\ fate = [m \in Messages |-> "absent"] /\ at = [m \in Messages |-> "idle"]
      /\ acceptedCount = 0 /\ deliveredCount = 0 /\ failedCount = 0
  BY DEF Router!Init, Router!ClientInit, Router!Publishes
<1>2. /\ Count(at, RouterCounted) = 0
      /\ Count(fate, {"delivered"}) = 0 /\ Count(fate, {"failed"}) = 0
  BY <1>1, CountZero DEF RouterCounted
<1> QED
  BY <1>1, <1>2 DEF RouterInv, Ledger, Results, Fate, Held, RouterCounted

LEMMA RouterStep == RouterInv /\ [Router!Next]_(Router!vars) => RouterGood
<1> SUFFICES ASSUME RouterInv, [Router!Next]_(Router!vars) PROVE RouterGood
  OBVIOUS
<1> DEFINE Q == {"returned"}
<1>a. /\ Ledger(fate, at, acceptedCount, RouterCounted)
      /\ Results(fate, deliveredCount, failedCount)
      /\ fate \in [Messages -> Fate]
  BY DEF RouterInv, Ledger
<1>b. /\ Q \subseteq RouterCounted /\ "counting" \notin RouterCounted
      /\ RouterRefusals \cap Held(RouterCounted) = {}
  BY DEF RouterCounted, RouterRefusals, Held
<1>1. ASSUME NEW p \in Messages,
             \/ Router!Validate(p) \/ Router!ClientRefuses(p) \/ Router!QueueFull(p)
             \/ Router!DrainSliceEnds(p) \/ Router!TimeOut(p)
      PROVE  RouterGood
  <2>1. PICK place \in {"producing", "draining", "invalid", "refused", "timedOut"} :
          at' = [at EXCEPT ![p] = place]
    BY <1>1 DEF Router!Validate, Router!ClientRefuses, Router!QueueFull, Router!DrainSliceEnds,
                Router!TimeOut, Router!Goto
  <2>2. /\ at[p] \in {"idle", "producing", "draining"}
        /\ UNCHANGED <<fate, acceptedCount, deliveredCount, failedCount>>
    BY <1>1 DEF Router!Validate, Router!ClientRefuses, Router!QueueFull, Router!DrainSliceEnds,
                Router!TimeOut
  <2>3. at[p] \notin Held(RouterCounted) /\ place \notin Held(RouterCounted)
    BY <2>2 DEF Held, RouterCounted
  <2>4. /\ Ledger(fate, at', acceptedCount, RouterCounted)
        /\ Contracted(fate, at, fate, at', Q, RouterRefusals)
    BY <1>a, <1>b, <2>1, <2>3, LedgerAside
  <2> QED
    BY <1>a, <2>2, <2>4 DEF RouterGood, RouterInv
<1>2. ASSUME NEW p \in Messages, Router!Produce(p) PROVE RouterGood
  <2>1. /\ at[p] = "producing" /\ at' = [at EXCEPT ![p] = "counting"] /\ fate[p] = "absent"
        /\ fate' = [fate EXCEPT ![p] = "queued"]
        /\ UNCHANGED <<acceptedCount, deliveredCount, failedCount>>
    BY <1>2 DEF Router!Produce, Router!Accept, Router!Goto
  <2>2. at[p] \notin Held(RouterCounted) \cup RouterRefusals
    BY <2>1 DEF Held, RouterCounted, RouterRefusals
  <2>3. /\ Ledger(fate', at', acceptedCount, RouterCounted)
        /\ Contracted(fate, at, fate', at', Q, RouterRefusals)
    BY <1>a, <1>b, <2>1, <2>2, LedgerProduce
  <2>4. Results(fate', deliveredCount, failedCount)
    BY <1>a, <2>1, ResultsKept DEF Fate, Pending
  <2> QED
    BY <2>1, <2>3, <2>4 DEF RouterGood, RouterInv
<1>3. ASSUME NEW p \in Messages, Router!CountAccepted(p) PROVE RouterGood
  <2>1. /\ at[p] = "counting" /\ at' = [at EXCEPT ![p] = "polling"]
        /\ acceptedCount' = acceptedCount + 1 /\ UNCHANGED <<fate, deliveredCount, failedCount>>
    BY <1>3 DEF Router!CountAccepted, Router!Goto
  <2>2. "polling" \in RouterCounted
    BY DEF RouterCounted
  <2>3. /\ Ledger(fate, at', acceptedCount + 1, RouterCounted)
        /\ Contracted(fate, at, fate, at', Q, RouterRefusals)
    BY <1>a, <1>b, <2>1, <2>2, LedgerCount
  <2> QED
    BY <1>a, <2>1, <2>3 DEF RouterGood, RouterInv
<1>4. ASSUME NEW p \in Messages, Router!ReturnReceipt(p) PROVE RouterGood
  <2>1. /\ at[p] = "polling" /\ at' = [at EXCEPT ![p] = "returned"]
        /\ UNCHANGED <<fate, acceptedCount, deliveredCount, failedCount>>
    BY <1>4 DEF Router!ReturnReceipt, Router!Goto
  <2>2. at[p] \in RouterCounted \ Q /\ "returned" \in RouterCounted
    BY <2>1 DEF RouterCounted
  <2>3. /\ Ledger(fate, at', acceptedCount, RouterCounted)
        /\ Contracted(fate, at, fate, at', Q, RouterRefusals)
    BY <1>a, <1>b, <2>1, <2>2, LedgerReturn
  <2> QED
    BY <1>a, <2>1, <2>3 DEF RouterGood, RouterInv
<1>5. ASSUME NEW p \in Messages, Router!ServeReport(p) PROVE RouterGood
  <2> DEFINE v == IF fate[p] = "acked" THEN "delivered" ELSE "failed"
  <2>1. /\ fate[p] \in {"acked", "refused"} /\ UNCHANGED <<at, acceptedCount>>
        /\ fate' = [fate EXCEPT ![p] = v]
        /\ deliveredCount' = IF fate[p] = "acked" THEN deliveredCount + 1 ELSE deliveredCount
        /\ failedCount' = IF fate[p] = "refused" THEN failedCount + 1 ELSE failedCount
    BY <1>5 DEF Router!ServeReport, Router!Serve, Router!OnDelivery
  <2>2. Results(fate', deliveredCount', failedCount')
    BY <1>a, <2>1, ResultsServed
  <2>3. v \in Fate \ {"absent"} /\ fate[p] # "absent"
    BY <2>1 DEF Fate
  <2> HIDE DEF v
  <2>4. /\ Ledger(fate', at, acceptedCount, RouterCounted)
        /\ Contracted(fate, at, fate', at, Q, RouterRefusals)
    BY <1>a, <2>1, <2>3, LedgerServe
  <2> QED
    BY <2>1, <2>2, <2>4 DEF RouterGood, RouterInv
<1>6. CASE Router!Background
  <2>1. PICK p \in Messages, v \in {"acked", "refused"} :
          fate[p] = "queued" /\ fate' = [fate EXCEPT ![p] = v]
    BY <1>6 DEF Router!Background, Router!BackgroundThread, Router!Acknowledge, Router!Refuse
  <2>2. UNCHANGED <<at, acceptedCount, deliveredCount, failedCount>>
    BY <1>6 DEF Router!Background
  <2>3. v \in Fate \ {"absent", "delivered", "failed"}
    BY DEF Fate, Pending
  <2>4. Results(fate', deliveredCount, failedCount)
    BY <1>a, <2>1, <2>3, ResultsKept
  <2>5. /\ Ledger(fate', at, acceptedCount, RouterCounted)
        /\ Contracted(fate, at, fate', at, Q, RouterRefusals)
    BY <1>a, <2>1, <2>3, LedgerServe
  <2> QED
    BY <2>2, <2>4, <2>5 DEF RouterGood, RouterInv
<1>7. CASE \/ Router!ApplicationPolls \/ UNCHANGED Router!vars
           \/ \E p \in Messages : Router!DeadlinePasses(p)
  <2>1. UNCHANGED <<fate, at, acceptedCount, deliveredCount, failedCount>>
    BY <1>7 DEF Router!ApplicationPolls, Router!vars, Router!DeadlinePasses
  <2> QED
    BY <1>a, <2>1 DEF RouterGood, RouterInv, Contracted, ContractStep
<1> QED
  BY <1>1, <1>2, <1>3, <1>4, <1>5, <1>6, <1>7 DEF Router!Next, Router!PublishStep, Router!Publishes

(* The bench exercises one producer, and the others stay as they began.    *)
LEMMA RouterOnBench == Spec => Router!Spec
<1>1. Init => Router!Init
  BY DEF Init
<1>2. [Next]_vars => [Router!Next]_(Router!vars)
  BY DEF Next, vars, routerVars, Router!vars
<1> QED
  BY <1>1, <1>2, PTL DEF Spec, Router!Spec

LEMMA RouterSafe == Spec => []RouterInv
<1>1. RouterInv /\ [Router!Next]_(Router!vars) => RouterInv'
  BY RouterStep DEF RouterGood
<1> QED
  BY <1>1, RouterInitInv, RouterOnBench, PTL DEF Router!Spec

LEMMA RouterBalance ==
  ASSUME RouterInv
  PROVE  /\ Router!Awaiting = Count(fate, Pending) - Count(at, {"counting"})
         /\ Count(fate, Pending) \in Nat /\ Count(at, {"counting"}) \in Nat
<1>1. "counting" \notin RouterCounted
  BY DEF RouterCounted
<1> QED
  BY <1>1, LedgerBalance DEF RouterInv, Router!Awaiting

(* Awaiting is what the client still holds, less what is not yet counted.  *)
LEMMA RouterCounts == RouterInv => Router!AwaitingIsExact
<1>1. /\ Router!Cardinality(Router!Outstanding) = Count(fate, Pending)
      /\ Router!Cardinality(Router!Counting) = Count(at, {"counting"})
  BY DEF Router!Cardinality, Cardinality, Router!Outstanding, Router!Counting, Router!Publishes,
         Router!Pending, Pending, Count, In
<1> QED
  BY <1>1, RouterBalance DEF Router!AwaitingIsExact

(* When no publish is between produce() and its count, and the snapshot    *)
(* shows no failure and nothing awaited, every message was delivered.      *)
LEMMA RouterVerdict == RouterInv => Router!ConfirmedMeansDelivered
<1> SUFFICES ASSUME RouterInv, Router!Counting = {}, failedCount = 0, Router!Awaiting = 0
             PROVE  Router!Accepted = Router!Delivered
  BY DEF Router!ConfirmedMeansDelivered
<1>1. Count(at, {"counting"}) = 0
  <2>1. \A m \in Messages : at[m] \notin {"counting"}
    BY DEF Router!Counting, Router!Publishes
  <2> QED
    BY <2>1, CountZero
<1>2. Count(fate, Pending) = 0
  BY <1>1, RouterBalance
<1>3. Count(fate, {"failed"}) = 0
  BY DEF RouterInv, Results
<1>4. \A p \in Messages : fate[p] \notin Pending /\ fate[p] \notin {"failed"}
  BY <1>2, <1>3, CountZero
<1>5. fate \in [Messages -> Fate]
  BY DEF RouterInv, Ledger
<1> QED
  BY <1>4, <1>5 DEF Router!Accepted, Router!Delivered, Router!Publishes, Fate

(* KafkaEventRouter keeps the contract of publishing.                      *)
LEMMA RouterKeepsContract == Spec => RouterContract!Spec
<1>1. Router!Init => RouterContract!Init
  BY DEF Router!Init, Router!ClientInit, Router!Publishes, RouterContract!Init, Answers, TakenBy
<1>2. RouterInv /\ [Router!Next]_(Router!vars) => [RouterContract!Next]_(RouterContract!vars)
  <2> SUFFICES ASSUME RouterInv, [Router!Next]_(Router!vars)
               PROVE  [RouterContract!Next]_(RouterContract!vars)
    OBVIOUS
  <2>1. Contracted(fate, at, fate', at', {"returned"}, RouterRefusals)
    BY RouterStep DEF RouterGood
  <2> QED
    BY <2>1 DEF Contracted, ContractStep, RouterRefusals, RouterContract!Next,
       RouterContract!vars, RouterContract!Take, RouterContract!Confirm, RouterContract!Refuse,
       RouterContract!OfferAgain, RouterContract!Say
<1> QED
  BY <1>1, <1>2, RouterSafe, RouterOnBench, PTL DEF Router!Spec, RouterContract!Spec

-----------------------------------------------------------------------------
(***************************************************************************)
(* LessonPublisher.  Its books are those of the router, but FireAndForget- *)
(* Publisher has no callbacks and counts no results.  A close() or a       *)
(* finish() begins when nobody publishes, and from then on nothing is      *)
(* produced: what is drained, or confirmed, stays so.                      *)
(***************************************************************************)
LessonCounted == {"polling", "returned"}

LessonClosing ==
  /\ llesson # "router" /\ lshutdown # "open" => \A p \in Messages : lat[p] \in Lesson!AtRest
  /\ llesson = "forget" /\ lshutdown = "closed" => \A p \in Messages : lfate[p] \notin Pending
  /\ Lesson!AllConfirmed(lsummary) =>
       /\ llesson = "confirmed" /\ lshutdown = "closed"
       /\ \A p \in Messages : lfate[p] \in {"absent", "delivered"}

LessonInv ==
  /\ Ledger(lfate, lat, laccepted, LessonCounted)
  /\ llesson # "forget" => Results(lfate, ldelivered, lfailed)
  /\ LessonClosing

LessonGood == LessonInv' /\ Contracted(lfate, lat, lfate', lat', {"returned"}, {"refused"})

LEMMA LessonInitInv == Lesson!Init => LessonInv
<1> SUFFICES ASSUME Lesson!Init PROVE LessonInv
  OBVIOUS
<1>1. /\ lfate = [m \in Messages |-> "absent"] /\ lat = [m \in Messages |-> "idle"]
      /\ laccepted = 0 /\ ldelivered = 0 /\ lfailed = 0
      /\ lshutdown = "open" /\ lsummary = Lesson!NoReport
  BY DEF Lesson!Init, Lesson!ClientInit
<1>2. /\ Count(lat, LessonCounted) = 0
      /\ Count(lfate, {"delivered"}) = 0 /\ Count(lfate, {"failed"}) = 0
  BY <1>1, CountZero DEF LessonCounted
<1>3. ~Lesson!AllConfirmed(lsummary)
  BY <1>1 DEF Lesson!AllConfirmed, Lesson!NoReport
<1> QED
  BY <1>1, <1>2, <1>3 DEF LessonInv, LessonClosing, Ledger, Results, Fate, Held, LessonCounted

(* A step of the client, or of a publish that is under way, takes nothing  *)
(* from a closed publisher.                                                *)
LEMMA LessonClosingKept ==
  ASSUME LessonClosing, UNCHANGED <<llesson, lshutdown, lsummary>>, NEW p \in Messages,
         \A q \in Messages \ {p} : lat'[q] = lat[q] /\ lfate'[q] = lfate[q],
         \/ /\ lat[p] \notin Lesson!AtRest /\ lfate'[p] = lfate[p]
            /\ llesson # "router" => lshutdown = "open"
         \/ lat'[p] = lat[p] /\ lfate[p] \in Pending
         \/ /\ lfate'[p] = lfate[p]
            /\ lat'[p] \in Lesson!AtRest \/ llesson = "router" \/ lshutdown = "open"
  PROVE  LessonClosing'
<1>1. llesson # "router" /\ lshutdown # "open" => \A q \in Messages : lat'[q] \in Lesson!AtRest
  BY DEF LessonClosing, Lesson!AtRest
<1>2. llesson = "forget" /\ lshutdown = "closed" => \A q \in Messages : lfate'[q] \notin Pending
  BY DEF LessonClosing
<1>3. Lesson!AllConfirmed(lsummary) =>
        /\ llesson = "confirmed" /\ lshutdown = "closed"
        /\ \A q \in Messages : lfate'[q] \in {"absent", "delivered"}
  BY DEF LessonClosing, Pending
<1> QED
  BY <1>1, <1>2, <1>3 DEF LessonClosing, Lesson!AllConfirmed, Lesson!AtRest

(* Whoever publishes in a lesson of one thread has found it open.          *)
LEMMA LessonOpen ==
  ASSUME LessonClosing, NEW p \in Messages, lat[p] \notin Lesson!AtRest
  PROVE  llesson = "router" \/ lshutdown = "open"
BY DEF LessonClosing

LEMMA LessonStep == LessonInv /\ [Lesson!Next]_(Lesson!vars) => LessonGood
<1> SUFFICES ASSUME LessonInv, [Lesson!Next]_(Lesson!vars) PROVE LessonGood
  OBVIOUS
<1> DEFINE Q == {"returned"}
           R == {"refused"}
<1>a. /\ Ledger(lfate, lat, laccepted, LessonCounted)
      /\ llesson # "forget" => Results(lfate, ldelivered, lfailed)
      /\ LessonClosing
      /\ lfate \in [Messages -> Fate] /\ DOMAIN lat = Messages
  BY DEF LessonInv, Ledger
<1>b. /\ Q \subseteq LessonCounted /\ "counting" \notin LessonCounted
      /\ R \cap Held(LessonCounted) = {}
  BY DEF LessonCounted, Held
<1>1. ASSUME NEW p \in Messages,
             \/ Lesson!Publish(p) \/ Lesson!Raises(p) \/ Lesson!QueueFull(p)
             \/ Lesson!DrainSliceEnds(p) \/ Lesson!TimeOut(p)
      PROVE  LessonGood
  <2>1. PICK place \in {"producing", "draining", "refused"} : lat' = [lat EXCEPT ![p] = place]
    BY <1>1 DEF Lesson!Publish, Lesson!Raises, Lesson!QueueFull, Lesson!DrainSliceEnds,
                Lesson!TimeOut, Lesson!Goto
  <2>2. /\ lat[p] \in {"idle", "refused", "producing", "draining"}
        /\ UNCHANGED <<lfate, llesson, laccepted, ldelivered, lfailed, lshutdown, lsummary>>
    BY <1>1 DEF Lesson!Publish, Lesson!Raises, Lesson!QueueFull, Lesson!DrainSliceEnds,
                Lesson!TimeOut, Lesson!counters
  <2>3. lat[p] \notin Held(LessonCounted) /\ place \notin Held(LessonCounted)
    BY <2>2 DEF Held, LessonCounted
  <2>4. /\ Ledger(lfate, lat', laccepted, LessonCounted)
        /\ Contracted(lfate, lat, lfate, lat', Q, R)
    BY <1>a, <1>b, <2>1, <2>3, LedgerAside
  <2>5. LessonClosing'
    <3>1. place \in Lesson!AtRest \/ llesson = "router" \/ lshutdown = "open"
      <4>1. CASE Lesson!Publish(p)
        <5>1. lat'[p] = IF lshutdown = "open" THEN "producing" ELSE "refused"
          BY <1>a, <4>1 DEF Lesson!Publish, Lesson!Goto
        <5> QED
          BY <1>a, <2>1, <5>1 DEF Lesson!AtRest
      <4>2. CASE lat[p] \notin Lesson!AtRest
        BY <1>a, <4>2, LessonOpen
      <4> QED
        BY <1>1, <4>1, <4>2 DEF Lesson!Raises, Lesson!QueueFull, Lesson!DrainSliceEnds,
           Lesson!TimeOut, Lesson!AtRest
    <3>2. lat'[p] = place /\ \A q \in Messages \ {p} : lat'[q] = lat[q]
      BY <1>a, <2>1
    <3> QED
      BY <1>a, <2>2, <3>1, <3>2, LessonClosingKept
  <2> QED
    BY <1>a, <2>2, <2>4, <2>5 DEF LessonGood, LessonInv
<1>2. ASSUME NEW p \in Messages, Lesson!Produce(p) PROVE LessonGood
  <2>1. /\ lat[p] = "producing" /\ lat' = [lat EXCEPT ![p] = "counting"] /\ lfate[p] = "absent"
        /\ lfate' = [lfate EXCEPT ![p] = "queued"]
        /\ UNCHANGED <<llesson, laccepted, ldelivered, lfailed, lshutdown, lsummary>>
    BY <1>2 DEF Lesson!Produce, Lesson!Accept, Lesson!Goto, Lesson!counters
  <2>2. lat[p] \notin Held(LessonCounted) \cup R
    BY <2>1 DEF Held, LessonCounted
  <2>3. /\ Ledger(lfate', lat', laccepted, LessonCounted)
        /\ Contracted(lfate, lat, lfate', lat', Q, R)
    BY <1>a, <1>b, <2>1, <2>2, LedgerProduce
  <2>4. llesson # "forget" => Results(lfate', ldelivered, lfailed)
    BY <1>a, <2>1, ResultsKept DEF Fate, Pending
  <2>5. LessonClosing'
    <3>1. llesson = "router" \/ lshutdown = "open"
      BY <1>a, <2>1, LessonOpen DEF Lesson!AtRest
    <3> QED
      BY <1>a, <2>1, <3>1 DEF LessonClosing, Lesson!AllConfirmed, Lesson!AtRest
  <2> QED
    BY <2>1, <2>3, <2>4, <2>5 DEF LessonGood, LessonInv
<1>3. ASSUME NEW p \in Messages, Lesson!CountAccepted(p) PROVE LessonGood
  <2>1. PICK place \in {"polling", "returned"} :
          /\ lat[p] = "counting" /\ lat' = [lat EXCEPT ![p] = place]
          /\ laccepted' = laccepted + 1
          /\ UNCHANGED <<lfate, llesson, ldelivered, lfailed, lshutdown, lsummary>>
    BY <1>3 DEF Lesson!CountAccepted, Lesson!Goto
  <2>2. place \in LessonCounted
    BY DEF LessonCounted
  <2>3. /\ Ledger(lfate, lat', laccepted + 1, LessonCounted)
        /\ Contracted(lfate, lat, lfate, lat', Q, R)
    BY <1>a, <1>b, <2>1, <2>2, LedgerCount
  <2>4. LessonClosing'
    <3>1. llesson = "router" \/ lshutdown = "open"
      BY <1>a, <2>1, LessonOpen DEF Lesson!AtRest
    <3> QED
      BY <1>a, <2>1, <3>1 DEF LessonClosing, Lesson!AllConfirmed, Lesson!AtRest
  <2> QED
    BY <1>a, <2>1, <2>3, <2>4 DEF LessonGood, LessonInv
<1>4. ASSUME NEW p \in Messages, Lesson!PollReturns(p) PROVE LessonGood
  <2>1. /\ lat[p] = "polling" /\ lat' = [lat EXCEPT ![p] = "returned"]
        /\ UNCHANGED <<lfate, llesson, laccepted, ldelivered, lfailed, lshutdown, lsummary>>
    BY <1>4 DEF Lesson!PollReturns, Lesson!Goto, Lesson!counters
  <2>2. lat[p] \in LessonCounted \ Q /\ "returned" \in LessonCounted
    BY <2>1 DEF LessonCounted
  <2>3. /\ Ledger(lfate, lat', laccepted, LessonCounted)
        /\ Contracted(lfate, lat, lfate, lat', Q, R)
    BY <1>a, <1>b, <2>1, <2>2, LedgerReturn
  <2>4. LessonClosing'
    <3>1. llesson = "router" \/ lshutdown = "open"
      BY <1>a, <2>1, LessonOpen DEF Lesson!AtRest
    <3> QED
      BY <1>a, <2>1, <3>1 DEF LessonClosing, Lesson!AllConfirmed, Lesson!AtRest
  <2> QED
    BY <1>a, <2>1, <2>3, <2>4 DEF LessonGood, LessonInv
<1>5. ASSUME NEW p \in Messages, Lesson!ServeReport(p) PROVE LessonGood
  <2> DEFINE v == IF lfate[p] = "acked" THEN "delivered" ELSE "failed"
  <2>1. /\ lfate[p] \in {"acked", "refused"} /\ lfate' = [lfate EXCEPT ![p] = v]
        /\ UNCHANGED <<lat, llesson, laccepted, lshutdown, lsummary>>
    BY <1>5 DEF Lesson!ServeReport, Lesson!Serve
  <2>2. llesson # "forget" => Results(lfate', ldelivered', lfailed')
    <3> SUFFICES ASSUME llesson # "forget" PROVE Results(lfate', ldelivered', lfailed')
      OBVIOUS
    <3>1. /\ ldelivered' = IF lfate[p] = "acked" THEN ldelivered + 1 ELSE ldelivered
          /\ lfailed' = IF lfate[p] = "refused" THEN lfailed + 1 ELSE lfailed
      BY <1>5 DEF Lesson!ServeReport, Lesson!OnDelivery
    <3>2. Results(lfate, ldelivered, lfailed)
      BY <1>a
    <3> QED
      BY <1>a, <2>1, <3>1, <3>2, ResultsServed
  <2>3. v \in Fate \ {"absent"} /\ lfate[p] # "absent" /\ lfate[p] \in Pending
    BY <2>1 DEF Fate, Pending
  <2>4. LessonClosing'
    <3>1. \A q \in Messages \ {p} : lfate'[q] = lfate[q]
      BY <1>a, <2>1
    <3> HIDE DEF v
    <3> QED
      BY <1>a, <2>1, <2>3, <3>1, LessonClosingKept
  <2> HIDE DEF v
  <2>5. /\ Ledger(lfate', lat, laccepted, LessonCounted)
        /\ Contracted(lfate, lat, lfate', lat, Q, R)
    BY <1>a, <2>1, <2>3, LedgerServe
  <2> QED
    BY <2>1, <2>2, <2>4, <2>5 DEF LessonGood, LessonInv
<1>6. CASE Lesson!Background
  <2>1. PICK p \in Messages, v \in {"acked", "refused"} :
          lfate[p] = "queued" /\ lfate' = [lfate EXCEPT ![p] = v]
    BY <1>6 DEF Lesson!Background, Lesson!BackgroundThread, Lesson!Acknowledge, Lesson!Refuse
  <2>2. UNCHANGED <<lat, llesson, laccepted, ldelivered, lfailed, lshutdown, lsummary>>
    BY <1>6 DEF Lesson!Background, Lesson!counters
  <2>3. v \in Fate \ {"absent", "delivered", "failed"} /\ lfate[p] \in Pending
    BY <2>1 DEF Fate, Pending
  <2>4. llesson # "forget" => Results(lfate', ldelivered, lfailed)
    BY <1>a, <2>1, <2>3, ResultsKept
  <2>5. /\ Ledger(lfate', lat, laccepted, LessonCounted)
        /\ Contracted(lfate, lat, lfate', lat, Q, R)
    BY <1>a, <2>1, <2>3, LedgerServe
  <2>6. LessonClosing'
    <3>1. \A q \in Messages \ {p} : lfate'[q] = lfate[q]
      BY <1>a, <2>1
    <3> QED
      BY <1>a, <2>2, <2>3, <3>1, LessonClosingKept
  <2> QED
    BY <2>2, <2>4, <2>5, <2>6 DEF LessonGood, LessonInv
<1>7. ASSUME UNCHANGED <<lfate, lat, llesson, laccepted, ldelivered, lfailed>>, LessonClosing'
      PROVE  LessonGood
  BY <1>a, <1>7 DEF LessonGood, LessonInv, Contracted, ContractStep
<1>8. CASE Lesson!BeginClose
  <2>1. /\ \A p \in Messages : lat[p] \in Lesson!AtRest
        /\ lshutdown' = "flushing"
        /\ ~Lesson!AllConfirmed(lsummary)
        /\ UNCHANGED <<lfate, lat, llesson, laccepted, ldelivered, lfailed, lsummary>>
    BY <1>a, <1>8 DEF Lesson!BeginClose, Lesson!Quiet, Lesson!counters, LessonClosing
  <2>2. LessonClosing'
    BY <2>1 DEF LessonClosing, Lesson!AllConfirmed, Lesson!AtRest
  <2> QED
    BY <1>7, <2>1, <2>2
<1>9. CASE Lesson!CloseReturns
  <2>1. /\ llesson = "forget" /\ lshutdown = "flushing"
        /\ lshutdown' = "closed" => \A p \in Messages : lfate[p] \notin Pending
        /\ UNCHANGED <<lfate, lat, llesson, laccepted, ldelivered, lfailed, lsummary>>
    BY <1>9 DEF Lesson!CloseReturns, Lesson!counters, Lesson!Outstanding, Lesson!Pending, Pending
  <2>2. LessonClosing'
    BY <1>a, <2>1 DEF LessonClosing, Lesson!AllConfirmed, Lesson!AtRest
  <2> QED
    BY <1>7, <2>1, <2>2
<1>10. CASE Lesson!FinishReturns
  <2>1. /\ llesson = "confirmed" /\ lshutdown = "flushing" /\ lshutdown' = "closed"
        /\ lsummary'.failed = lfailed
        /\ lsummary'.remaining = Lesson!Cardinality(Lesson!Outstanding)
        /\ UNCHANGED <<lfate, lat, llesson, laccepted, ldelivered, lfailed>>
    BY <1>10 DEF Lesson!FinishReturns, Lesson!counters
  <2>2. Lesson!Cardinality(Lesson!Outstanding) = Count(lfate, Pending)
    BY DEF Lesson!Cardinality, Cardinality, Lesson!Outstanding, Lesson!Pending, Pending, Count, In
  <2>3. ASSUME Lesson!AllConfirmed(lsummary')
        PROVE  \A p \in Messages : lfate[p] \in {"absent", "delivered"}
    <3>1. Count(lfate, Pending) = 0 /\ Count(lfate, {"failed"}) = 0
      BY <1>a, <2>1, <2>2, <2>3 DEF Lesson!AllConfirmed, Results
    <3>2. \A p \in Messages : lfate[p] \notin Pending /\ lfate[p] \notin {"failed"}
      BY <3>1, CountZero
    <3> QED
      BY <1>a, <3>2 DEF Fate
  <2>4. LessonClosing'
    <3>1. \A p \in Messages : lat[p] \in Lesson!AtRest
      BY <1>a, <2>1 DEF LessonClosing
    <3> QED
      BY <2>1, <2>3, <3>1 DEF LessonClosing, Lesson!AllConfirmed, Lesson!AtRest
  <2> QED
    BY <1>7, <2>1, <2>4
<1>11. CASE UNCHANGED Lesson!vars \/ \E p \in Messages : Lesson!DeadlinePasses(p)
  <2>1. UNCHANGED <<lfate, lat, llesson, laccepted, ldelivered, lfailed, lshutdown, lsummary>>
    BY <1>11 DEF Lesson!vars, Lesson!DeadlinePasses, Lesson!counters
  <2>2. LessonClosing'
    BY <1>a, <2>1 DEF LessonClosing, Lesson!AllConfirmed, Lesson!AtRest
  <2> QED
    BY <1>7, <2>1, <2>2
<1> QED
  BY <1>1, <1>2, <1>3, <1>4, <1>5, <1>6, <1>8, <1>9, <1>10, <1>11
  DEF Lesson!Next, Lesson!PublishStep

LEMMA LessonOnBench == Spec => Lesson!Spec
<1>1. Init => Lesson!Init
  BY DEF Init
<1>2. [Next]_vars => [Lesson!Next]_(Lesson!vars)
  BY DEF Next, vars, lessonVars, Lesson!vars, Lesson!counters
<1> QED
  BY <1>1, <1>2, PTL DEF Spec, Lesson!Spec

LEMMA LessonSafe == Spec => []LessonInv
<1>1. LessonInv /\ [Lesson!Next]_(Lesson!vars) => LessonInv'
  BY LessonStep DEF LessonGood
<1> QED
  BY <1>1, LessonInitInv, LessonOnBench, PTL DEF Lesson!Spec

LEMMA LessonCounts == LessonInv => Lesson!AwaitingIsExact
<1> SUFFICES ASSUME LessonInv, llesson # "forget"
             PROVE  laccepted - ldelivered - lfailed
                      = Lesson!Cardinality(Lesson!Outstanding)
                        - Lesson!Cardinality({m \in Messages : lat[m] = "counting"})
  BY DEF Lesson!AwaitingIsExact
<1>1. "counting" \notin LessonCounted
  BY DEF LessonCounted
<1>2. laccepted - ldelivered - lfailed = Count(lfate, Pending) - Count(lat, {"counting"})
  BY <1>1, LedgerBalance DEF LessonInv
<1>3. /\ Lesson!Cardinality(Lesson!Outstanding) = Count(lfate, Pending)
      /\ Lesson!Cardinality({m \in Messages : lat[m] = "counting"}) = Count(lat, {"counting"})
  BY DEF Lesson!Cardinality, Cardinality, Lesson!Outstanding, Lesson!Pending, Pending, Count, In
<1> QED
  BY <1>2, <1>3

LEMMA LessonVerdict == LessonInv => Lesson!VerdictIsSound /\ Lesson!ClosedMeansDrained
BY DEF LessonInv, LessonClosing, Lesson!VerdictIsSound, Lesson!ClosedMeansDrained,
       Lesson!Outstanding, Lesson!Pending, Pending

LEMMA LessonKeepsContract == Spec => LessonContract!Spec
<1>1. Lesson!Init => LessonContract!Init
  BY DEF Lesson!Init, Lesson!ClientInit, LessonContract!Init, Answers, TakenBy
<1>2. LessonInv /\ [Lesson!Next]_(Lesson!vars) => [LessonContract!Next]_(LessonContract!vars)
  <2> SUFFICES ASSUME LessonInv, [Lesson!Next]_(Lesson!vars)
               PROVE  [LessonContract!Next]_(LessonContract!vars)
    OBVIOUS
  <2>1. Contracted(lfate, lat, lfate', lat', {"returned"}, {"refused"})
    BY LessonStep DEF LessonGood
  <2> QED
    BY <2>1 DEF Contracted, ContractStep, LessonContract!Next, LessonContract!vars,
       LessonContract!Take, LessonContract!Confirm, LessonContract!Refuse,
       LessonContract!OfferAgain, LessonContract!Say
<1> QED
  BY <1>1, <1>2, LessonSafe, LessonOnBench, PTL DEF Lesson!Spec, LessonContract!Spec

-----------------------------------------------------------------------------
(***************************************************************************)
(* SharedKafkaPublisher.  Its books again are those of the router.  That   *)
(* no callback is counted early rests on the metrics lock: a message whose *)
(* publish is between produce() and its count has no result yet.  That a   *)
(* drained client stays so rests on the state lock: _closing is looked at  *)
(* under the lock that covers produce().                                   *)
(***************************************************************************)
SharedRefusals == {"closed", "refused", "timedOut"}

SharedBooks ==
  /\ Ledger(sfate, sat, saccepted, {"accepted"})
  /\ Results(sfate, sdelivered, sfailed)

Locking(p) == sat[p] \in {"locked", "counting"}

SharedLocks ==
  /\ \A p, q \in Messages : Locking(p) /\ Locking(q) => p = q
  /\ sclosing => \A p \in Messages : ~Locking(p)
  /\ \A p \in Messages : sat[p] = "counting" => sfate[p] \in Pending
  /\ scloser # "idle" => sclosing
  /\ sdrained => sclosing /\ \A p \in Messages : sfate[p] \notin Pending

SharedInv == SharedBooks /\ SharedLocks

SharedGood == SharedInv' /\ Contracted(sfate, sat, sfate', sat', {"accepted"}, SharedRefusals)

LEMMA SharedInitInv == Shared!Init => SharedInv
<1> SUFFICES ASSUME Shared!Init PROVE SharedInv
  OBVIOUS
<1>1. /\ sfate = [m \in Messages |-> "absent"] /\ sat = [m \in Messages |-> "idle"]
      /\ saccepted = 0 /\ sdelivered = 0 /\ sfailed = 0 /\ scloser = "idle"
  BY DEF Shared!Init, Shared!ClientInit, Shared!Publishes
<1>2. /\ Count(sat, {"accepted"}) = 0
      /\ Count(sfate, {"delivered"}) = 0 /\ Count(sfate, {"failed"}) = 0
  BY <1>1, CountZero
<1>3. SharedBooks
  BY <1>1, <1>2 DEF SharedBooks, Ledger, Results, Fate, Held
<1>4. ~sclosing /\ ~sdrained
  BY DEF Shared!Init
<1>5. SharedLocks
  BY <1>1, <1>4 DEF SharedLocks, Locking
<1> QED
  BY <1>3, <1>5 DEF SharedInv

LEMMA SharedStep == SharedInv /\ [Shared!Next]_(Shared!vars) => SharedGood
<1> SUFFICES ASSUME SharedInv, [Shared!Next]_(Shared!vars) PROVE SharedGood
  OBVIOUS
<1> DEFINE C == {"accepted"}
           R == SharedRefusals
<1>a. /\ Ledger(sfate, sat, saccepted, C)
      /\ Results(sfate, sdelivered, sfailed)
      /\ SharedLocks
      /\ sfate \in [Messages -> Fate] /\ DOMAIN sat = Messages
  BY DEF SharedInv, SharedBooks, Ledger
<1>b. C \subseteq C /\ "counting" \notin C /\ R \cap Held(C) = {}
  BY DEF SharedRefusals, Held
<1>1. ASSUME NEW p \in Messages,
             \/ Shared!Publish(p) \/ Shared!CheckClosing(p) \/ Shared!QueueFull(p)
             \/ Shared!Raises(p) \/ Shared!TimeOut(p) \/ Shared!Sleep(p)
      PROVE  SharedGood
  <2>1. PICK place \in {"trying", "closed", "locked", "full", "refused", "timedOut"} :
          /\ sat' = [sat EXCEPT ![p] = place]
          /\ place = "locked" => ~sclosing /\ \A q \in Messages : ~Locking(q)
    BY <1>1 DEF Shared!Publish, Shared!CheckClosing, Shared!QueueFull, Shared!Raises,
                Shared!TimeOut, Shared!Sleep, Shared!Goto, Shared!StateLockFree, Locking,
                Shared!Publishes
  <2>2. /\ sat[p] \in {"idle", "trying", "locked", "full"}
        /\ UNCHANGED <<sfate, sclosing, scloser, saccepted, sdelivered, sfailed, sdrained>>
    BY <1>1 DEF Shared!Publish, Shared!CheckClosing, Shared!QueueFull, Shared!Raises,
                Shared!TimeOut, Shared!Sleep, Shared!metrics
  <2>3. sat[p] \notin Held(C) /\ place \notin Held(C)
    BY <2>2 DEF Held
  <2>4. Ledger(sfate, sat', saccepted, C) /\ Contracted(sfate, sat, sfate, sat', C, R)
    BY <1>a, <1>b, <2>1, <2>3, LedgerAside
  <2>5. sat'[p] = place /\ \A q \in Messages \ {p} : sat'[q] = sat[q]
    BY <1>a, <2>1
  <2>6. SharedLocks'
    BY <1>a, <2>1, <2>2, <2>5 DEF SharedLocks, Locking
  <2> QED
    BY <1>a, <2>2, <2>4, <2>6 DEF SharedGood, SharedInv, SharedBooks
<1>2. ASSUME NEW p \in Messages, Shared!Produce(p) PROVE SharedGood
  <2>1. /\ sat[p] = "locked" /\ sat' = [sat EXCEPT ![p] = "counting"] /\ sfate[p] = "absent"
        /\ sfate' = [sfate EXCEPT ![p] = "queued"]
        /\ UNCHANGED <<sclosing, scloser, saccepted, sdelivered, sfailed, sdrained>>
    BY <1>2 DEF Shared!Produce, Shared!Accept, Shared!Goto, Shared!metrics
  <2>2. sat[p] \notin Held(C) \cup R
    BY <2>1 DEF Held, SharedRefusals
  <2>3. Ledger(sfate', sat', saccepted, C) /\ Contracted(sfate, sat, sfate', sat', C, R)
    BY <1>a, <1>b, <2>1, <2>2, LedgerProduce
  <2>4. Results(sfate', sdelivered, sfailed)
    BY <1>a, <2>1, ResultsKept DEF Fate, Pending
  <2>5. /\ sat'[p] = "counting" /\ sfate'[p] = "queued"
        /\ \A q \in Messages \ {p} : sat'[q] = sat[q] /\ sfate'[q] = sfate[q]
    BY <1>a, <2>1
  <2>6. SharedLocks'
    <3>1. ~sclosing /\ ~sdrained
      BY <1>a, <2>1 DEF SharedLocks, Locking
    <3> QED
      BY <1>a, <2>1, <2>5, <3>1 DEF SharedLocks, Locking, Pending
  <2> QED
    BY <2>1, <2>3, <2>4, <2>6 DEF SharedGood, SharedInv, SharedBooks
<1>3. ASSUME NEW p \in Messages, Shared!CountAccepted(p) PROVE SharedGood
  <2>1. /\ sat[p] = "counting" /\ sat' = [sat EXCEPT ![p] = "accepted"]
        /\ saccepted' = saccepted + 1
        /\ UNCHANGED <<sfate, sclosing, scloser, sdelivered, sfailed, sdrained>>
    BY <1>3 DEF Shared!CountAccepted, Shared!Goto
  <2>2. Ledger(sfate, sat', saccepted + 1, C) /\ Contracted(sfate, sat, sfate, sat', C, R)
    BY <1>a, <1>b, <2>1, LedgerCount
  <2>3. sat'[p] = "accepted" /\ \A q \in Messages \ {p} : sat'[q] = sat[q]
    BY <1>a, <2>1
  <2>4. SharedLocks'
    BY <1>a, <2>1, <2>3 DEF SharedLocks, Locking
  <2> QED
    BY <1>a, <2>1, <2>2, <2>4 DEF SharedGood, SharedInv, SharedBooks
<1>4. ASSUME NEW p \in Messages, Shared!ServeReport(p) PROVE SharedGood
  <2> DEFINE v == IF sfate[p] = "acked" THEN "delivered" ELSE "failed"
  <2>1. /\ sfate[p] \in {"acked", "refused"} /\ sfate' = [sfate EXCEPT ![p] = v]
        /\ sdelivered' = IF sfate[p] = "acked" THEN sdelivered + 1 ELSE sdelivered
        /\ sfailed' = IF sfate[p] = "refused" THEN sfailed + 1 ELSE sfailed
        /\ UNCHANGED <<sat, sclosing, scloser, saccepted, sdrained>>
    BY <1>4 DEF Shared!ServeReport, Shared!Serve, Shared!OnDelivery
  <2>2. Results(sfate', sdelivered', sfailed')
    BY <1>a, <2>1, ResultsServed
  <2>3. v \in Fate \ {"absent"} /\ sfate[p] # "absent" /\ sfate[p] \in Pending
    BY <2>1 DEF Fate, Pending
  <2>4. SharedLocks'
    <3>1. \A q \in Messages \ {p} : sfate'[q] = sfate[q]
      BY <1>a, <2>1
    <3>2. \A q \in Messages : sat[q] # "counting"
      BY <1>4 DEF Shared!ServeReport, Shared!MetricsLockFree, Shared!Publishes
    <3>3. ~sdrained
      BY <1>a, <2>3 DEF SharedLocks
    <3> QED
      BY <1>a, <2>1, <3>1, <3>2, <3>3 DEF SharedLocks, Locking
  <2> HIDE DEF v
  <2>5. Ledger(sfate', sat, saccepted, C) /\ Contracted(sfate, sat, sfate', sat, C, R)
    BY <1>a, <2>1, <2>3, LedgerServe
  <2> QED
    BY <2>1, <2>2, <2>4, <2>5 DEF SharedGood, SharedInv, SharedBooks
<1>5. CASE Shared!Background
  <2>1. PICK p \in Messages, v \in {"acked", "refused"} :
          sfate[p] = "queued" /\ sfate' = [sfate EXCEPT ![p] = v]
    BY <1>5 DEF Shared!Background, Shared!BackgroundThread, Shared!Acknowledge, Shared!Refuse
  <2>2. UNCHANGED <<sat, sclosing, scloser, saccepted, sdelivered, sfailed, sdrained>>
    BY <1>5 DEF Shared!Background, Shared!metrics
  <2>3. v \in Fate \ {"absent", "delivered", "failed"} /\ sfate[p] \in Pending /\ v \in Pending
    BY <2>1 DEF Fate, Pending
  <2>4. Results(sfate', sdelivered, sfailed)
    BY <1>a, <2>1, <2>3, ResultsKept
  <2>5. Ledger(sfate', sat, saccepted, C) /\ Contracted(sfate, sat, sfate', sat, C, R)
    BY <1>a, <2>1, <2>3, LedgerServe
  <2>6. SharedLocks'
    <3>1. sfate'[p] = v /\ \A q \in Messages \ {p} : sfate'[q] = sfate[q]
      BY <1>a, <2>1
    <3>2. ~sdrained
      BY <1>a, <2>3 DEF SharedLocks
    <3> QED
      BY <1>a, <2>2, <2>3, <3>1, <3>2 DEF SharedLocks, Locking
  <2> QED
    BY <2>2, <2>4, <2>5, <2>6 DEF SharedGood, SharedInv, SharedBooks
<1>6. ASSUME UNCHANGED <<sfate, sat, saccepted, sdelivered, sfailed>>, SharedLocks'
      PROVE  SharedGood
  BY <1>a, <1>6 DEF SharedGood, SharedInv, SharedBooks, Contracted, ContractStep
<1>7. CASE Shared!BeginClose
  <2>1. /\ \A p \in Messages : ~Locking(p)
        /\ sclosing' = TRUE /\ scloser' = "joining"
        /\ UNCHANGED <<sfate, sat, saccepted, sdelivered, sfailed, sdrained>>
    BY <1>7 DEF Shared!BeginClose, Shared!StateLockFree, Shared!Publishes, Locking, Shared!metrics
  <2>2. SharedLocks'
    BY <1>a, <2>1 DEF SharedLocks, Locking
  <2> QED
    BY <1>6, <2>1, <2>2
<1>8. CASE Shared!PollerStops \/ Shared!JoinTimesOut \/ Shared!Join
  <2>1. /\ UNCHANGED <<sfate, sat, sclosing, saccepted, sdelivered, sfailed, sdrained>>
        /\ scloser' # "idle" => scloser # "idle"
    BY <1>8 DEF Shared!PollerStops, Shared!JoinTimesOut, Shared!Join, Shared!metrics
  <2>2. SharedLocks'
    BY <1>a, <2>1 DEF SharedLocks, Locking
  <2> QED
    BY <1>6, <2>1, <2>2
<1>9. CASE Shared!FlushReturns
  <2>1. /\ scloser = "flushing" /\ scloser' = "idle"
        /\ UNCHANGED <<sfate, sat, sclosing, saccepted, sdelivered, sfailed>>
    BY <1>9 DEF Shared!FlushReturns, Shared!metrics
  <2>2. sdrained' => sdrained \/ \A p \in Messages : sfate[p] \notin Pending
    BY <1>9 DEF Shared!FlushReturns, Shared!Outstanding, Shared!Pending, Pending
  <2>3. SharedLocks'
    BY <1>a, <2>1, <2>2 DEF SharedLocks, Locking
  <2> QED
    BY <1>6, <2>1, <2>3
<1>10. CASE UNCHANGED Shared!vars \/ \E p \in Messages : Shared!DeadlinePasses(p)
  <2>1. UNCHANGED <<sfate, sat, sclosing, scloser, saccepted, sdelivered, sfailed, sdrained>>
    BY <1>10 DEF Shared!vars, Shared!DeadlinePasses, Shared!metrics
  <2>2. SharedLocks'
    BY <1>a, <2>1 DEF SharedLocks, Locking
  <2> QED
    BY <1>6, <2>1, <2>2
<1> QED
  BY <1>1, <1>2, <1>3, <1>4, <1>5, <1>7, <1>8, <1>9, <1>10
  DEF Shared!Next, Shared!PublishStep, Shared!ProduceStep, Shared!Publishes

LEMMA SharedOnBench == Spec => Shared!Spec
<1>1. Init => Shared!Init
  BY DEF Init
<1>2. [Next]_vars => [Shared!Next]_(Shared!vars)
  BY DEF Next, vars, sharedVars, Shared!vars, Shared!metrics
<1> QED
  BY <1>1, <1>2, PTL DEF Spec, Shared!Spec

LEMMA SharedSafe == Spec => []SharedInv
<1>1. SharedInv /\ [Shared!Next]_(Shared!vars) => SharedInv'
  BY SharedStep DEF SharedGood
<1> QED
  BY <1>1, SharedInitInv, SharedOnBench, PTL DEF Shared!Spec

(* No result is shown before the acceptance it belongs to, and when nobody *)
(* holds the metrics lock the difference is what the client holds.         *)
LEMMA SharedCounts == SharedInv => Shared!CountsAreOrdered
<1> SUFFICES ASSUME SharedInv PROVE Shared!CountsAreOrdered
  OBVIOUS
<1> DEFINE o == Count(sfate, Pending)
           c == Count(sat, {"counting"})
<1>1. /\ saccepted - sdelivered - sfailed = o - c
      /\ saccepted \in Nat /\ sdelivered \in Nat /\ sfailed \in Nat /\ o \in Nat /\ c \in Nat
  BY LedgerBalance DEF SharedInv, SharedBooks
<1>2. c <= o
  <2>1. In(sat, {"counting"}) \subseteq In(sfate, Pending)
    BY DEF SharedInv, SharedLocks, In
  <2> QED
    BY <2>1, CountType, FS_Subset DEF Count
<1>3. Shared!MetricsLockFree => c = 0
  <2>1. Shared!MetricsLockFree => \A p \in Messages : sat[p] \notin {"counting"}
    BY DEF Shared!MetricsLockFree, Shared!Publishes
  <2> QED
    BY <2>1, CountZero
<1>4. Shared!Cardinality(Shared!Outstanding) = o
  BY DEF Shared!Cardinality, Cardinality, Shared!Outstanding, Shared!Pending, Pending, Count, In
<1> HIDE DEF o, c
<1>5. sdelivered + sfailed <= saccepted
  BY <1>1, <1>2
<1>6. Shared!MetricsLockFree => saccepted - sdelivered - sfailed = o
  BY <1>1, <1>3
<1> QED
  BY <1>4, <1>5, <1>6 DEF Shared!CountsAreOrdered

(* Once a close() has returned 0 the client is empty for good.             *)
LEMMA SharedDrained == SharedInv => Shared!DrainedForGood
BY DEF SharedInv, SharedLocks, Shared!DrainedForGood, Shared!Outstanding, Shared!Pending, Pending

LEMMA SharedKeepsContract == Spec => SharedContract!Spec
<1>1. Shared!Init => SharedContract!Init
  BY DEF Shared!Init, Shared!ClientInit, Shared!Publishes, SharedContract!Init, Answers, TakenBy
<1>2. SharedInv /\ [Shared!Next]_(Shared!vars) => [SharedContract!Next]_(SharedContract!vars)
  <2> SUFFICES ASSUME SharedInv, [Shared!Next]_(Shared!vars)
               PROVE  [SharedContract!Next]_(SharedContract!vars)
    OBVIOUS
  <2>1. Contracted(sfate, sat, sfate', sat', {"accepted"}, SharedRefusals)
    BY SharedStep DEF SharedGood
  <2> QED
    BY <2>1 DEF Contracted, ContractStep, SharedRefusals, SharedContract!Next,
       SharedContract!vars, SharedContract!Take, SharedContract!Confirm, SharedContract!Refuse,
       SharedContract!OfferAgain, SharedContract!Say
<1> QED
  BY <1>1, <1>2, SharedSafe, SharedOnBench, PTL DEF Shared!Spec, SharedContract!Spec

-----------------------------------------------------------------------------
(***************************************************************************)
(* FireAndForgetProducer.  What a send says of a message is its result,    *)
(* once the send is over.  poll() serves all reports at once: the fates    *)
(* move on, but no message comes to the client, leaves it or is pending    *)
(* again.                                                                  *)
(***************************************************************************)
ForgetRefusals == {"producer_closed", "queue_full", "client_rejected", "raised"}
ForgetPlaces   == {"idle", "entering", "producing", "calling", "draining"}

Said(a, r) == [m \in Messages |-> IF a[m] = "idle" THEN r[m] ELSE "none"]

Advances(f, f2) ==
  /\ f2 \in [Messages -> Fate]
  /\ \A m \in Messages : /\ f[m] = "absent" <=> f2[m] = "absent"
                         /\ f2[m] \in Pending => f[m] \in Pending

ForgetSends ==
  /\ gfate \in [Messages -> Fate]
  /\ gat \in [Messages -> ForgetPlaces] /\ gresult \in [Messages -> Forget!SendResult]
  /\ \A m \in Messages : /\ gresult[m] = "queued" <=> gfate[m] # "absent"
                         /\ gat[m] # "idle" => gresult[m] \in {"none", "queue_full"}

ForgetCloses ==
  /\ glifecycle # "open" /\ ~gearly => \A m \in Messages : gat[m] = "idle"
  /\ gresolved => glifecycle = "closed"
  /\ gresolved /\ ~gearly => \A m \in Messages : gfate[m] \notin Pending

ForgetInv == ForgetSends /\ ForgetCloses

ForgetContracted ==
  ContractStep(Answers(Said(gat, gresult), {"queued"}, ForgetRefusals),
               Answers(Said(gat', gresult'), {"queued"}, ForgetRefusals),
               TakenBy(gfate), TakenBy(gfate'))

ForgetGood == ForgetInv' /\ ForgetContracted

LEMMA ForgetInitInv == Forget!Init => ForgetInv
<1> SUFFICES ASSUME Forget!Init PROVE ForgetInv
  OBVIOUS
<1>1. /\ gfate = [m \in Messages |-> "absent"] /\ gat = [m \in Messages |-> "idle"]
      /\ gresult = [m \in Messages |-> "none"]
  BY DEF Forget!Init, Forget!ClientInit
<1>2. glifecycle = "open" /\ ~gresolved
  BY DEF Forget!Init
<1>3. ForgetSends
  BY <1>1 DEF ForgetSends, Fate, ForgetPlaces, Forget!SendResult
<1>4. ForgetCloses
  BY <1>2 DEF ForgetCloses
<1> QED
  BY <1>3, <1>4 DEF ForgetInv

(* The send of one message goes on: to place a, with result r and fate v.  *)
LEMMA ForgetMove ==
  ASSUME ForgetSends, NEW m \in Messages,
         NEW a \in ForgetPlaces, NEW r \in Forget!SendResult, NEW v \in Fate,
         gat' = [gat EXCEPT ![m] = a], gresult' = [gresult EXCEPT ![m] = r],
         gfate' = [gfate EXCEPT ![m] = v],
         r = "queued" <=> v # "absent",
         a # "idle" => r \in {"none", "queue_full"},
         MessageStep(Says(IF gat[m] = "idle" THEN gresult[m] ELSE "none", {"queued"}, ForgetRefusals),
                     Says(IF a = "idle" THEN r ELSE "none", {"queued"}, ForgetRefusals),
                     gfate[m] # "absent", v # "absent")
  PROVE  ForgetSends' /\ ForgetContracted
<1>1. /\ gat' \in [Messages -> ForgetPlaces] /\ gat'[m] = a /\ OnlyAt(m, gat, gat')
      /\ gresult' \in [Messages -> Forget!SendResult] /\ gresult'[m] = r
      /\ OnlyAt(m, gresult, gresult')
      /\ gfate' \in [Messages -> Fate] /\ gfate'[m] = v /\ OnlyAt(m, gfate, gfate')
  BY OneChange DEF ForgetSends
<1>2. ForgetSends'
  BY <1>1 DEF ForgetSends, OnlyAt
<1> DEFINE s  == Said(gat, gresult)
           s2 == Said(gat', gresult')
<1>3. /\ DOMAIN s = Messages /\ DOMAIN s2 = Messages
      /\ s[m] = IF gat[m] = "idle" THEN gresult[m] ELSE "none"
      /\ s2[m] = IF a = "idle" THEN r ELSE "none"
  BY <1>1 DEF Said
<1>4. OnlyAt(m, s, s2)
  BY <1>1 DEF Said, OnlyAt
<1>5. DOMAIN gfate = Messages /\ DOMAIN gfate' = Messages
  BY <1>1 DEF ForgetSends
<1> HIDE DEF s, s2
<1>6. MessageStep(Says(s[m], {"queued"}, ForgetRefusals), Says(s2[m], {"queued"}, ForgetRefusals),
                  gfate[m] # "absent", gfate'[m] # "absent")
  BY <1>1, <1>3
<1>7. ContractStep(Answers(s, {"queued"}, ForgetRefusals), Answers(s2, {"queued"}, ForgetRefusals),
                   TakenBy(gfate), TakenBy(gfate'))
  BY <1>1, <1>3, <1>4, <1>5, <1>6, ContractFollows
<1> QED
  BY <1>2, <1>7 DEF s, s2, ForgetContracted

(* The fates move on, and no answer changes.                               *)
LEMMA ForgetAdvance ==
  ASSUME ForgetSends, Advances(gfate, gfate'), gresult' = gresult,
         gat' \in [Messages -> ForgetPlaces],
         \A m \in Messages : gat'[m] = "idle" <=> gat[m] = "idle"
  PROVE  ForgetSends' /\ ForgetContracted
<1>1. ForgetSends'
  BY DEF ForgetSends, Advances
<1>2. Said(gat', gresult') = Said(gat, gresult)
  BY DEF Said
<1>3. DOMAIN gfate = Messages /\ DOMAIN gfate' = Messages
  BY DEF ForgetSends, Advances
<1>4. \A m \in Messages : gfate[m] = "absent" <=> gfate'[m] = "absent"
  BY DEF Advances
<1>5. ForgetContracted
  BY <1>2, <1>3, <1>4, ContractStutters DEF ForgetContracted
<1> QED
  BY <1>1, <1>5

LEMMA ServeReadyAdvances ==
  ASSUME gfate \in [Messages -> Fate], Forget!ServeReady
  PROVE  Advances(gfate, gfate')
<1>1. \A m \in Messages : gfate'[m] = CASE gfate[m] = "acked" -> "delivered"
                                        [] gfate[m] = "refused" -> "failed"
                                        [] OTHER -> gfate[m]
  BY DEF Forget!ServeReady
<1>2. DOMAIN gfate' = Messages /\ gfate' = [m \in Messages |-> gfate'[m]]
  BY DEF Forget!ServeReady
<1>3. \A m \in Messages : gfate[m] \in Fate
  OBVIOUS
<1>4. \A m \in Messages : gfate'[m] \in Fate
  BY <1>1, <1>3 DEF Fate, Pending
<1>5. gfate' \in [Messages -> Fate]
  BY <1>2, <1>4
<1>6. \A m \in Messages : /\ gfate[m] = "absent" <=> gfate'[m] = "absent"
                          /\ gfate'[m] \in Pending => gfate[m] \in Pending
  BY <1>1 DEF Pending
<1> QED
  BY <1>5, <1>6 DEF Advances

(* A send under way or begun while the producer closes counts as early: as *)
(* long as there is none, all is quiet from the beginning of close() on.   *)
LEMMA ForgetClosesKept ==
  ASSUME ForgetCloses, UNCHANGED <<glifecycle, gresolved, gearly>>,
         \/ glifecycle = "open" \/ gearly
         \/ /\ \A m \in Messages : gat'[m] = gat[m] \/ gat'[m] = "idle"
            /\ \A m \in Messages : gfate'[m] \in Pending => gfate[m] \in Pending
  PROVE  ForgetCloses'
<1>1. CASE glifecycle = "open" \/ gearly
  BY <1>1 DEF ForgetCloses
<1>2. CASE /\ \A m \in Messages : gat'[m] = gat[m] \/ gat'[m] = "idle"
           /\ \A m \in Messages : gfate'[m] \in Pending => gfate[m] \in Pending
  BY <1>2 DEF ForgetCloses
<1> QED
  BY <1>1, <1>2

(* A step inside a send that leaves the fates alone: it goes on, or it     *)
(* ends with a result that says "not queued".                              *)
LEMMA ForgetInside ==
  ASSUME ForgetInv, NEW p \in Messages, gat[p] # "idle",
         NEW a \in ForgetPlaces, gat' = [gat EXCEPT ![p] = a],
         NEW r \in ForgetRefusals \cup {gresult[p]}, gresult' = [gresult EXCEPT ![p] = r],
         IF a = "idle" THEN r \in ForgetRefusals ELSE r = gresult[p],
         UNCHANGED <<gfate, glifecycle, gresolved, gearly>>
  PROVE  ForgetGood
<1>1. /\ ForgetSends /\ ForgetCloses /\ gresult[p] \in {"none", "queue_full"}
      /\ gfate[p] = "absent" /\ gfate \in [Messages -> Fate]
  BY DEF ForgetInv, ForgetSends
<1>2. r \in Forget!SendResult /\ "absent" \in Fate /\ r # "queued"
  BY <1>1 DEF Forget!SendResult, ForgetRefusals, Fate
<1>3. gfate' = [gfate EXCEPT ![p] = "absent"]
  BY <1>1
<1>4. a # "idle" => r \in {"none", "queue_full"}
  BY <1>1
<1>5. MessageStep(Says(IF gat[p] = "idle" THEN gresult[p] ELSE "none", {"queued"}, ForgetRefusals),
                  Says(IF a = "idle" THEN r ELSE "none", {"queued"}, ForgetRefusals),
                  gfate[p] # "absent", "absent" # "absent")
  BY <1>1, <1>2 DEF MessageStep, Says, ForgetRefusals
<1>6. ForgetSends' /\ ForgetContracted
  BY <1>1, <1>2, <1>3, <1>4, <1>5, ForgetMove
<1>7. glifecycle = "open" \/ gearly
  BY <1>1 DEF ForgetCloses
<1>8. ForgetCloses'
  BY <1>1, <1>7, ForgetClosesKept
<1> QED
  BY <1>6, <1>8 DEF ForgetGood, ForgetInv

LEMMA ForgetSendStep ==
  ASSUME ForgetInv, NEW p \in Messages, Forget!CallerGoesOn(p)
  PROVE  ForgetGood
<1>a. /\ ForgetSends /\ ForgetCloses /\ gfate \in [Messages -> Fate]
      /\ gresult \in [Messages -> Forget!SendResult] /\ gat \in [Messages -> ForgetPlaces]
  BY DEF ForgetInv, ForgetSends
<1>b. gat[p] # "idle" => gresult[p] \in {"none", "queue_full"} /\ (glifecycle = "open" \/ gearly)
  BY <1>a DEF ForgetSends, ForgetCloses
<1>c. gresult[p] \in {"none", "queue_full"} => gfate[p] = "absent"
  BY <1>a DEF ForgetSends
<1>d. gfate' = gfate => gfate' = [gfate EXCEPT ![p] = gfate[p]]
  BY <1>a
<1>e. gresult' = gresult => gresult' = [gresult EXCEPT ![p] = gresult[p]]
  BY <1>a
<1>1. CASE Forget!Send(p)
  <2>1. /\ gat[p] = "idle" /\ gresult[p] \in {"none", "queue_full"}
        /\ gat' = [gat EXCEPT ![p] = "entering"]
        /\ UNCHANGED <<gfate, gresult, glifecycle, gresolved>>
    BY <1>1 DEF Forget!Send, Forget!Callable, Forget!Retryable
  <2>2. gearly' = (gearly \/ glifecycle # "open") /\ glifecycle # "closed"
    BY <1>1 DEF Forget!Send, Forget!Detached
  <2>3. "entering" \in ForgetPlaces /\ gresult[p] \in Forget!SendResult /\ gfate[p] \in Fate
        /\ gfate[p] = "absent"
    BY <1>a, <1>c, <2>1 DEF ForgetPlaces
  <2>4. MessageStep(Says(IF gat[p] = "idle" THEN gresult[p] ELSE "none", {"queued"}, ForgetRefusals),
                    Says(IF "entering" = "idle" THEN gresult[p] ELSE "none", {"queued"}, ForgetRefusals),
                    gfate[p] # "absent", gfate[p] # "absent")
    BY <2>1, <2>3 DEF MessageStep, Says, ForgetRefusals
  <2>5. ForgetSends' /\ ForgetContracted
    BY <1>a, <1>d, <1>e, <2>1, <2>3, <2>4, ForgetMove
  <2>6. ForgetCloses'
    <3>1. ~gresolved' /\ (glifecycle' = "open" \/ gearly')
      BY <1>a, <2>1, <2>2 DEF ForgetCloses
    <3> QED
      BY <3>1 DEF ForgetCloses
  <2> QED
    BY <2>5, <2>6 DEF ForgetGood, ForgetInv
<1>2. CASE Forget!SendOnClosed(p)
  <2>1. /\ gat[p] = "idle" /\ gresult[p] \in {"none", "queue_full"}
        /\ gat' = [gat EXCEPT ![p] = "idle"] /\ gresult' = [gresult EXCEPT ![p] = "producer_closed"]
        /\ UNCHANGED <<gfate, glifecycle, gresolved, gearly>>
    BY <1>2 DEF Forget!SendOnClosed, Forget!Callable, Forget!Retryable, Forget!Return
  <2>2. /\ "idle" \in ForgetPlaces /\ "producer_closed" \in Forget!SendResult
        /\ gfate[p] \in Fate /\ gfate[p] = "absent"
    BY <1>a, <1>c, <2>1 DEF ForgetPlaces, Forget!SendResult
  <2>3. MessageStep(Says(IF gat[p] = "idle" THEN gresult[p] ELSE "none", {"queued"}, ForgetRefusals),
                    Says(IF "idle" = "idle" THEN "producer_closed" ELSE "none",
                         {"queued"}, ForgetRefusals),
                    gfate[p] # "absent", gfate[p] # "absent")
    BY <2>1, <2>2 DEF MessageStep, Says, ForgetRefusals
  <2>4. ForgetSends' /\ ForgetContracted
    BY <1>a, <1>d, <2>1, <2>2, <2>3, ForgetMove
  <2>5. \A m \in Messages : gat'[m] = gat[m] \/ gat'[m] = "idle"
    BY <1>a, <2>1
  <2>6. ForgetCloses'
    BY <1>a, <2>1, <2>5, ForgetClosesKept
  <2> QED
    BY <2>4, <2>6 DEF ForgetGood, ForgetInv
<1>3. CASE Forget!Produce(p)
  <2>1. /\ gat[p] = "calling" /\ gat' = [gat EXCEPT ![p] = "idle"]
        /\ gresult' = [gresult EXCEPT ![p] = "queued"]
        /\ gfate' = [gfate EXCEPT ![p] = "queued"]
        /\ UNCHANGED <<glifecycle, gresolved, gearly>>
    BY <1>3 DEF Forget!Produce, Forget!Accept, Forget!Return
  <2>2. /\ "idle" \in ForgetPlaces /\ "queued" \in Forget!SendResult /\ "queued" \in Fate
        /\ gfate[p] = "absent"
    BY <1>b, <1>c, <2>1 DEF ForgetPlaces, Forget!SendResult, Fate, Pending
  <2>3. MessageStep(Says(IF gat[p] = "idle" THEN gresult[p] ELSE "none", {"queued"}, ForgetRefusals),
                    Says(IF "idle" = "idle" THEN "queued" ELSE "none", {"queued"}, ForgetRefusals),
                    gfate[p] # "absent", "queued" # "absent")
    BY <2>1, <2>2 DEF MessageStep, Says, ForgetRefusals
  <2>4. ForgetSends' /\ ForgetContracted
    BY <1>a, <2>1, <2>2, <2>3, ForgetMove
  <2>5. ForgetCloses'
    BY <1>a, <1>b, <2>1, ForgetClosesKept
  <2> QED
    BY <2>4, <2>5 DEF ForgetGood, ForgetInv
<1>4. CASE \/ Forget!EnterQueueing(p) \/ Forget!ReadClient(p) \/ Forget!ClientRejects(p)
           \/ Forget!Drain(p) \/ Forget!Drop(p)
           \/ Forget!Detached /\ Forget!PollSlice(p)
  <2>1. /\ gat[p] # "idle"
        /\ UNCHANGED <<gfate, glifecycle, gresolved, gearly>>
    BY <1>4 DEF Forget!EnterQueueing, Forget!ReadClient, Forget!ClientRejects, Forget!Drain,
                Forget!Drop, Forget!PollSlice
  <2>2. \/ /\ \E a \in ForgetPlaces \ {"idle"} : gat' = [gat EXCEPT ![p] = a]
           /\ gresult' = gresult
        \/ /\ gat' = [gat EXCEPT ![p] = "idle"]
           /\ \E r \in ForgetRefusals : gresult' = [gresult EXCEPT ![p] = r]
    BY <1>4 DEF Forget!EnterQueueing, Forget!ReadClient, Forget!ClientRejects, Forget!Drain,
                Forget!Drop, Forget!PollSlice, Forget!Return, ForgetPlaces, ForgetRefusals
  <2>3. CASE /\ \E a \in ForgetPlaces \ {"idle"} : gat' = [gat EXCEPT ![p] = a]
             /\ gresult' = gresult
    BY <1>e, <2>1, <2>3, ForgetInside
  <2>4. CASE /\ gat' = [gat EXCEPT ![p] = "idle"]
             /\ \E r \in ForgetRefusals : gresult' = [gresult EXCEPT ![p] = r]
    <3>1. "idle" \in ForgetPlaces
      BY DEF ForgetPlaces
    <3> QED
      BY <2>1, <2>4, <3>1, ForgetInside
  <2> QED
    BY <2>2, <2>3, <2>4
<1>5. CASE ~Forget!Detached /\ Forget!PollSlice(p)
  <2>1. /\ gat[p] = "draining" /\ gat' = [gat EXCEPT ![p] = "producing"]
        /\ Forget!ServeReady /\ gresult' = gresult
        /\ UNCHANGED <<glifecycle, gresolved, gearly>>
    BY <1>5 DEF Forget!PollSlice
  <2>2. Advances(gfate, gfate')
    BY <1>a, <2>1, ServeReadyAdvances
  <2>3. gat' \in [Messages -> ForgetPlaces] /\ \A m \in Messages : gat'[m] = "idle" <=> gat[m] = "idle"
    BY <1>a, <2>1 DEF ForgetPlaces
  <2>4. ForgetSends' /\ ForgetContracted
    BY <1>a, <2>1, <2>2, <2>3, ForgetAdvance
  <2>5. ForgetCloses'
    BY <1>a, <1>b, <2>1, ForgetClosesKept
  <2> QED
    BY <2>4, <2>5 DEF ForgetGood, ForgetInv
<1> QED
  BY <1>1, <1>2, <1>3, <1>4, <1>5 DEF Forget!CallerGoesOn, Forget!SendStep

LEMMA ForgetStep == ForgetInv /\ [Forget!Next]_(Forget!vars) => ForgetGood
<1> SUFFICES ASSUME ForgetInv, [Forget!Next]_(Forget!vars) PROVE ForgetGood
  OBVIOUS
<1>a. /\ ForgetSends /\ ForgetCloses /\ gfate \in [Messages -> Fate]
      /\ gat \in [Messages -> ForgetPlaces]
  BY DEF ForgetInv, ForgetSends
<1>1. ASSUME Advances(gfate, gfate'), UNCHANGED <<gat, gresult, glifecycle, gresolved, gearly>>
      PROVE  ForgetGood
  <2>1. ForgetSends' /\ ForgetContracted
    BY <1>1, <1>a, ForgetAdvance
  <2>2. ForgetCloses'
    BY <1>1, <1>a, ForgetClosesKept DEF Advances
  <2> QED
    BY <2>1, <2>2 DEF ForgetGood, ForgetInv
<1>2. CASE Forget!ApplicationPolls \/ Forget!FlushSlice
  BY <1>1, <1>2, <1>a, ServeReadyAdvances DEF Forget!ApplicationPolls, Forget!FlushSlice
<1>3. CASE Forget!Background
  <2>1. PICK p \in Messages, v \in {"acked", "refused"} :
          gfate[p] = "queued" /\ gfate' = [gfate EXCEPT ![p] = v]
    BY <1>3 DEF Forget!Background, Forget!BackgroundThread, Forget!Acknowledge, Forget!Refuse
  <2>2. v \in Fate
    BY DEF Fate, Pending
  <2>3. gfate' \in [Messages -> Fate] /\ gfate'[p] = v /\ OnlyAt(p, gfate, gfate')
    BY <1>a, <2>1, <2>2, OneChange
  <2>4. Advances(gfate, gfate')
    BY <2>1, <2>3 DEF Advances, OnlyAt, Pending
  <2> QED
    BY <1>1, <1>3, <2>4 DEF Forget!Background
<1>4. Advances(gfate, gfate)
  BY <1>a DEF Advances
<1>5. CASE \/ UNCHANGED Forget!vars \/ \E p \in Messages : Forget!BudgetRunsOut(p)
  <2>1. UNCHANGED <<gfate, gat, gresult, glifecycle, gresolved, gearly>>
    BY <1>5 DEF Forget!vars, Forget!BudgetRunsOut
  <2> QED
    BY <1>1, <1>4, <2>1
<1>6. CASE Forget!BeginClose
  <2>1. glifecycle = "open" /\ glifecycle' = "closing" /\ UNCHANGED <<gfate, gat, gresult, gresolved>>
    BY <1>6 DEF Forget!BeginClose
  <2>2. ~gearly' => \A m \in Messages : gat[m] = "idle"
    BY <1>6 DEF Forget!BeginClose
  <2>3. ForgetSends' /\ ForgetContracted
    BY <1>a, <1>4, <2>1, ForgetAdvance
  <2>4. ForgetCloses'
    BY <1>a, <2>1, <2>2 DEF ForgetCloses
  <2> QED
    BY <2>3, <2>4 DEF ForgetGood, ForgetInv
<1>7. CASE Forget!EndClose
  <2>1. glifecycle = "closing" /\ glifecycle' = "closed" /\ UNCHANGED <<gfate, gat, gresult, gearly>>
    BY <1>7 DEF Forget!EndClose
  <2>2. Forget!Cardinality(Forget!Outstanding) = Count(gfate, Pending)
    BY DEF Forget!Cardinality, Cardinality, Forget!Outstanding, Forget!Pending, Pending, Count, In
  <2>3. PICK outstanding \in {Count(gfate, Pending), -1} : gresolved' = (outstanding = 0)
    BY <1>7, <2>2 DEF Forget!EndClose
  <2>4. gresolved' => Count(gfate, Pending) = 0
    <3>1. CASE outstanding = -1
      <4>1. ~(outstanding = 0)
        BY <3>1
      <4> QED
        BY <2>3, <4>1
    <3>2. CASE outstanding = Count(gfate, Pending)
      BY <2>3, <3>2
    <3> QED
      BY <2>3, <3>1, <3>2
  <2>5. gresolved' => \A m \in Messages : gfate[m] \notin Pending
    BY <2>4, CountZero
  <2>6. ForgetSends' /\ ForgetContracted
    BY <1>a, <1>4, <2>1, ForgetAdvance
  <2>7. ForgetCloses'
    BY <1>a, <2>1, <2>5 DEF ForgetCloses
  <2> QED
    BY <2>6, <2>7 DEF ForgetGood, ForgetInv
<1> QED
  BY <1>2, <1>3, <1>5, <1>6, <1>7, ForgetSendStep DEF Forget!Next

LEMMA ForgetOnBench == Spec => Forget!Spec
<1>1. Init => Forget!Init
  BY DEF Init
<1>2. [Next]_vars => [Forget!Next]_(Forget!vars)
  BY DEF Next, vars, forgetVars, Forget!vars
<1> QED
  BY <1>1, <1>2, PTL DEF Spec, Forget!Spec

LEMMA ForgetSafe == Spec => []ForgetInv
<1>1. ForgetInv /\ [Forget!Next]_(Forget!vars) => ForgetInv'
  BY ForgetStep DEF ForgetGood
<1> QED
  BY <1>1, ForgetInitInv, ForgetOnBench, PTL DEF Forget!Spec

(* What close() logs as resolved is resolved, and stays so.                *)
LEMMA ForgetDrained == ForgetInv => Forget!ResolvedMeansNothingLost
BY DEF ForgetInv, ForgetCloses, Forget!ResolvedMeansNothingLost, Forget!Detached,
       Forget!Outstanding, Forget!Pending, Pending

LEMMA ForgetKeepsContract == Spec => ForgetContract!Spec
<1>1. Forget!Init => ForgetContract!Init
  BY DEF Forget!Init, Forget!ClientInit, ForgetContract!Init, Answers, TakenBy
<1>2. ForgetInv /\ [Forget!Next]_(Forget!vars) => [ForgetContract!Next]_(ForgetContract!vars)
  <2> SUFFICES ASSUME ForgetInv, [Forget!Next]_(Forget!vars)
               PROVE  [ForgetContract!Next]_(ForgetContract!vars)
    OBVIOUS
  <2>1. ForgetContracted
    BY ForgetStep DEF ForgetGood
  <2> QED
    BY <2>1 DEF ForgetContracted, ContractStep, ForgetRefusals, Said, ForgetContract!Next,
       ForgetContract!vars, ForgetContract!Take, ForgetContract!Confirm, ForgetContract!Refuse,
       ForgetContract!OfferAgain, ForgetContract!Say
<1> QED
  BY <1>1, <1>2, ForgetSafe, ForgetOnBench, PTL DEF Forget!Spec, ForgetContract!Spec

-----------------------------------------------------------------------------
(***************************************************************************)
(* CallbackConfirmedProducer.  Two books are kept of the messages that the *)
(* client has taken: how their publishes ended, and which of their reports *)
(* were heard.  Every interrupt leaves at most one message out of one of   *)
(* the two: handed over and not counted, or served and not heard.          *)
(***************************************************************************)
Unsent == {"none", "refused", "timedOut"}

Taken(f, o) == [e \in Messages |-> IF f[e] = "absent" THEN "absent" ELSE o[e]]
Heard(f, u) == [e \in Messages |-> IF e \in u THEN "unheard" ELSE f[e]]

Answered(c, o) == [e \in Messages |-> IF e = c THEN "none" ELSE o[e]]

ConfirmedPlaces ==
  /\ cfate \in [Messages -> Fate] /\ coutcome \in [Messages -> Confirmed!Outcome]
  /\ cat \in {"idle", "producing", "draining", "counting", "polling", "flushing"}
  /\ cat \in {"producing", "draining", "counting"} =>
       /\ ccurrent \in Messages /\ coutcome[ccurrent] \in Unsent
       /\ cfate[ccurrent] = "absent" <=> cat # "counting"
  /\ cat \in {"idle", "polling", "flushing"} => ccurrent = NoEvent
  /\ \A e \in Messages :
       /\ coutcome[e] \in Unsent /\ e # ccurrent => cfate[e] = "absent"
       /\ coutcome[e] = "returned" => cfate[e] # "absent"
       /\ e \in cunheard => cfate[e] \in {"delivered", "failed"}

ConfirmedBooks ==
  /\ cqueued = Count(Taken(cfate, coutcome), {"returned"})
  /\ cdelivered = Count(Heard(cfate, cunheard), {"delivered"})
  /\ cfailed = Count(Heard(cfate, cunheard), {"failed"})
  /\ cinterrupts \in Nat
  /\ Count(Taken(cfate, coutcome), {"interrupted"}) + Count(Heard(cfate, cunheard), {"unheard"})
       <= cinterrupts

ConfirmedReport ==
  /\ csummary # NoSummary => /\ cat = "idle" /\ cisFinished
                             /\ csummary = Confirmed!DeliverySummary
  /\ cat = "flushing" => cisFinished

ConfirmedInv == ConfirmedPlaces /\ ConfirmedBooks /\ ConfirmedReport

ConfirmedContracted ==
  ContractStep(Answers(Answered(ccurrent, coutcome), {"returned"}, {"refused", "timedOut"}),
               Answers(Answered(ccurrent', coutcome'), {"returned"}, {"refused", "timedOut"}),
               TakenBy(cfate), TakenBy(cfate'))

ConfirmedGood == ConfirmedInv' /\ ConfirmedContracted

LEMMA ConfirmedInitInv == Confirmed!Init => ConfirmedInv
<1> SUFFICES ASSUME Confirmed!Init PROVE ConfirmedInv
  OBVIOUS
<1>1. /\ cfate = [m \in Messages |-> "absent"] /\ coutcome = [m \in Messages |-> "none"]
      /\ cat = "idle" /\ ccurrent = NoEvent /\ cunheard = {} /\ cinterrupts = 0
      /\ cqueued = 0 /\ cdelivered = 0 /\ cfailed = 0 /\ csummary = NoSummary
  BY DEF Confirmed!Init, Confirmed!ClientInit, Confirmed!Events
<1>2. ConfirmedPlaces
  BY <1>1 DEF ConfirmedPlaces, Fate, Confirmed!Outcome
<1>3. /\ Count(Taken(cfate, coutcome), {"returned"}) = 0
      /\ Count(Taken(cfate, coutcome), {"interrupted"}) = 0
  <2>1. \A m \in Messages : Taken(cfate, coutcome)[m] = "absent"
    BY <1>1 DEF Taken
  <2> QED
    BY <2>1, CountZero
<1>4. /\ Count(Heard(cfate, cunheard), {"delivered"}) = 0
      /\ Count(Heard(cfate, cunheard), {"failed"}) = 0
      /\ Count(Heard(cfate, cunheard), {"unheard"}) = 0
  <2>1. \A m \in Messages : Heard(cfate, cunheard)[m] = "absent"
    BY <1>1 DEF Heard
  <2> QED
    BY <2>1, CountZero
<1>5. ConfirmedBooks
  BY <1>1, <1>3, <1>4 DEF ConfirmedBooks
<1>6. ConfirmedReport
  BY <1>1 DEF ConfirmedReport
<1> QED
  BY <1>2, <1>5, <1>6 DEF ConfirmedInv

(* A step that says nothing new to any caller, and takes nothing.          *)
LEMMA ConfirmedStutters ==
  ASSUME cfate \in [Messages -> Fate], cfate' \in [Messages -> Fate],
         \A e \in Messages : cfate[e] = "absent" <=> cfate'[e] = "absent",
         \A e \in Messages : \/ Answered(ccurrent', coutcome')[e] = Answered(ccurrent, coutcome)[e]
                             \/ /\ Answered(ccurrent, coutcome)[e] = "none"
                                /\ Answered(ccurrent', coutcome')[e] = "interrupted"
  PROVE  ConfirmedContracted
<1> DEFINE a == Answered(ccurrent, coutcome)
           b == Answered(ccurrent', coutcome')
<1>1. \A e \in Messages : Says(a[e], {"returned"}, {"refused", "timedOut"})
                            = Says(b[e], {"returned"}, {"refused", "timedOut"})
  BY DEF Says
<1>2. DOMAIN a = Messages /\ DOMAIN b = Messages
  BY DEF Answered
<1> HIDE DEF a, b
<1>3. Answers(a, {"returned"}, {"refused", "timedOut"})
        = Answers(b, {"returned"}, {"refused", "timedOut"})
  <2>1. /\ Answers(a, {"returned"}, {"refused", "timedOut"})
             = [m \in Messages |-> Says(a[m], {"returned"}, {"refused", "timedOut"})]
        /\ Answers(b, {"returned"}, {"refused", "timedOut"})
             = [m \in Messages |-> Says(b[m], {"returned"}, {"refused", "timedOut"})]
    BY <1>2 DEF Answers, Says
  <2> QED
    BY <1>1, <2>1
<1>4. TakenBy(cfate') = TakenBy(cfate)
  BY DEF TakenBy
<1> QED
  BY <1>3, <1>4 DEF ConfirmedContracted, ContractStep, a, b

(* No report is shown as yet, and none is made.                            *)
LEMMA ConfirmedReportKept ==
  ASSUME ConfirmedReport, csummary' = csummary, cat # "idle" \/ ~cisFinished,
         cat' = "flushing" => cisFinished'
  PROVE  ConfirmedReport'
BY DEF ConfirmedReport

(* A step that changes neither what was taken nor what was heard.          *)
LEMMA ConfirmedBooksKept ==
  ASSUME ConfirmedBooks, UNCHANGED <<cqueued, cdelivered, cfailed, cinterrupts, cunheard>>,
         Taken(cfate', coutcome') = Taken(cfate, coutcome),
         Heard(cfate', cunheard) = Heard(cfate, cunheard)
  PROVE  ConfirmedBooks'
BY DEF ConfirmedBooks

(* publish_event() begins, waits for room, or gives up.                    *)
LEMMA ConfirmedPublishing ==
  ASSUME ConfirmedInv,
         \/ \E e \in Messages : Confirmed!PublishEvent(e)
         \/ Confirmed!ClientRefuses \/ Confirmed!GiveUp
         \/ Confirmed!QueueFull \/ Confirmed!DrainSliceEnds
  PROVE  ConfirmedGood
<1>a. /\ ConfirmedPlaces /\ ConfirmedBooks /\ ConfirmedReport
      /\ cfate \in [Messages -> Fate] /\ coutcome \in [Messages -> Confirmed!Outcome]
      /\ DOMAIN cfate = Messages /\ DOMAIN coutcome = Messages
  BY DEF ConfirmedInv, ConfirmedPlaces
<1>b. NoEvent \notin Messages
  BY ProducersAssumption DEF Confirmed!CallbackConfirmedAssumption, Confirmed!Events
<1>1. ASSUME NEW e \in Messages, Confirmed!PublishEvent(e) PROVE ConfirmedGood
  <2>1. /\ cat = "idle" /\ coutcome[e] \in Unsent /\ cat' = "producing" /\ ccurrent' = e
        /\ ccurrent = NoEvent
        /\ UNCHANGED <<cfate, coutcome, cqueued, cdelivered, cfailed, cinterrupts, cunheard>>
    BY <1>1, <1>a DEF Confirmed!PublishEvent, Confirmed!counts, Unsent, ConfirmedPlaces
  <2>2. ~cisFinished /\ csummary' = csummary
    BY <1>1 DEF Confirmed!PublishEvent
  <2>3. e # NoEvent
    BY <1>b
  <2>4. ConfirmedPlaces'
    <3>1. cfate[e] = "absent"
      BY <1>a, <2>1, <2>3 DEF ConfirmedPlaces
    <3>2. \A d \in Messages :
            /\ coutcome[d] \in Unsent /\ d # e => cfate[d] = "absent"
            /\ coutcome[d] = "returned" => cfate[d] # "absent"
            /\ d \in cunheard => cfate[d] \in {"delivered", "failed"}
      BY <1>a, <1>b, <2>1 DEF ConfirmedPlaces
    <3> QED
      BY <1>a, <2>1, <3>1, <3>2 DEF ConfirmedPlaces
  <2>5. ConfirmedBooks'
    BY <1>a, <2>1, ConfirmedBooksKept
  <2>6. ConfirmedReport'
    BY <1>a, <2>1, <2>2, ConfirmedReportKept
  <2> DEFINE a == Answered(ccurrent, coutcome)
             b == Answered(ccurrent', coutcome')
  <2>7. DOMAIN a = Messages /\ DOMAIN b = Messages /\ a[e] = coutcome[e] /\ b[e] = "none"
    BY <2>1, <2>3 DEF Answered
  <2>8. OnlyAt(e, a, b)
    BY <1>b, <2>1 DEF Answered, OnlyAt
  <2>9. MessageStep(Says(a[e], {"returned"}, {"refused", "timedOut"}),
                    Says(b[e], {"returned"}, {"refused", "timedOut"}),
                    cfate[e] # "absent", cfate'[e] # "absent")
    BY <2>1, <2>7 DEF MessageStep, Says, Unsent
  <2>10. OnlyAt(e, cfate, cfate') /\ DOMAIN cfate' = Messages
    BY <1>a, <2>1 DEF OnlyAt
  <2> HIDE DEF a, b
  <2>11. ContractStep(Answers(a, {"returned"}, {"refused", "timedOut"}),
                      Answers(b, {"returned"}, {"refused", "timedOut"}),
                      TakenBy(cfate), TakenBy(cfate'))
    BY <1>a, <2>7, <2>8, <2>9, <2>10, ContractFollows
  <2> QED
    BY <2>4, <2>5, <2>6, <2>11 DEF ConfirmedGood, ConfirmedInv, ConfirmedContracted, a, b
<1>2. CASE Confirmed!ClientRefuses \/ Confirmed!GiveUp
  <2>1. PICK how \in {"refused", "timedOut"} :
          coutcome' = [coutcome EXCEPT ![ccurrent] = how]
    BY <1>2 DEF Confirmed!ClientRefuses, Confirmed!GiveUp, Confirmed!EndPublish
  <2>2. /\ cat = "producing" /\ cat' = "idle" /\ ccurrent' = NoEvent
        /\ UNCHANGED <<cfate, cqueued, cdelivered, cfailed, cinterrupts, cunheard>>
    BY <1>2 DEF Confirmed!ClientRefuses, Confirmed!GiveUp, Confirmed!EndPublish, Confirmed!counts
  <2>3. csummary' = csummary
    BY <1>2 DEF Confirmed!ClientRefuses, Confirmed!GiveUp
  <2>4. /\ ccurrent \in Messages /\ cfate[ccurrent] = "absent" /\ coutcome[ccurrent] \in Unsent
        /\ ccurrent # NoEvent
    BY <1>a, <1>b, <2>2 DEF ConfirmedPlaces
  <2>5. how \in Confirmed!Outcome
    BY DEF Confirmed!Outcome
  <2>6. /\ coutcome' \in [Messages -> Confirmed!Outcome] /\ coutcome'[ccurrent] = how
        /\ OnlyAt(ccurrent, coutcome, coutcome')
    BY <1>a, <2>1, <2>4, <2>5, OneChange
  <2>7. ConfirmedPlaces'
    BY <1>a, <2>2, <2>4, <2>6 DEF ConfirmedPlaces, OnlyAt, Unsent
  <2>8. Taken(cfate', coutcome') = Taken(cfate, coutcome)
    BY <2>2, <2>4, <2>6 DEF Taken, OnlyAt
  <2>9. ConfirmedBooks'
    BY <1>a, <2>2, <2>8, ConfirmedBooksKept
  <2>10. ConfirmedReport'
    BY <1>a, <2>2, <2>3, ConfirmedReportKept
  <2> DEFINE a == Answered(ccurrent, coutcome)
             b == Answered(ccurrent', coutcome')
  <2>11. /\ DOMAIN a = Messages /\ DOMAIN b = Messages
         /\ a[ccurrent] = "none" /\ b[ccurrent] = how
    BY <2>2, <2>4, <2>6 DEF Answered
  <2>12. OnlyAt(ccurrent, a, b)
    BY <1>b, <2>2, <2>6 DEF Answered, OnlyAt
  <2>13. MessageStep(Says(a[ccurrent], {"returned"}, {"refused", "timedOut"}),
                     Says(b[ccurrent], {"returned"}, {"refused", "timedOut"}),
                     cfate[ccurrent] # "absent", cfate'[ccurrent] # "absent")
    BY <2>2, <2>4, <2>11 DEF MessageStep, Says
  <2>14. OnlyAt(ccurrent, cfate, cfate') /\ DOMAIN cfate' = Messages
    BY <1>a, <2>2 DEF OnlyAt
  <2> HIDE DEF a, b
  <2>15. ContractStep(Answers(a, {"returned"}, {"refused", "timedOut"}),
                      Answers(b, {"returned"}, {"refused", "timedOut"}),
                      TakenBy(cfate), TakenBy(cfate'))
    BY <1>a, <2>4, <2>11, <2>12, <2>13, <2>14, ContractFollows
  <2> QED
    BY <2>7, <2>9, <2>10, <2>15 DEF ConfirmedGood, ConfirmedInv, ConfirmedContracted, a, b
<1>3. CASE Confirmed!QueueFull \/ Confirmed!DrainSliceEnds
  <2>1. /\ cat \in {"producing", "draining"} /\ cat' \in {"producing", "draining"}
        /\ UNCHANGED <<ccurrent, cfate, coutcome, cqueued, cdelivered, cfailed, cinterrupts, cunheard>>
    BY <1>3 DEF Confirmed!QueueFull, Confirmed!DrainSliceEnds, Confirmed!counts
  <2>2. csummary' = csummary
    BY <1>3 DEF Confirmed!QueueFull, Confirmed!DrainSliceEnds
  <2>3. ConfirmedPlaces'
    BY <1>a, <2>1 DEF ConfirmedPlaces
  <2>4. ConfirmedBooks'
    BY <1>a, <2>1, ConfirmedBooksKept
  <2>5. ConfirmedReport'
    BY <1>a, <2>1, <2>2, ConfirmedReportKept
  <2>6. ConfirmedContracted
    BY <2>1 DEF ConfirmedContracted, ContractStep
  <2> QED
    BY <2>3, <2>4, <2>5, <2>6 DEF ConfirmedGood, ConfirmedInv
<1> QED
  BY <1>1, <1>2, <1>3

LEMMA TakenAt ==
  ASSUME NEW f, NEW o, NEW f2, NEW o2, NEW m \in Messages, OnlyAt(m, f, f2), OnlyAt(m, o, o2)
  PROVE  OnlyAt(m, Taken(f, o), Taken(f2, o2))
BY DEF OnlyAt, Taken

LEMMA HeardAt ==
  ASSUME NEW f, NEW u, NEW f2, NEW u2, NEW m \in Messages, OnlyAt(m, f, f2),
         \A n \in Messages \ {m} : n \in u2 <=> n \in u
  PROVE  OnlyAt(m, Heard(f, u), Heard(f2, u2))
BY DEF OnlyAt, Heard

(* The event is with the client, and then it is counted.                   *)
LEMMA ConfirmedProducing ==
  ASSUME ConfirmedInv, Confirmed!Produce
  PROVE  ConfirmedGood
<1>a. /\ ConfirmedPlaces /\ ConfirmedBooks /\ ConfirmedReport
      /\ cfate \in [Messages -> Fate] /\ coutcome \in [Messages -> Confirmed!Outcome]
  BY DEF ConfirmedInv, ConfirmedPlaces
<1>1. /\ cat = "producing" /\ cat' = "counting" /\ cfate[ccurrent] = "absent"
      /\ cfate' = [cfate EXCEPT ![ccurrent] = "queued"]
      /\ UNCHANGED <<ccurrent, coutcome, cqueued, cdelivered, cfailed, cinterrupts, cunheard>>
  BY DEF Confirmed!Produce, Confirmed!Accept, Confirmed!counts
<1>2. csummary' = csummary
  BY DEF Confirmed!Produce
<1>3. ccurrent \in Messages /\ coutcome[ccurrent] \in Unsent /\ ccurrent \notin cunheard
  BY <1>a, <1>1 DEF ConfirmedPlaces
<1>4. "queued" \in Fate
  BY DEF Fate, Pending
<1>5. /\ cfate' \in [Messages -> Fate] /\ cfate'[ccurrent] = "queued"
      /\ OnlyAt(ccurrent, cfate, cfate')
  BY <1>a, <1>1, <1>3, <1>4, OneChange
<1>6. ConfirmedPlaces'
  BY <1>a, <1>1, <1>3, <1>5 DEF ConfirmedPlaces, OnlyAt, Unsent
<1>7. ConfirmedBooks'
  <2> DEFINE t  == Taken(cfate, coutcome)
             t2 == Taken(cfate', coutcome)
             h  == Heard(cfate, cunheard)
             h2 == Heard(cfate', cunheard)
  <2>1. OnlyAt(ccurrent, coutcome, coutcome)
    BY DEF OnlyAt
  <2>2. OnlyAt(ccurrent, t, t2) /\ t[ccurrent] = "absent" /\ t2[ccurrent] \in Unsent
    <3>1. OnlyAt(ccurrent, t, t2)
      BY <1>3, <1>5, <2>1, TakenAt
    <3>2. t[ccurrent] = "absent" /\ t2[ccurrent] = coutcome[ccurrent]
      BY <1>1, <1>3, <1>5 DEF Taken
    <3> QED
      BY <1>3, <3>1, <3>2
  <2>3. OnlyAt(ccurrent, h, h2) /\ h[ccurrent] = "absent" /\ h2[ccurrent] = "queued"
    <3>1. OnlyAt(ccurrent, h, h2)
      BY <1>3, <1>5, HeardAt
    <3>2. h[ccurrent] = "absent" /\ h2[ccurrent] = "queued"
      BY <1>1, <1>3, <1>5 DEF Heard
    <3> QED
      BY <3>1, <3>2
  <2> HIDE DEF t, t2, h, h2
  <2>4. Count(t2, {"returned"}) = Count(t, {"returned"})
        /\ Count(t2, {"interrupted"}) = Count(t, {"interrupted"})
    BY <1>3, <2>2, CountStays DEF Unsent
  <2>5. /\ Count(h2, {"delivered"}) = Count(h, {"delivered"})
        /\ Count(h2, {"failed"}) = Count(h, {"failed"})
        /\ Count(h2, {"unheard"}) = Count(h, {"unheard"})
    BY <1>3, <2>3, CountStays
  <2> QED
    BY <1>a, <1>1, <2>4, <2>5 DEF ConfirmedBooks, t, t2, h, h2
<1>8. ConfirmedReport'
  BY <1>a, <1>1, <1>2, ConfirmedReportKept
<1>9. ConfirmedContracted
  <2> DEFINE a == Answered(ccurrent, coutcome)
  <2>1. DOMAIN a = Messages /\ a[ccurrent] = "none" /\ OnlyAt(ccurrent, a, a)
    BY <1>3 DEF Answered, OnlyAt
  <2>2. MessageStep(Says(a[ccurrent], {"returned"}, {"refused", "timedOut"}),
                    Says(a[ccurrent], {"returned"}, {"refused", "timedOut"}),
                    cfate[ccurrent] # "absent", cfate'[ccurrent] # "absent")
    BY <1>1, <1>5, <2>1 DEF MessageStep, Says
  <2>3. DOMAIN cfate = Messages /\ DOMAIN cfate' = Messages
    BY <1>a, <1>5
  <2> HIDE DEF a
  <2>4. ContractStep(Answers(a, {"returned"}, {"refused", "timedOut"}),
                     Answers(a, {"returned"}, {"refused", "timedOut"}),
                     TakenBy(cfate), TakenBy(cfate'))
    BY <1>3, <1>5, <2>1, <2>2, <2>3, ContractFollows
  <2> QED
    BY <1>1, <2>4 DEF ConfirmedContracted, a
<1> QED
  BY <1>6, <1>7, <1>8, <1>9 DEF ConfirmedGood, ConfirmedInv

LEMMA ConfirmedCounting ==
  ASSUME ConfirmedInv, Confirmed!CountQueued
  PROVE  ConfirmedGood
<1>a. /\ ConfirmedPlaces /\ ConfirmedBooks /\ ConfirmedReport
      /\ cfate \in [Messages -> Fate] /\ coutcome \in [Messages -> Confirmed!Outcome]
  BY DEF ConfirmedInv, ConfirmedPlaces
<1>b. NoEvent \notin Messages
  BY ProducersAssumption DEF Confirmed!CallbackConfirmedAssumption, Confirmed!Events
<1>1. /\ cat = "counting" /\ cat' = "idle" /\ ccurrent' = NoEvent
      /\ coutcome' = [coutcome EXCEPT ![ccurrent] = "returned"] /\ cqueued' = cqueued + 1
      /\ UNCHANGED <<cfate, cdelivered, cfailed, cinterrupts, cunheard>>
  BY DEF Confirmed!CountQueued, Confirmed!EndPublish
<1>2. csummary' = csummary
  BY DEF Confirmed!CountQueued
<1>3. ccurrent \in Messages /\ coutcome[ccurrent] \in Unsent /\ cfate[ccurrent] # "absent"
  BY <1>a, <1>1 DEF ConfirmedPlaces
<1>4. "returned" \in Confirmed!Outcome
  BY DEF Confirmed!Outcome
<1>5. /\ coutcome' \in [Messages -> Confirmed!Outcome] /\ coutcome'[ccurrent] = "returned"
      /\ OnlyAt(ccurrent, coutcome, coutcome')
  BY <1>a, <1>1, <1>3, <1>4, OneChange
<1>6. ConfirmedPlaces'
  BY <1>a, <1>1, <1>3, <1>5 DEF ConfirmedPlaces, OnlyAt, Unsent
<1>7. ConfirmedBooks'
  <2> DEFINE t  == Taken(cfate, coutcome)
             t2 == Taken(cfate, coutcome')
  <2>1. OnlyAt(ccurrent, cfate, cfate)
    BY DEF OnlyAt
  <2>2. OnlyAt(ccurrent, t, t2) /\ t[ccurrent] \in Unsent /\ t2[ccurrent] = "returned"
    <3>1. OnlyAt(ccurrent, t, t2)
      BY <1>3, <1>5, <2>1, TakenAt
    <3>2. t[ccurrent] = coutcome[ccurrent] /\ t2[ccurrent] = "returned"
      BY <1>3, <1>5 DEF Taken
    <3> QED
      BY <1>3, <3>1, <3>2
  <2> HIDE DEF t, t2
  <2>3. /\ t[ccurrent] \notin {"returned"} /\ t2[ccurrent] \in {"returned"}
        /\ t[ccurrent] \notin {"interrupted"} /\ t2[ccurrent] \notin {"interrupted"}
    BY <2>2 DEF Unsent
  <2>4. Count(t2, {"returned"}) = Count(t, {"returned"}) + 1
    BY <1>3, <2>2, <2>3, CountRises
  <2>5. Count(t2, {"interrupted"}) = Count(t, {"interrupted"})
    BY <1>3, <2>2, <2>3, CountStays
  <2> QED
    BY <1>a, <1>1, <2>4, <2>5 DEF ConfirmedBooks, t, t2
<1>8. ConfirmedReport'
  BY <1>a, <1>1, <1>2, ConfirmedReportKept
<1>9. ConfirmedContracted
  <2> DEFINE a == Answered(ccurrent, coutcome)
             b == Answered(ccurrent', coutcome')
  <2>1. /\ DOMAIN a = Messages /\ DOMAIN b = Messages
        /\ a[ccurrent] = "none" /\ b[ccurrent] = "returned"
    BY <1>b, <1>1, <1>3, <1>5 DEF Answered
  <2>2. OnlyAt(ccurrent, a, b)
    BY <1>b, <1>1, <1>5 DEF Answered, OnlyAt
  <2>3. MessageStep(Says(a[ccurrent], {"returned"}, {"refused", "timedOut"}),
                    Says(b[ccurrent], {"returned"}, {"refused", "timedOut"}),
                    cfate[ccurrent] # "absent", cfate'[ccurrent] # "absent")
    BY <1>1, <1>3, <2>1 DEF MessageStep, Says
  <2>4. DOMAIN cfate = Messages /\ DOMAIN cfate' = Messages /\ OnlyAt(ccurrent, cfate, cfate')
    BY <1>a, <1>1 DEF OnlyAt
  <2> HIDE DEF a, b
  <2>5. ContractStep(Answers(a, {"returned"}, {"refused", "timedOut"}),
                     Answers(b, {"returned"}, {"refused", "timedOut"}),
                     TakenBy(cfate), TakenBy(cfate'))
    BY <1>3, <2>1, <2>2, <2>3, <2>4, ContractFollows
  <2> QED
    BY <2>5 DEF ConfirmedContracted, a, b
<1> QED
  BY <1>6, <1>7, <1>8, <1>9 DEF ConfirmedGood, ConfirmedInv

(* A callback runs to its end.                                             *)
LEMMA ConfirmedServing ==
  ASSUME ConfirmedInv, NEW e \in Messages, Confirmed!ServeReport(e)
  PROVE  ConfirmedGood
<1>a. /\ ConfirmedPlaces /\ ConfirmedBooks /\ ConfirmedReport
      /\ cfate \in [Messages -> Fate] /\ coutcome \in [Messages -> Confirmed!Outcome]
  BY DEF ConfirmedInv, ConfirmedPlaces
<1> DEFINE v == IF cfate[e] = "acked" THEN "delivered" ELSE "failed"
<1>1. /\ cat \in {"draining", "polling", "flushing"} /\ cfate[e] \in {"acked", "refused"}
      /\ cfate' = [cfate EXCEPT ![e] = v]
      /\ UNCHANGED <<cat, ccurrent, coutcome, cqueued, cinterrupts, cunheard>>
  BY DEF Confirmed!ServeReport, Confirmed!Serve, Confirmed!InsideClient
<1>2. /\ cdelivered' = IF cfate[e] = "acked" THEN cdelivered + 1 ELSE cdelivered
      /\ cfailed' = IF cfate[e] = "refused" THEN cfailed + 1 ELSE cfailed
  BY DEF Confirmed!ServeReport, Confirmed!OnDelivery
<1>3. csummary' = csummary /\ cisFinished' = cisFinished
  BY DEF Confirmed!ServeReport
<1>4. v \in Fate /\ v \in {"delivered", "failed"} /\ e \notin cunheard
  BY <1>a, <1>1 DEF Fate, ConfirmedPlaces
<1>5. v = "delivered" <=> cfate[e] = "acked"
  OBVIOUS
<1> HIDE DEF v
<1>6. cfate' \in [Messages -> Fate] /\ cfate'[e] = v /\ OnlyAt(e, cfate, cfate')
  BY <1>a, <1>1, <1>4, OneChange
<1>7. \A d \in Messages : cfate[d] = "absent" <=> cfate'[d] = "absent"
  BY <1>1, <1>4, <1>6 DEF OnlyAt
<1>8. ConfirmedPlaces'
  <2>1. \A d \in Messages : d \in cunheard => cfate'[d] \in {"delivered", "failed"}
    BY <1>a, <1>4, <1>6 DEF ConfirmedPlaces, OnlyAt
  <2> QED
    BY <1>a, <1>1, <1>6, <1>7, <2>1 DEF ConfirmedPlaces
<1>9. ConfirmedBooks'
  <2> DEFINE h  == Heard(cfate, cunheard)
             h2 == Heard(cfate', cunheard)
  <2>1. OnlyAt(e, h, h2) /\ h[e] = cfate[e] /\ h2[e] = v
    <3>1. OnlyAt(e, h, h2)
      BY <1>6, HeardAt
    <3>2. h[e] = cfate[e] /\ h2[e] = v
      BY <1>4, <1>6 DEF Heard
    <3> QED
      BY <3>1, <3>2
  <2>2. Taken(cfate', coutcome) = Taken(cfate, coutcome)
    BY <1>7 DEF Taken
  <2> HIDE DEF h, h2
  <2>3. h[e] \notin {"delivered", "failed", "unheard"} /\ h2[e] \notin {"unheard"}
    BY <1>1, <1>4, <2>1
  <2>4. Count(h2, {"unheard"}) = Count(h, {"unheard"})
    BY <2>1, <2>3, CountStays
  <2>5. /\ cdelivered' = Count(h2, {"delivered"})
        /\ cfailed' = Count(h2, {"failed"})
    <3>1. cdelivered = Count(h, {"delivered"}) /\ cfailed = Count(h, {"failed"})
      BY <1>a DEF ConfirmedBooks, h
    <3>2. CASE cfate[e] = "acked"
      <4>1. h2[e] = "delivered" /\ cdelivered' = cdelivered + 1 /\ cfailed' = cfailed
        BY <1>2, <1>5, <2>1, <3>2
      <4>2. Count(h2, {"delivered"}) = Count(h, {"delivered"}) + 1
        BY <2>1, <2>3, <4>1, CountRises
      <4>3. Count(h2, {"failed"}) = Count(h, {"failed"})
        BY <2>1, <2>3, <4>1, CountStays
      <4> QED
        BY <3>1, <4>1, <4>2, <4>3
    <3>3. CASE cfate[e] = "refused"
      <4>1. h2[e] = "failed" /\ cdelivered' = cdelivered /\ cfailed' = cfailed + 1
        BY <1>2, <1>4, <1>5, <2>1, <3>3
      <4>2. Count(h2, {"failed"}) = Count(h, {"failed"}) + 1
        BY <2>1, <2>3, <4>1, CountRises
      <4>3. Count(h2, {"delivered"}) = Count(h, {"delivered"})
        BY <2>1, <2>3, <4>1, CountStays
      <4> QED
        BY <3>1, <4>1, <4>2, <4>3
    <3> QED
      BY <1>1, <3>2, <3>3
  <2> QED
    BY <1>a, <1>1, <2>2, <2>4, <2>5 DEF ConfirmedBooks, h, h2
<1>10. ConfirmedReport'
  <2>1. cat # "idle"
    BY <1>1
  <2>2. cat' = "flushing" => cisFinished'
    BY <1>a, <1>1, <1>3 DEF ConfirmedReport
  <2> QED
    BY <1>a, <1>3, <2>1, <2>2, ConfirmedReportKept
<1>11. ConfirmedContracted
  BY <1>a, <1>1, <1>6, <1>7, ConfirmedStutters
<1> QED
  BY <1>8, <1>9, <1>10, <1>11 DEF ConfirmedGood, ConfirmedInv

(* What every interrupt does to the call in progress, if there is one.     *)
LEMMA ConfirmedAbandoning ==
  ASSUME ConfirmedPlaces, Confirmed!Abandon
  PROVE  /\ coutcome' \in [Messages -> Confirmed!Outcome]
         /\ \A d \in Messages :
              coutcome'[d] = IF d = ccurrent THEN "interrupted" ELSE coutcome[d]
         /\ cat' = "idle" /\ ccurrent' = NoEvent /\ cinterrupts' = cinterrupts + 1
         /\ UNCHANGED <<cqueued, cdelivered, cfailed, csummary>>
         /\ \A d \in Messages :
              \/ Answered(ccurrent', coutcome')[d] = Answered(ccurrent, coutcome)[d]
              \/ /\ Answered(ccurrent, coutcome)[d] = "none"
                 /\ Answered(ccurrent', coutcome')[d] = "interrupted"
<1>a. coutcome \in [Messages -> Confirmed!Outcome] /\ NoEvent \notin Messages
  BY ProducersAssumption DEF ConfirmedPlaces, Confirmed!CallbackConfirmedAssumption, Confirmed!Events
<1>1. /\ cat' = "idle" /\ ccurrent' = NoEvent /\ cinterrupts' = cinterrupts + 1
      /\ UNCHANGED <<cqueued, cdelivered, cfailed, csummary>>
      /\ coutcome' = IF ccurrent = NoEvent THEN coutcome
                     ELSE [coutcome EXCEPT ![ccurrent] = "interrupted"]
  BY DEF Confirmed!Abandon, Confirmed!counts
<1>2. "interrupted" \in Confirmed!Outcome
  BY DEF Confirmed!Outcome
<1>3. coutcome' \in [Messages -> Confirmed!Outcome]
  BY <1>a, <1>1, <1>2
<1>4. \A d \in Messages : coutcome'[d] = IF d = ccurrent THEN "interrupted" ELSE coutcome[d]
  BY <1>a, <1>1
<1>5. \A d \in Messages :
        \/ Answered(ccurrent', coutcome')[d] = Answered(ccurrent, coutcome)[d]
        \/ /\ Answered(ccurrent, coutcome)[d] = "none"
           /\ Answered(ccurrent', coutcome')[d] = "interrupted"
  BY <1>a, <1>1, <1>4 DEF Answered
<1> QED
  BY <1>1, <1>3, <1>4, <1>5

LEMMA ConfirmedInterruptCall ==
  ASSUME ConfirmedInv, Confirmed!InterruptCall
  PROVE  ConfirmedGood
<1>a. /\ ConfirmedPlaces /\ ConfirmedBooks /\ ConfirmedReport
      /\ cfate \in [Messages -> Fate]
  BY DEF ConfirmedInv, ConfirmedPlaces
<1>1. cat # "idle" /\ Confirmed!Abandon /\ UNCHANGED <<cfate, cunheard>>
  BY DEF Confirmed!InterruptCall
<1>2. /\ coutcome' \in [Messages -> Confirmed!Outcome]
      /\ \A d \in Messages :
           coutcome'[d] = IF d = ccurrent THEN "interrupted" ELSE coutcome[d]
      /\ cat' = "idle" /\ ccurrent' = NoEvent /\ cinterrupts' = cinterrupts + 1
      /\ UNCHANGED <<cqueued, cdelivered, cfailed, csummary>>
  BY <1>a, <1>1, ConfirmedAbandoning
<1>3. ConfirmedContracted
  BY <1>a, <1>1, ConfirmedAbandoning, ConfirmedStutters
<1>4. ConfirmedPlaces'
  BY <1>a, <1>1, <1>2 DEF ConfirmedPlaces, Unsent
<1>5. ConfirmedReport'
  BY <1>a, <1>1, <1>2, ConfirmedReportKept
<1> DEFINE t  == Taken(cfate, coutcome)
           t2 == Taken(cfate, coutcome')
           h  == Heard(cfate, cunheard)
<1>6. /\ Count(t2, {"returned"}) = Count(t, {"returned"})
      /\ Count(t2, {"interrupted"}) <= Count(t, {"interrupted"}) + 1
  <2>0. Count(t, {"interrupted"}) \in Nat
    BY CountType
  <2>1. CASE cat = "counting"
    <3>1. /\ ccurrent \in Messages /\ cfate[ccurrent] # "absent"
          /\ coutcome[ccurrent] \in Unsent
      BY <1>a, <2>1 DEF ConfirmedPlaces
    <3>2. OnlyAt(ccurrent, t, t2)
      BY <1>2 DEF OnlyAt, Taken
    <3>3. t[ccurrent] = coutcome[ccurrent] /\ t2[ccurrent] = "interrupted"
      BY <1>2, <3>1 DEF Taken
    <3> HIDE DEF t, t2
    <3>4. /\ t[ccurrent] \notin {"returned"} /\ t2[ccurrent] \notin {"returned"}
          /\ t[ccurrent] \notin {"interrupted"} /\ t2[ccurrent] \in {"interrupted"}
      BY <3>1, <3>3 DEF Unsent
    <3>5. Count(t2, {"returned"}) = Count(t, {"returned"})
      BY <3>1, <3>2, <3>4, CountStays
    <3>6. Count(t2, {"interrupted"}) = Count(t, {"interrupted"}) + 1
      BY <3>1, <3>2, <3>4, CountRises
    <3> QED
      BY <2>0, <3>5, <3>6
  <2>2. CASE cat # "counting"
    <3>1. \A d \in Messages : d = ccurrent => cfate[d] = "absent"
      <4>1. NoEvent \notin Messages
        BY ProducersAssumption DEF Confirmed!CallbackConfirmedAssumption, Confirmed!Events
      <4> QED
        BY <1>a, <2>2, <4>1 DEF ConfirmedPlaces
    <3>2. t2 = t
      BY <1>2, <3>1 DEF Taken
    <3> HIDE DEF t, t2
    <3> QED
      BY <2>0, <3>2
  <2> QED
    BY <2>1, <2>2
<1>7. ConfirmedBooks'
  <2>1. /\ Count(t, {"interrupted"}) \in Nat /\ Count(t2, {"interrupted"}) \in Nat
        /\ Count(h, {"unheard"}) \in Nat
    BY CountType
  <2>2. cinterrupts \in Nat /\ Count(t, {"interrupted"}) + Count(h, {"unheard"}) <= cinterrupts
    BY <1>a DEF ConfirmedBooks
  <2>3. /\ cqueued = Count(t, {"returned"}) /\ cdelivered = Count(h, {"delivered"})
        /\ cfailed = Count(h, {"failed"})
    BY <1>a DEF ConfirmedBooks
  <2>4. Taken(cfate', coutcome') = t2 /\ Heard(cfate', cunheard') = h
    BY <1>1
  <2> HIDE DEF t, t2, h
  <2>5. Count(t2, {"interrupted"}) + Count(h, {"unheard"}) <= cinterrupts'
    BY <1>2, <1>6, <2>1, <2>2
  <2> QED
    BY <1>2, <1>6, <2>2, <2>3, <2>4, <2>5 DEF ConfirmedBooks
<1> QED
  BY <1>3, <1>4, <1>5, <1>7 DEF ConfirmedGood, ConfirmedInv

LEMMA ConfirmedInterruptCallback ==
  ASSUME ConfirmedInv, NEW e \in Messages, Confirmed!InterruptCallback(e)
  PROVE  ConfirmedGood
<1>a. /\ ConfirmedPlaces /\ ConfirmedBooks /\ ConfirmedReport
      /\ cfate \in [Messages -> Fate]
  BY DEF ConfirmedInv, ConfirmedPlaces
<1> DEFINE v == IF cfate[e] = "acked" THEN "delivered" ELSE "failed"
<1>1. /\ cat \in {"draining", "polling", "flushing"} /\ cfate[e] \in {"acked", "refused"}
      /\ cfate' = [cfate EXCEPT ![e] = v]
      /\ cunheard' = cunheard \cup {e} /\ Confirmed!Abandon
  BY DEF Confirmed!InterruptCallback, Confirmed!Serve, Confirmed!InsideClient
<1>2. /\ coutcome' \in [Messages -> Confirmed!Outcome]
      /\ \A d \in Messages :
           coutcome'[d] = IF d = ccurrent THEN "interrupted" ELSE coutcome[d]
      /\ cat' = "idle" /\ ccurrent' = NoEvent /\ cinterrupts' = cinterrupts + 1
      /\ UNCHANGED <<cqueued, cdelivered, cfailed, csummary>>
  BY <1>a, <1>1, ConfirmedAbandoning
<1>3. v \in Fate /\ v \in {"delivered", "failed"} /\ e \notin cunheard
  BY <1>a, <1>1 DEF Fate, ConfirmedPlaces
<1> HIDE DEF v
<1>4. cfate' \in [Messages -> Fate] /\ cfate'[e] = v /\ OnlyAt(e, cfate, cfate')
  BY <1>a, <1>1, <1>3, OneChange
<1>5. \A d \in Messages : cfate[d] = "absent" <=> cfate'[d] = "absent"
  BY <1>1, <1>3, <1>4 DEF OnlyAt
<1>6. ConfirmedContracted
  BY <1>a, <1>1, <1>4, <1>5, ConfirmedAbandoning, ConfirmedStutters
<1>7. \A d \in Messages : d = ccurrent => cfate[d] = "absent"
  <2>1. NoEvent \notin Messages
    BY ProducersAssumption DEF Confirmed!CallbackConfirmedAssumption, Confirmed!Events
  <2> QED
    BY <1>a, <1>1, <2>1 DEF ConfirmedPlaces
<1>8. ConfirmedPlaces'
  <2>1. \A d \in Messages : d \in cunheard' => cfate'[d] \in {"delivered", "failed"}
    BY <1>a, <1>1, <1>3, <1>4 DEF ConfirmedPlaces, OnlyAt
  <2>2. \A d \in Messages : /\ coutcome'[d] \in Unsent => cfate'[d] = "absent"
                            /\ coutcome'[d] = "returned" => cfate'[d] # "absent"
    BY <1>a, <1>2, <1>5 DEF ConfirmedPlaces, Unsent
  <2> QED
    BY <1>2, <1>4, <2>1, <2>2 DEF ConfirmedPlaces
<1>9. ConfirmedReport'
  BY <1>a, <1>1, <1>2, ConfirmedReportKept
<1> DEFINE t  == Taken(cfate, coutcome)
           t2 == Taken(cfate', coutcome')
           h  == Heard(cfate, cunheard)
           h2 == Heard(cfate', cunheard')
<1>10. t2 = t
  BY <1>2, <1>5, <1>7 DEF Taken
<1>11. OnlyAt(e, h, h2)
  BY <1>1, <1>4 DEF OnlyAt, Heard
<1>12. h[e] = cfate[e] /\ h2[e] = "unheard"
  BY <1>1, <1>3 DEF Heard
<1>13. ConfirmedBooks'
  <2>1. /\ Count(t, {"interrupted"}) \in Nat /\ Count(h, {"unheard"}) \in Nat
    BY CountType
  <2>2. cinterrupts \in Nat /\ Count(t, {"interrupted"}) + Count(h, {"unheard"}) <= cinterrupts
    BY <1>a DEF ConfirmedBooks
  <2>3. /\ cqueued = Count(t, {"returned"}) /\ cdelivered = Count(h, {"delivered"})
        /\ cfailed = Count(h, {"failed"})
    BY <1>a DEF ConfirmedBooks
  <2> HIDE DEF t, t2, h, h2
  <2>4. /\ h[e] \notin {"delivered"} /\ h2[e] \notin {"delivered"}
        /\ h[e] \notin {"failed"} /\ h2[e] \notin {"failed"}
        /\ h[e] \notin {"unheard"} /\ h2[e] \in {"unheard"}
    BY <1>1, <1>12
  <2>5. /\ Count(h2, {"delivered"}) = Count(h, {"delivered"})
        /\ Count(h2, {"failed"}) = Count(h, {"failed"})
    BY <1>11, <2>4, CountStays
  <2>6. Count(h2, {"unheard"}) = Count(h, {"unheard"}) + 1
    BY <1>11, <2>4, CountRises
  <2>7. Count(t2, {"interrupted"}) + Count(h2, {"unheard"}) <= cinterrupts'
    BY <1>2, <1>10, <2>1, <2>2, <2>6
  <2>8. /\ cqueued' = Count(t2, {"returned"}) /\ cdelivered' = Count(h2, {"delivered"})
        /\ cfailed' = Count(h2, {"failed"}) /\ cinterrupts' \in Nat
    BY <1>2, <1>10, <2>2, <2>3, <2>5
  <2> QED
    BY <2>7, <2>8 DEF ConfirmedBooks, t2, h2
<1> QED
  BY <1>6, <1>8, <1>9, <1>13 DEF ConfirmedGood, ConfirmedInv

(* poll() and finish() begin and return, and the clock goes on.            *)
LEMMA ConfirmedCalling ==
  ASSUME ConfirmedInv,
         \/ Confirmed!Poll \/ Confirmed!Finish \/ Confirmed!ReturnStep
         \/ Confirmed!DeadlinePasses \/ UNCHANGED Confirmed!vars
  PROVE  ConfirmedGood
<1>a. ConfirmedPlaces /\ ConfirmedBooks /\ ConfirmedReport
  BY DEF ConfirmedInv
<1>1. /\ UNCHANGED <<cfate, ccurrent, coutcome, cinterrupts, cunheard>>
      /\ UNCHANGED <<cqueued, cdelivered, cfailed, crecent>>
  BY DEF Confirmed!Poll, Confirmed!Finish, Confirmed!ReturnStep, Confirmed!PollReturns,
         Confirmed!FlushReturns, Confirmed!DeadlinePasses, Confirmed!vars, Confirmed!counts
<1>2. \/ cat' = cat
      \/ /\ cat \in {"idle", "polling", "flushing"}
         /\ cat' \in {"idle", "polling", "flushing"}
  BY DEF Confirmed!Poll, Confirmed!Finish, Confirmed!ReturnStep, Confirmed!PollReturns,
         Confirmed!FlushReturns, Confirmed!DeadlinePasses, Confirmed!vars
<1>3. ConfirmedPlaces'
  <2>1. CASE cat' = cat
    BY <1>a, <1>1, <2>1 DEF ConfirmedPlaces
  <2>2. CASE /\ cat \in {"idle", "polling", "flushing"}
             /\ cat' \in {"idle", "polling", "flushing"}
    BY <1>a, <1>1, <2>2 DEF ConfirmedPlaces
  <2> QED
    BY <1>2, <2>1, <2>2
<1>4. ConfirmedBooks'
  BY <1>a, <1>1 DEF ConfirmedBooks
<1>5. ConfirmedContracted
  BY <1>1 DEF ConfirmedContracted, ContractStep
<1>6. Confirmed!DeliverySummary' = Confirmed!DeliverySummary
  BY <1>1 DEF Confirmed!DeliverySummary, Confirmed!Awaiting, Confirmed!Outstanding
<1>7. ConfirmedReport'
  <2>1. CASE Confirmed!Poll
    <3>1. ~cisFinished /\ csummary' = csummary /\ cat' # "flushing"
      BY <2>1 DEF Confirmed!Poll
    <3> QED
      BY <1>a, <3>1, ConfirmedReportKept
  <2>2. CASE Confirmed!Finish
    <3>1. ~cisFinished /\ csummary' = csummary /\ cisFinished'
      BY <2>2 DEF Confirmed!Finish
    <3> QED
      BY <1>a, <3>1, ConfirmedReportKept
  <2>3. CASE Confirmed!PollReturns \/ Confirmed!DeadlinePasses
    <3>1. cat # "idle" /\ csummary' = csummary /\ cat' # "flushing"
      BY <2>3 DEF Confirmed!PollReturns, Confirmed!DeadlinePasses
    <3> QED
      BY <1>a, <3>1, ConfirmedReportKept
  <2>4. CASE Confirmed!FlushReturns
    <3>1. /\ cat = "flushing" /\ cat' = "idle" /\ csummary' = Confirmed!DeliverySummary
          /\ cisFinished' = cisFinished
      BY <2>4 DEF Confirmed!FlushReturns
    <3>2. cisFinished'
      BY <1>a, <3>1 DEF ConfirmedReport
    <3> QED
      BY <1>6, <3>1, <3>2 DEF ConfirmedReport
  <2>5. CASE UNCHANGED Confirmed!vars
    <3>1. cat' = cat /\ csummary' = csummary /\ cisFinished' = cisFinished
      BY <2>5 DEF Confirmed!vars
    <3> QED
      BY <1>a, <1>6, <3>1 DEF ConfirmedReport
  <2> QED
    BY <2>1, <2>2, <2>3, <2>4, <2>5 DEF Confirmed!ReturnStep
<1> QED
  BY <1>3, <1>4, <1>5, <1>7 DEF ConfirmedGood, ConfirmedInv

(* The broker answers, also after finish() has made its report.            *)
LEMMA ConfirmedBackground ==
  ASSUME ConfirmedInv, Confirmed!Background
  PROVE  ConfirmedGood
<1>a. /\ ConfirmedPlaces /\ ConfirmedBooks /\ ConfirmedReport
      /\ cfate \in [Messages -> Fate]
  BY DEF ConfirmedInv, ConfirmedPlaces
<1>1. PICK e \in Messages, v \in {"acked", "refused"} :
        cfate[e] = "queued" /\ cfate' = [cfate EXCEPT ![e] = v]
  BY DEF Confirmed!Background, Confirmed!BackgroundThread, Confirmed!Acknowledge, Confirmed!Refuse
<1>2. /\ UNCHANGED <<cat, ccurrent, coutcome, cinterrupts, cunheard, csummary>>
      /\ UNCHANGED <<cqueued, cdelivered, cfailed, crecent>>
  BY DEF Confirmed!Background, Confirmed!counts
<1>3. cisFinished' = cisFinished
  BY DEF Confirmed!Background
<1>4. v \in Fate
  BY DEF Fate, Pending
<1>5. cfate' \in [Messages -> Fate] /\ cfate'[e] = v /\ OnlyAt(e, cfate, cfate')
  BY <1>a, <1>1, <1>4, OneChange
<1>6. \A d \in Messages : /\ cfate[d] = "absent" <=> cfate'[d] = "absent"
                          /\ cfate[d] \in {"delivered", "failed"}
                               => cfate'[d] \in {"delivered", "failed"}
  BY <1>1, <1>5 DEF OnlyAt
<1>7. ConfirmedPlaces'
  BY <1>a, <1>2, <1>5, <1>6 DEF ConfirmedPlaces
<1>8. ConfirmedBooks'
  <2> DEFINE h  == Heard(cfate, cunheard)
             h2 == Heard(cfate', cunheard)
  <2>1. OnlyAt(e, h, h2)
    BY <1>5, HeardAt
  <2>2. h[e] = "queued" /\ h2[e] = v
    BY <1>a, <1>1, <1>5 DEF Heard, ConfirmedPlaces
  <2>3. Taken(cfate', coutcome) = Taken(cfate, coutcome)
    BY <1>6 DEF Taken
  <2> HIDE DEF h, h2
  <2>4. /\ Count(h2, {"delivered"}) = Count(h, {"delivered"})
        /\ Count(h2, {"failed"}) = Count(h, {"failed"})
        /\ Count(h2, {"unheard"}) = Count(h, {"unheard"})
    BY <2>1, <2>2, CountStays
  <2> QED
    BY <1>a, <1>2, <2>3, <2>4 DEF ConfirmedBooks, h, h2
<1>9. ConfirmedReport'
  <2>1. Confirmed!Outstanding' = Confirmed!Outstanding
    BY <1>1, <1>5 DEF Confirmed!Outstanding, Confirmed!Pending, OnlyAt
  <2>2. Confirmed!DeliverySummary' = Confirmed!DeliverySummary
    BY <1>2, <2>1 DEF Confirmed!DeliverySummary, Confirmed!Awaiting
  <2> QED
    BY <1>a, <1>2, <1>3, <2>2 DEF ConfirmedReport
<1>10. ConfirmedContracted
  BY <1>a, <1>2, <1>5, <1>6, ConfirmedStutters
<1> QED
  BY <1>7, <1>8, <1>9, <1>10 DEF ConfirmedGood, ConfirmedInv

LEMMA ConfirmedStep == ConfirmedInv /\ [Confirmed!Next]_(Confirmed!vars) => ConfirmedGood
BY ConfirmedPublishing, ConfirmedProducing, ConfirmedCounting, ConfirmedServing,
   ConfirmedInterruptCall, ConfirmedInterruptCallback, ConfirmedCalling, ConfirmedBackground
DEF Confirmed!Next, Confirmed!CallStep, Confirmed!PublishStep, Confirmed!ReturnStep, Confirmed!Events

LEMMA ConfirmedOnBench == Spec => Confirmed!Spec
<1>1. Init => Confirmed!Init
  BY DEF Init
<1>2. [Next]_vars => [Confirmed!Next]_(Confirmed!vars)
  BY DEF Next, vars, confirmedVars, Confirmed!vars, Confirmed!counts
<1> QED
  BY <1>1, <1>2, PTL DEF Spec, Confirmed!Spec

LEMMA ConfirmedSafe == Spec => []ConfirmedInv
<1>1. ConfirmedInv /\ [Confirmed!Next]_(Confirmed!vars) => ConfirmedInv'
  BY ConfirmedStep DEF ConfirmedGood
<1> QED
  BY <1>1, ConfirmedInitInv, ConfirmedOnBench, PTL DEF Confirmed!Spec

(* When nothing is between produce() and its count, the two books are of   *)
(* the same messages.                                                      *)
LEMMA ConfirmedBalance ==
  ASSUME ConfirmedInv, cat = "idle"
  PROVE  LET lost    == Count(Taken(cfate, coutcome), {"interrupted"})
             unheard == Count(Heard(cfate, cunheard), {"unheard"})
             pending == Count(cfate, Pending)
         IN  /\ cqueued + lost = pending + cdelivered + cfailed + unheard
             /\ cqueued \in Nat /\ lost \in Nat /\ pending \in Nat /\ unheard \in Nat
             /\ cdelivered \in Nat /\ cfailed \in Nat
             /\ lost + unheard <= cinterrupts
<1> DEFINE t == Taken(cfate, coutcome)
           h == Heard(cfate, cunheard)
           D == {"delivered"} \cup ({"failed"} \cup {"unheard"})
<1>a. ConfirmedPlaces /\ ConfirmedBooks
  BY DEF ConfirmedInv
<1>b. NoEvent \notin Messages
  BY ProducersAssumption DEF Confirmed!CallbackConfirmedAssumption, Confirmed!Events
<1>1. \A e \in Messages : t[e] \in {"returned"} \cup {"interrupted"} <=> cfate[e] # "absent"
  <2> TAKE e \in Messages
  <2>1. coutcome[e] \in Confirmed!Outcome
    BY <1>a DEF ConfirmedPlaces
  <2>2. coutcome[e] \in Unsent => cfate[e] = "absent"
    BY <1>a, <1>b DEF ConfirmedPlaces
  <2>3. t[e] = IF cfate[e] = "absent" THEN "absent" ELSE coutcome[e]
    BY DEF Taken
  <2> QED
    BY <2>1, <2>2, <2>3 DEF Confirmed!Outcome, Unsent
<1>2. \A e \in Messages : h[e] \in Pending \cup D <=> cfate[e] # "absent"
  <2> TAKE e \in Messages
  <2>1. cfate[e] \in Fate /\ (e \in cunheard => cfate[e] \in {"delivered", "failed"})
    BY <1>a DEF ConfirmedPlaces
  <2>2. h[e] = IF e \in cunheard THEN "unheard" ELSE cfate[e]
    BY DEF Heard
  <2> QED
    BY <2>1, <2>2 DEF Fate, Pending
<1>3. \A e \in Messages : h[e] \in Pending <=> cfate[e] \in Pending
  <2> TAKE e \in Messages
  <2>1. e \in cunheard => cfate[e] \in {"delivered", "failed"}
    BY <1>a DEF ConfirmedPlaces
  <2>2. h[e] = IF e \in cunheard THEN "unheard" ELSE cfate[e]
    BY DEF Heard
  <2> QED
    BY <2>1, <2>2 DEF Pending
<1>4. /\ cqueued = Count(t, {"returned"}) /\ cdelivered = Count(h, {"delivered"})
      /\ cfailed = Count(h, {"failed"})
      /\ Count(t, {"interrupted"}) + Count(h, {"unheard"}) <= cinterrupts
  BY <1>a DEF ConfirmedBooks
<1> HIDE DEF t, h
<1>5. /\ Count(t, {"returned"}) \in Nat /\ Count(t, {"interrupted"}) \in Nat
      /\ Count(h, {"delivered"}) \in Nat /\ Count(h, {"failed"}) \in Nat
      /\ Count(h, {"unheard"}) \in Nat /\ Count(cfate, Pending) \in Nat
  BY CountType
<1>6. Count(t, {"returned"} \cup {"interrupted"}) = Count(h, Pending \cup D)
  BY <1>1, <1>2, CountSame
<1>7. Count(t, {"returned"} \cup {"interrupted"})
        = Count(t, {"returned"}) + Count(t, {"interrupted"})
  BY CountSplit
<1>8. Count(h, Pending \cup D) = Count(h, Pending) + Count(h, D)
  <2>1. Pending \cap D = {}
    BY DEF Pending
  <2> QED
    BY <2>1, CountSplit
<1>9. Count(h, D) = Count(h, {"delivered"}) + (Count(h, {"failed"}) + Count(h, {"unheard"}))
  <2>1. /\ {"delivered"} \cap ({"failed"} \cup {"unheard"}) = {}
        /\ {"failed"} \cap {"unheard"} = {}
    OBVIOUS
  <2>2. Count(h, D) = Count(h, {"delivered"}) + Count(h, {"failed"} \cup {"unheard"})
    BY <2>1, CountSplit
  <2>3. Count(h, {"failed"} \cup {"unheard"}) = Count(h, {"failed"}) + Count(h, {"unheard"})
    BY <2>1, CountSplit
  <2> QED
    BY <2>2, <2>3
<1>10. Count(h, Pending) = Count(cfate, Pending)
  BY <1>3, CountSame
<1>11. cqueued + Count(t, {"interrupted"})
         = Count(cfate, Pending) + cdelivered + cfailed + Count(h, {"unheard"})
  <2> HIDE DEF D
  <2>1. Count(t, {"returned"}) + Count(t, {"interrupted"}) = Count(h, Pending) + Count(h, D)
    BY <1>6, <1>7, <1>8
  <2>2. Count(t, {"returned"}) = cqueued /\ Count(h, Pending) = Count(cfate, Pending)
    BY <1>4, <1>10
  <2>3. Count(h, D) = cdelivered + (cfailed + Count(h, {"unheard"}))
    BY <1>4, <1>9
  <2> QED
    BY <1>4, <1>5, <2>1, <2>2, <2>3
<1> QED
  BY <1>4, <1>5, <1>11 DEF t, h

(* What the report says, in the counts of the two books.                   *)
LEMMA ConfirmedSummary ==
  ASSUME ConfirmedInv, csummary # NoSummary
  PROVE  /\ cat = "idle"
         /\ csummary.queued = cqueued /\ csummary.delivered = cdelivered
         /\ csummary.failed = cfailed /\ csummary.awaiting = cqueued - cdelivered - cfailed
         /\ csummary.unfinished = Count(cfate, Pending)
<1>1. cat = "idle" /\ csummary = Confirmed!DeliverySummary
  BY DEF ConfirmedInv, ConfirmedReport
<1>2. Confirmed!Cardinality(Confirmed!Outstanding) = Count(cfate, Pending)
  BY DEF Confirmed!Cardinality, Cardinality, Confirmed!Outstanding, Confirmed!Pending, Pending,
         Count, In
<1> QED
  BY <1>1, <1>2 DEF Confirmed!DeliverySummary, Confirmed!Awaiting

(* Nothing lost, nothing unheard: the counts are those of the fates.       *)
LEMMA ConfirmedUndisturbed ==
  ASSUME ConfirmedInv, cat = "idle", Count(Taken(cfate, coutcome), {"interrupted"}) = 0,
         Count(Heard(cfate, cunheard), {"unheard"}) = 0
  PROVE  /\ \A e \in Messages : Heard(cfate, cunheard)[e] = cfate[e]
         /\ \A e \in Messages : coutcome[e] = "returned" <=> cfate[e] # "absent"
<1>1. \A e \in Messages : Heard(cfate, cunheard)[e] = cfate[e]
  <2>1. \A e \in Messages : Heard(cfate, cunheard)[e] \notin {"unheard"}
    BY CountZero
  <2> QED
    BY <2>1 DEF Heard
<1>2. \A e \in Messages : coutcome[e] = "returned" <=> cfate[e] # "absent"
  <2>1. \A e \in Messages : Taken(cfate, coutcome)[e] \notin {"interrupted"}
    BY CountZero
  <2>2. \A e \in Messages : coutcome[e] = "interrupted" => cfate[e] = "absent"
    BY <2>1 DEF Taken
  <2>3. NoEvent \notin Messages
    BY ProducersAssumption DEF Confirmed!CallbackConfirmedAssumption, Confirmed!Events
  <2> QED
    BY <2>2, <2>3 DEF ConfirmedInv, ConfirmedPlaces, Confirmed!Outcome, Unsent
<1> QED
  BY <1>1, <1>2

(* One interrupt loses a message or leaves a report unheard, not both: it  *)
(* cannot make the two books agree by mistake.                             *)
LEMMA ConfirmedVerdict == ConfirmedInv => Confirmed!VerdictIsSound
<1> SUFFICES ASSUME ConfirmedInv, csummary # NoSummary, cinterrupts <= 1,
                    Confirmed!AllConfirmed(csummary)
             PROVE  Confirmed!Accepted = Confirmed!Delivered
  BY DEF Confirmed!VerdictIsSound
<1> DEFINE lost    == Count(Taken(cfate, coutcome), {"interrupted"})
           unheard == Count(Heard(cfate, cunheard), {"unheard"})
           pending == Count(cfate, Pending)
<1>1. /\ cat = "idle" /\ cfailed = 0 /\ cqueued - cdelivered - cfailed = 0 /\ pending = 0
  BY ConfirmedSummary DEF Confirmed!AllConfirmed
<1>2. /\ cqueued + lost = pending + cdelivered + cfailed + unheard
      /\ cqueued \in Nat /\ lost \in Nat /\ pending \in Nat /\ unheard \in Nat
      /\ cdelivered \in Nat /\ cfailed \in Nat
      /\ lost + unheard <= cinterrupts
  BY <1>1, ConfirmedBalance
<1>3. cinterrupts \in Nat /\ cfailed = Count(Heard(cfate, cunheard), {"failed"})
  BY DEF ConfirmedInv, ConfirmedBooks
<1> HIDE DEF lost, unheard, pending
<1>4. lost = unheard
  BY <1>1, <1>2
<1>5. lost = 0 /\ unheard = 0
  BY <1>2, <1>3, <1>4
<1>6. \A e \in Messages : Heard(cfate, cunheard)[e] = cfate[e]
  BY <1>1, <1>5, ConfirmedUndisturbed DEF lost, unheard
<1>7. \A e \in Messages : cfate[e] \notin Pending
  BY <1>1, CountZero DEF pending
<1>8. \A e \in Messages : cfate[e] \notin {"failed"}
  <2>1. \A e \in Messages : Heard(cfate, cunheard)[e] \notin {"failed"}
    BY <1>1, <1>3, CountZero
  <2> QED
    BY <1>6, <2>1
<1>9. \A e \in Messages : cfate[e] \in Fate
  BY DEF ConfirmedInv, ConfirmedPlaces
<1> QED
  BY <1>7, <1>8, <1>9 DEF Confirmed!Accepted, Confirmed!Delivered, Confirmed!Events, Fate

LEMMA ConfirmedReports == ConfirmedInv => Confirmed!HonestReport
<1> SUFFICES ASSUME ConfirmedInv, csummary # NoSummary, cinterrupts = 0
             PROVE  /\ csummary.queued = Confirmed!Cardinality(Confirmed!Returned)
                    /\ csummary.delivered = Confirmed!Cardinality(Confirmed!Delivered)
                    /\ csummary.failed = Confirmed!Cardinality(Confirmed!Failed)
                    /\ csummary.awaiting = csummary.unfinished
                    /\ Confirmed!AllConfirmed(csummary) <=> Confirmed!Returned = Confirmed!Delivered
  BY DEF Confirmed!HonestReport
<1> DEFINE lost    == Count(Taken(cfate, coutcome), {"interrupted"})
           unheard == Count(Heard(cfate, cunheard), {"unheard"})
           pending == Count(cfate, Pending)
<1>1. /\ cat = "idle" /\ csummary.queued = cqueued /\ csummary.delivered = cdelivered
      /\ csummary.failed = cfailed /\ csummary.awaiting = cqueued - cdelivered - cfailed
      /\ csummary.unfinished = pending
  BY ConfirmedSummary
<1>2. /\ cqueued + lost = pending + cdelivered + cfailed + unheard
      /\ cqueued \in Nat /\ lost \in Nat /\ pending \in Nat /\ unheard \in Nat
      /\ cdelivered \in Nat /\ cfailed \in Nat
      /\ lost + unheard <= cinterrupts
  BY <1>1, ConfirmedBalance
<1> HIDE DEF lost, unheard, pending
<1>3. lost = 0 /\ unheard = 0
  BY <1>2
<1>4. csummary.awaiting = csummary.unfinished
  BY <1>1, <1>2, <1>3
<1>5. /\ \A e \in Messages : Heard(cfate, cunheard)[e] = cfate[e]
      /\ \A e \in Messages : coutcome[e] = "returned" <=> cfate[e] # "absent"
  BY <1>1, <1>3, ConfirmedUndisturbed DEF lost, unheard
<1>6. /\ cdelivered = Count(cfate, {"delivered"}) /\ cfailed = Count(cfate, {"failed"})
      /\ cqueued = Count(coutcome, {"returned"})
  <2>1. /\ Count(Heard(cfate, cunheard), {"delivered"}) = Count(cfate, {"delivered"})
        /\ Count(Heard(cfate, cunheard), {"failed"}) = Count(cfate, {"failed"})
    BY <1>5, CountSame
  <2>2. \A e \in Messages :
          Taken(cfate, coutcome)[e] \in {"returned"} <=> coutcome[e] \in {"returned"}
    BY <1>5 DEF Taken
  <2>3. Count(Taken(cfate, coutcome), {"returned"}) = Count(coutcome, {"returned"})
    BY <2>2, CountSame
  <2> QED
    BY <2>1, <2>3 DEF ConfirmedInv, ConfirmedBooks
<1>7. /\ Confirmed!Cardinality(Confirmed!Returned) = Count(coutcome, {"returned"})
      /\ Confirmed!Cardinality(Confirmed!Delivered) = Count(cfate, {"delivered"})
      /\ Confirmed!Cardinality(Confirmed!Failed) = Count(cfate, {"failed"})
  <2>1. /\ Confirmed!Returned = In(coutcome, {"returned"})
        /\ Confirmed!Delivered = In(cfate, {"delivered"})
        /\ Confirmed!Failed = In(cfate, {"failed"})
    BY DEF Confirmed!Returned, Confirmed!Events, Confirmed!Delivered, Confirmed!Failed, In
  <2> QED
    BY <2>1 DEF Confirmed!Cardinality, Cardinality, Count
<1>8. Confirmed!AllConfirmed(csummary) <=> Confirmed!Returned = Confirmed!Delivered
  <2>1. Confirmed!AllConfirmed(csummary) <=> cfailed = 0 /\ pending = 0
    BY <1>1, <1>4 DEF Confirmed!AllConfirmed
  <2>2. cfailed = 0 <=> \A e \in Messages : cfate[e] \notin {"failed"}
    BY <1>6, CountZero
  <2>3. pending = 0 <=> \A e \in Messages : cfate[e] \notin Pending
    BY CountZero DEF pending
  <2>4. \A e \in Messages : cfate[e] \in Fate
    BY DEF ConfirmedInv, ConfirmedPlaces
  <2>5. /\ Confirmed!Returned = {e \in Messages : cfate[e] # "absent"}
        /\ Confirmed!Delivered = {e \in Messages : cfate[e] = "delivered"}
    BY <1>5 DEF Confirmed!Returned, Confirmed!Events, Confirmed!Delivered
  <2>6. (\A e \in Messages : cfate[e] \notin {"failed"} /\ cfate[e] \notin Pending)
          <=> Confirmed!Returned = Confirmed!Delivered
    BY <2>4, <2>5 DEF Fate, Pending
  <2> QED
    BY <2>1, <2>2, <2>3, <2>6
<1> QED
  BY <1>1, <1>4, <1>6, <1>7, <1>8

LEMMA ConfirmedKeepsContract == Spec => ConfirmedContract!Spec
<1>1. Confirmed!Init => ConfirmedContract!Init
  BY DEF Confirmed!Init, Confirmed!ClientInit, Confirmed!Events, ConfirmedContract!Init,
         Answers, TakenBy
<1>2. ConfirmedInv /\ [Confirmed!Next]_(Confirmed!vars)
        => [ConfirmedContract!Next]_(ConfirmedContract!vars)
  <2> SUFFICES ASSUME ConfirmedInv, [Confirmed!Next]_(Confirmed!vars)
               PROVE  [ConfirmedContract!Next]_(ConfirmedContract!vars)
    OBVIOUS
  <2>1. ConfirmedContracted
    BY ConfirmedStep DEF ConfirmedGood
  <2> QED
    BY <2>1 DEF ConfirmedContracted, ContractStep, Answered, ConfirmedContract!Next,
       ConfirmedContract!vars, ConfirmedContract!Take, ConfirmedContract!Confirm,
       ConfirmedContract!Refuse, ConfirmedContract!OfferAgain, ConfirmedContract!Say
<1> QED
  BY <1>1, <1>2, ConfirmedSafe, ConfirmedOnBench, PTL DEF Confirmed!Spec, ConfirmedContract!Spec

-----------------------------------------------------------------------------
(***************************************************************************)
(* What the producers promise.                                             *)
(***************************************************************************)

(* "All confirmed" is never said while a message that the client took has  *)
(* not been delivered: by finish() of the callback-confirmed producer also *)
(* after an interrupt between any two steps, by the router's snapshot when *)
(* no publish is under way, by the report of the lesson's publisher.       *)
THEOREM AllConfirmedIsTrue == Spec => []ConfirmedMeansDelivered
<1>1. ConfirmedInv /\ RouterInv /\ LessonInv => ConfirmedMeansDelivered
  BY ConfirmedVerdict, RouterVerdict, LessonVerdict DEF ConfirmedMeansDelivered
<1> QED
  BY <1>1, ConfirmedSafe, RouterSafe, LessonSafe, PTL

(* A finish() that no interrupt disturbed reports as many queued as        *)
(* publish_event returned for, and as many delivered and failed as the     *)
(* broker answered.                                                        *)
THEOREM ReportsAreHonest == Spec => []HonestReport
<1>1. ConfirmedInv => HonestReport
  BY ConfirmedReports DEF HonestReport
<1> QED
  BY <1>1, ConfirmedSafe, PTL

(* The counters that threads and callbacks keep say what the client holds, *)
(* up to the messages that are handed over and not yet counted.            *)
THEOREM CountersTellWhatIsHeld == Spec => []CountsAreExact
<1>1. RouterInv /\ SharedInv /\ LessonInv => CountsAreExact
  BY RouterCounts, SharedCounts, LessonCounts DEF CountsAreExact
<1> QED
  BY <1>1, RouterSafe, SharedSafe, LessonSafe, PTL

(* What a close() has reported drained is drained, and no publish slips a  *)
(* message in behind it.                                                   *)
THEOREM DrainsAreFinal == Spec => []DrainedForGood
<1>1. ForgetInv /\ SharedInv /\ LessonInv => DrainedForGood
  BY ForgetDrained, SharedDrained, LessonVerdict DEF DrainedForGood
<1> QED
  BY <1>1, ForgetSafe, SharedSafe, LessonSafe, PTL

(* All five producers implement the contract of publishing: what a caller  *)
(* is told was queued was, once, and what it is told was not, was not.     *)
THEOREM AllKeepTheContract == Spec => KeepsPublishContract
BY RouterKeepsContract, ConfirmedKeepsContract, ForgetKeepsContract, SharedKeepsContract,
   LessonKeepsContract DEF KeepsPublishContract

================================================================================
