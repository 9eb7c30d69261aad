------------------------ MODULE SessionStoreProofs -------------------------
(* Theorems about the session store, for every number of logins, users and *)
(* server processes, every lifetime and every limit.                       *)
EXTENDS SessionStore, FiniteSetTheorems, TLAPS

----------------------------------------------------------------------------
(* The constants, and whole seconds, as the proofs cite them.              *)

LEMMA Constants ==
  /\ Ttl \in Nat /\ Window \in Nat /\ TicksPerSecond \in Nat \ {0} /\ IsFiniteSet(Tokens)
  /\ MaxSessions \in Nat /\ MaxPerPrincipal \in Nat /\ MaxIssuances \in Nat
  /\ MaxTime \in Nat /\ MaxKeys \in Nat /\ MaxFaults \in Nat /\ MaxOverruns \in Nat
  /\ None \notin Nat /\ None \notin Tokens /\ None \notin Row
  /\ Rotator \notin Processes /\ Nobody \notin Processes /\ Nobody # Rotator
  BY SessionAssumption DEF Row

LEMMA WholeSeconds ==
  /\ \A a \in Nat : Seconds(a) \in Nat /\ Ticks(Seconds(a)) \in Nat /\ Ticks(Seconds(a)) <= a
  /\ \A a, b \in Nat : a <= b => Seconds(a) <= Seconds(b)
  /\ \A a, s \in Nat : Seconds(a) < s => a < Ticks(s)
<1> DEFINE T == TicksPerSecond
<1>1. T \in Nat \ {0}
  BY Constants
<1> HIDE DEF T
<1>2. ASSUME NEW a \in Nat
      PROVE  a \div T \in Nat /\ (a \div T) * T \in Nat /\ (a \div T) * T <= a
             /\ a < (a \div T + 1) * T
  BY <1>1
<1>3. ASSUME NEW a \in Nat, NEW b \in Nat, a <= b PROVE a \div T <= b \div T
  BY <1>1, <1>3
<1>4. ASSUME NEW q \in Nat, NEW s \in Nat, q < s PROVE (q + 1) * T <= s * T
  BY <1>1, <1>4
<1>5. ASSUME NEW a \in Nat, NEW s \in Nat, a \div T < s PROVE a < s * T
  <2>1. (a \div T + 1) * T <= s * T
    BY <1>2, <1>4, <1>5
  <2>2. a < (a \div T + 1) * T /\ (a \div T + 1) * T \in Nat /\ s * T \in Nat
    BY <1>1, <1>2
  <2> QED
    BY <2>1, <2>2
<1> QED
  BY <1>2, <1>3, <1>5 DEF Seconds, Ticks, T

----------------------------------------------------------------------------
(* The inductive invariant, by its parts.                                  *)
(*                                                                         *)
(* A server that has not overrun its drain deadline holds the lifecycle    *)
(* lock, and so does the rotation command; handlers run in servers that    *)
(* are up, or overran; a server starts with an empty memory, and knows a   *)
(* key before it reads its rows.                                           *)
LifeInv ==
  /\ \A p \in Processes :
       /\ mode[p] \in {"loading", "opening", "up"} => holder = p
       /\ mode[p] \in {"off", "loading", "opening"} =>
            mem[p] = NoTokens /\ recent[p] = NoTokens
       /\ mode[p] \in {"opening", "up", "overrun"} => procKey[p] # None
       /\ mode[p] = "overrun" => ~Exclusive
  /\ \A t \in Tokens :
       /\ phase[t] \in Inside \cup Waiting => 
            proc[t] \in Processes /\ mode[proc[t]] \in {"up", "overrun"}
       /\ at[t] <= now
  /\ rotation # "off" => holder = Rotator /\ keys < MaxKeys

(* A row expires with the session its login issued, and there is none      *)
(* before the login, nor once a revocation has deleted it.                 *)
RowInv ==
  \A t \in Tokens :
    /\ rows[t] # None => rows[t].expires = Seconds(at[t] + Ttl)
    /\ phase[t] \in {"new", "forget", "revoked"} => rows[t] = None

(* No memory holds a token whose revocation was answered.                  *)
RevokedInv ==
  \A t \in Tokens, p \in Processes :
    Exclusive /\ phase[t] = "revoked" => mem[p][t] = None

(* From its insertion to its deletion an unexpired session has its row.    *)
LiveInv ==
  \A t \in Tokens :
    /\ Exclusive /\ phase[t] \in {"remember", "live", "revoke", "delete"}
    /\ Seconds(now) < Seconds(at[t] + Ttl)
    => rows[t] # None

(* What has a living row is in the memory of the server that is up, for at *)
(* least as long; except between the two writes of its own login.          *)
HeldInv ==
  \A t \in Tokens, p \in Processes :
    Exclusive /\ mode[p] = "up" /\ RowLives(t, Seconds(now)) /\ phase[t] # "remember" =>
      mem[p][t] # None /\ mem[p][t] >= Ticks(rows[t].expires)

(* The rows, and the server that may write more of them, use the key of    *)
(* the credential store; a rotation replaces it when there is no row.      *)
KeyInv ==
  Exclusive =>
    /\ key # None => /\ \A t \in Kept(rows) : rows[t].key = key
                     /\ \A p \in Processes : mode[p] \in {"opening", "up"} => procKey[p] = key
    /\ rotation = "store" => rows = NoTokens

(* The limits of a memory.                                                 *)
MemoryLimits ==
  \A p \in Processes :
    /\ Cardinality(Kept(mem[p])) <= MaxSessions
    /\ \A x \in Principals :
         /\ Exclusive => Cardinality(KeptOf(mem[p], x)) <= MaxPerPrincipal
         /\ Cardinality(KeptOf(recent[p], x)) <= MaxIssuances

(* A login that passed the admission still finds room when it is           *)
(* remembered: nobody else enters the store of its server in between.      *)
AdmittedInv ==
  \A t \in Tokens :
    phase[t] \in {"insert", "remember"} =>
      /\ Cardinality(Kept(mem[proc[t]])) < MaxSessions
      /\ Cardinality(KeptOf(mem[proc[t]], PrincipalOf[t])) < MaxPerPrincipal
      /\ Cardinality(KeptOf(recent[proc[t]], PrincipalOf[t])) < MaxIssuances

(* The rows that live are as few, for all users and for each of them.      *)
RowLimits ==
  Exclusive =>
    /\ Cardinality(Kept(UnexpiredRows(Seconds(now)))) <= MaxSessions
    /\ \A x \in Principals :
         Cardinality(KeptOf(UnexpiredRows(Seconds(now)), x)) <= MaxPerPrincipal

IInv ==
  /\ TypeOK /\ LifeInv /\ RowInv /\ RevokedInv /\ LiveInv /\ HeldInv /\ KeyInv
  /\ MemoryLimits /\ AdmittedInv /\ RowLimits

----------------------------------------------------------------------------
(* What memory and the rows are when they are pruned.                      *)
LEMMA Pruned ==
  ASSUME TypeOK, NEW t \in Tokens, proc[t] \in Processes
  PROVE  /\ Unexpired(t) \in [Tokens -> (0..MaxTime + Ttl) \cup {None}]
         /\ StillRecent(t) \in [Tokens -> (0..MaxTime) \cup {None}]
  BY DEF TypeOK, Unexpired, StillRecent

LEMMA PrunedRows ==
  ASSUME TypeOK, NEW second
  PROVE  UnexpiredRows(second) \in [Tokens -> Row \cup {None}]
  BY DEF TypeOK, UnexpiredRows

LEMMA NothingKept ==
  /\ NoTokens \in [Tokens -> (0..MaxTime + Ttl) \cup {None}]
  /\ NoTokens \in [Tokens -> (0..MaxTime) \cup {None}]
  /\ NoTokens \in [Tokens -> Row \cup {None}]
  BY DEF NoTokens

(* Pruning the rows at a reading of the clock leaves those that live now.  *)
LEMMA RowsShrink ==
  ASSUME TypeOK, NEW a \in Nat, a <= now, rows' = UnexpiredRows(Seconds(a)),
         NEW s \in Tokens
  PROVE  /\ rows'[s] = None \/ rows'[s] = rows[s]
         /\ RowLives(s, Seconds(now)) => rows'[s] = rows[s]
<1>1. rows'[s] = IF RowLives(s, Seconds(a)) THEN rows[s] ELSE None
  BY DEF UnexpiredRows
<1>2. ASSUME RowLives(s, Seconds(now)) PROVE RowLives(s, Seconds(a))
  <2>1. now \in Nat
    BY Constants DEF TypeOK
  <2>2. Seconds(a) <= Seconds(now) /\ Seconds(a) \in Nat /\ Seconds(now) \in Nat
    BY <2>1, WholeSeconds
  <2>3. rows[s] # None /\ rows[s].expires \in Nat
    BY <1>2 DEF RowLives, TypeOK, Row
  <2> QED
    BY <1>2, <2>2, <2>3 DEF RowLives
<1> QED
  BY <1>1, <1>2

(* Pruning the memory of a handler's process takes what has expired.       *)
LEMMA MemoryShrinks ==
  ASSUME TypeOK, NEW t \in Tokens, proc[t] \in Processes, PruneMemory(t),
         NEW p \in Processes, NEW s \in Tokens
  PROVE  /\ mem'[p][s] = None \/ mem'[p][s] = mem[p][s]
         /\ mem[p][s] # None /\ mem[p][s] > at[t] => mem'[p][s] = mem[p][s]
         /\ recent'[p][s] = None \/ recent'[p][s] = recent[p][s]
  BY DEF TypeOK, PruneMemory, Unexpired, StillRecent

(* What is in memory as long as its row lives has not expired.             *)
LEMMA HeldIsValid ==
  ASSUME TypeOK, NEW s \in Tokens, NEW p \in Processes, RowLives(s, Seconds(now)),
         mem[p][s] # None, mem[p][s] >= Ticks(rows[s].expires)
  PROVE  Valid(p, s)
<1>1. rows[s] # None /\ rows[s].expires \in Nat /\ now \in Nat /\ mem[p][s] \in Nat
  BY Constants DEF TypeOK, Row, RowLives
<1>2. now < Ticks(rows[s].expires) /\ Ticks(rows[s].expires) \in Int
  BY <1>1, WholeSeconds, Constants DEF RowLives, Ticks
<1> QED
  BY <1>1, <1>2 DEF Valid


(* Fewer tokens kept are not more in number, nor is one more than one more.*)
LEMMA FewerKept ==
  ASSUME NEW f, NEW g, \A s \in Tokens : f[s] # None => g[s] # None
  PROVE  /\ Cardinality(Kept(f)) \in Nat /\ Cardinality(Kept(g)) \in Nat
         /\ Cardinality(Kept(f)) <= Cardinality(Kept(g))
         /\ \A x : /\ Cardinality(KeptOf(f, x)) \in Nat
                   /\ Cardinality(KeptOf(g, x)) \in Nat
                   /\ Cardinality(KeptOf(f, x)) <= Cardinality(KeptOf(g, x))
<1>1. ASSUME NEW B \in SUBSET Tokens, NEW A \in SUBSET B
      PROVE  /\ Cardinality(A) \in Nat /\ Cardinality(B) \in Nat
             /\ Cardinality(A) <= Cardinality(B)
  <2>1. IsFiniteSet(B)
    BY Constants, FS_Subset
  <2>2. IsFiniteSet(A)
    BY <2>1, FS_Subset
  <2> QED
    BY <2>1, <2>2, FS_Subset, FS_CardinalityType
<1>2. Kept(g) \in SUBSET Tokens /\ Kept(f) \in SUBSET Kept(g)
  BY DEF Kept
<1>3. \A x : KeptOf(g, x) \in SUBSET Tokens /\ KeptOf(f, x) \in SUBSET KeptOf(g, x)
  BY <1>2 DEF KeptOf, Kept
<1> QED
  BY <1>1, <1>2, <1>3

LEMMA CountsAreNumbers ==
  \A f : Cardinality(Kept(f)) \in Nat /\ \A x : Cardinality(KeptOf(f, x)) \in Nat
<1>1. ASSUME NEW f PROVE Cardinality(Kept(f)) \in Nat /\ \A x : Cardinality(KeptOf(f, x)) \in Nat
  BY FewerKept
<1> QED
  BY <1>1

LEMMA OneMoreKept ==
  ASSUME NEW f, NEW g, NEW t \in Tokens,
         \A s \in Tokens : f[s] # None /\ s # t => g[s] # None
  PROVE  /\ Cardinality(Kept(f)) <= Cardinality(Kept(g)) + 1
         /\ \A x : Cardinality(KeptOf(f, x)) <=
                     IF x = PrincipalOf[t] THEN Cardinality(KeptOf(g, x)) + 1
                                           ELSE Cardinality(KeptOf(g, x))
<1>1. ASSUME NEW B \in SUBSET Tokens, NEW A \in SUBSET (B \cup {t})
      PROVE  /\ Cardinality(A) <= Cardinality(B) + 1
             /\ t \notin A => Cardinality(A) <= Cardinality(B)
  <2>1. IsFiniteSet(B)
    BY Constants, FS_Subset
  <2>2. /\ IsFiniteSet(B \cup {t}) /\ Cardinality(B) \in Nat
        /\ Cardinality(B \cup {t}) = Cardinality(B)
           \/ Cardinality(B \cup {t}) = Cardinality(B) + 1
    BY <2>1, FS_AddElement, FS_CardinalityType
  <2>3. Cardinality(A) <= Cardinality(B \cup {t}) /\ Cardinality(A) \in Nat
    <3>1. IsFiniteSet(A)
      BY <2>2, FS_Subset
    <3> QED
      BY <2>2, <3>1, FS_Subset, FS_CardinalityType
  <2>4. ASSUME t \notin A PROVE Cardinality(A) <= Cardinality(B)
    <3>1. A \in SUBSET B
      BY <2>4
    <3> QED
      BY <2>1, <3>1, FS_Subset
  <2> QED
    BY <2>2, <2>3, <2>4
<1>2. Kept(g) \in SUBSET Tokens /\ Kept(f) \in SUBSET (Kept(g) \cup {t})
  BY DEF Kept
<1>3. \A x : /\ KeptOf(g, x) \in SUBSET Tokens
             /\ KeptOf(f, x) \in SUBSET (KeptOf(g, x) \cup {t})
             /\ x # PrincipalOf[t] => t \notin KeptOf(f, x)
  BY <1>2 DEF KeptOf, Kept
<1> QED
  BY <1>1, <1>2, <1>3

(* Steps that only forget keep to the limits.                              *)
LEMMA MemoryFewer ==
  ASSUME MemoryLimits, Exclusive' => Exclusive,
         \A p \in Processes, s \in Tokens :
           /\ mem'[p][s] # None => mem[p][s] # None
           /\ recent'[p][s] # None => recent[p][s] # None
  PROVE  MemoryLimits'
<1> SUFFICES ASSUME NEW p \in Processes
             PROVE  /\ Cardinality(Kept(mem'[p])) <= MaxSessions
                    /\ \A x \in Principals :
                         /\ Exclusive' => Cardinality(KeptOf(mem'[p], x)) <= MaxPerPrincipal
                         /\ Cardinality(KeptOf(recent'[p], x)) <= MaxIssuances
  BY DEF MemoryLimits, Kept, KeptOf
<1>1. /\ Cardinality(Kept(mem'[p])) \in Nat /\ Cardinality(Kept(mem[p])) \in Nat
      /\ Cardinality(Kept(mem'[p])) <= Cardinality(Kept(mem[p]))
      /\ \A x : /\ Cardinality(KeptOf(mem'[p], x)) \in Nat
                /\ Cardinality(KeptOf(mem[p], x)) \in Nat
                /\ Cardinality(KeptOf(mem'[p], x)) <= Cardinality(KeptOf(mem[p], x))
  BY FewerKept
<1>2. \A x : /\ Cardinality(KeptOf(recent'[p], x)) \in Nat
             /\ Cardinality(KeptOf(recent[p], x)) \in Nat
             /\ Cardinality(KeptOf(recent'[p], x)) <= Cardinality(KeptOf(recent[p], x))
  BY FewerKept
<1> QED
  BY <1>1, <1>2, Constants DEF MemoryLimits

(* Who is past the admission stays admitted while its process only forgets.*)
LEMMA AdmittedFewer ==
  ASSUME AdmittedInv,
         NEW t \in Tokens, phase[t] \in {"insert", "remember"}, proc'[t] = proc[t],
         \A s \in Tokens :
           /\ mem'[proc[t]][s] # None => mem[proc[t]][s] # None
           /\ recent'[proc[t]][s] # None => recent[proc[t]][s] # None
  PROVE  /\ Cardinality(Kept(mem'[proc'[t]])) < MaxSessions
         /\ Cardinality(KeptOf(mem'[proc'[t]], PrincipalOf[t])) < MaxPerPrincipal
         /\ Cardinality(KeptOf(recent'[proc'[t]], PrincipalOf[t])) < MaxIssuances
<1> DEFINE p == proc[t]
           x == PrincipalOf[t]
<1>1. /\ Cardinality(Kept(mem[p])) < MaxSessions
      /\ Cardinality(KeptOf(mem[p], x)) < MaxPerPrincipal
      /\ Cardinality(KeptOf(recent[p], x)) < MaxIssuances
  BY DEF AdmittedInv
<1>2. /\ Cardinality(Kept(mem'[p])) \in Nat /\ Cardinality(Kept(mem[p])) \in Nat
      /\ Cardinality(Kept(mem'[p])) <= Cardinality(Kept(mem[p]))
      /\ Cardinality(KeptOf(mem'[p], x)) \in Nat
      /\ Cardinality(KeptOf(mem[p], x)) \in Nat
      /\ Cardinality(KeptOf(mem'[p], x)) <= Cardinality(KeptOf(mem[p], x))
  BY FewerKept
<1>3. /\ Cardinality(KeptOf(recent'[p], x)) \in Nat
      /\ Cardinality(KeptOf(recent[p], x)) \in Nat
      /\ Cardinality(KeptOf(recent'[p], x)) <= Cardinality(KeptOf(recent[p], x))
  BY FewerKept
<1>4. proc'[t] = p
  OBVIOUS
<1> HIDE DEF p, x
<1>5. /\ Cardinality(Kept(mem'[p])) < MaxSessions
      /\ Cardinality(KeptOf(mem'[p], x)) < MaxPerPrincipal
      /\ Cardinality(KeptOf(recent'[p], x)) < MaxIssuances
  BY <1>1, <1>2, <1>3, Constants
<1> QED
  BY <1>4, <1>5 DEF x

(* Nor do rows become too many when they only go or expire.                *)
LEMMA RowsFewer ==
  ASSUME RowLimits, Exclusive' => Exclusive,
         \A s \in Tokens : RowLives(s, Seconds(now))' => RowLives(s, Seconds(now))
  PROVE  RowLimits'
<1> DEFINE g == UnexpiredRows(Seconds(now))
           f == UnexpiredRows(Seconds(now))'
<1>1. \A s \in Tokens : f[s] # None => g[s] # None
  BY DEF UnexpiredRows, RowLives
<1> HIDE DEF f, g
<1>2. /\ Cardinality(Kept(f)) \in Nat /\ Cardinality(Kept(g)) \in Nat
      /\ Cardinality(Kept(f)) <= Cardinality(Kept(g))
      /\ \A x : /\ Cardinality(KeptOf(f, x)) \in Nat
                /\ Cardinality(KeptOf(g, x)) \in Nat
                /\ Cardinality(KeptOf(f, x)) <= Cardinality(KeptOf(g, x))
  BY <1>1, FewerKept
<1>3. Exclusive => /\ Cardinality(Kept(g)) <= MaxSessions
                   /\ \A x \in Principals : Cardinality(KeptOf(g, x)) <= MaxPerPrincipal
  BY DEF RowLimits, g
<1>4. Exclusive' => /\ Cardinality(Kept(f)) <= MaxSessions
                    /\ \A x \in Principals : Cardinality(KeptOf(f, x)) <= MaxPerPrincipal
  BY <1>2, <1>3, Constants
<1> QED
  BY <1>4 DEF RowLimits, f, UnexpiredRows, RowLives, Kept, KeptOf

----------------------------------------------------------------------------
(* Every step keeps every part of the invariant.  The shape of the state:  *)
LEMMA TypeStep == TypeOK /\ LifeInv /\ RowInv /\ [Next]_vars => TypeOK'
<1> SUFFICES ASSUME TypeOK, LifeInv, RowInv, [Next]_vars PROVE TypeOK'
  OBVIOUS
<1>1. ASSUME NEW p \in Processes, NEW t \in Tokens, Login(p, t) PROVE TypeOK'
  BY <1>1, Constants
  DEF TypeOK, LifeInv, Phases, Inside, Waiting, Login, Goto, memory, lives,
      secret
<1>2. ASSUME NEW p \in Processes, NEW t \in Tokens, Expire(p, t) PROVE TypeOK'
  BY <1>2, Constants
  DEF TypeOK, LifeInv, Phases, Inside, Waiting, Expire, Valid, memory, lives,
      secret
<1>3. ASSUME NEW p \in Processes, NEW t \in Tokens, Logout(p, t) PROVE TypeOK'
  BY <1>3, Constants
  DEF TypeOK, LifeInv, Phases, Inside, Waiting, Logout, Goto, Valid, memory,
      lives, secret
<1>4. ASSUME NEW t \in Tokens, Enter(t) PROVE TypeOK'
  BY <1>4, Constants
  DEF TypeOK, LifeInv, Phases, Inside, Waiting, Enter, Goto, Waiting, memory,
      lives, secret
<1>5. ASSUME NEW t \in Tokens, Prune(t) PROVE TypeOK'
  <2>1. proc[t] \in Processes
    BY <1>5 DEF Prune, LifeInv, Inside
  <2>2. /\ mem' \in [Processes -> [Tokens -> (0..MaxTime + Ttl) \cup {None}]]
        /\ recent' \in [Processes -> [Tokens -> (0..MaxTime) \cup {None}]]
    BY <1>5, <2>1, Pruned DEF TypeOK, Prune, PruneMemory
  <2>3. rows' \in [Tokens -> Row \cup {None}]
    BY <1>5, PrunedRows DEF Prune
  <2>4. PICK ph \in {"insert", "refused"} :
          phase' = [phase EXCEPT ![t] = ph] /\ (ph # "insert" => Leave(t))
          /\ (ph = "insert" => UNCHANGED mutex)
    BY <1>5 DEF Prune, Goto
  <2>5. phase' \in [Tokens -> Phases] /\ mutex' \in [Processes -> Tokens \cup {None}]
    BY <2>1, <2>4, Constants DEF TypeOK, Phases, Inside, Leave
  <2>6. \A s \in Tokens : phase'[s] \in Inside => mutex'[proc[s]] = s
    <3>1. phase[t] = "prune" /\ UNCHANGED proc
      BY <1>5 DEF Prune
    <3>2. CASE ph = "insert"
      BY <2>1, <2>4, <3>1, <3>2 DEF TypeOK, Inside
    <3>3. CASE ph = "refused"
      <4> SUFFICES ASSUME NEW s \in Tokens, phase'[s] \in Inside PROVE mutex'[proc[s]] = s
        OBVIOUS
      <4>1. s # t /\ phase[s] \in Inside
        BY <2>4, <3>3 DEF TypeOK, Inside
      <4>2. mutex[proc[s]] = s /\ mutex[proc[t]] = t /\ proc[s] \in Processes
        BY <3>1, <4>1 DEF TypeOK, LifeInv, Inside
      <4> QED
        BY <2>1, <2>4, <3>3, <4>1, <4>2 DEF TypeOK, Leave
    <3> QED
      BY <3>2, <3>3
  <2> QED
    BY <1>5, <2>2, <2>3, <2>5, <2>6, Constants DEF TypeOK, Prune, secret, lives
<1>6. ASSUME NEW t \in Tokens, Insert(t) PROVE TypeOK'
  <2>1. [expires |-> Seconds(at[t] + Ttl), key |-> procKey[proc[t]]] \in Row
    BY <1>6, Constants, WholeSeconds DEF TypeOK, LifeInv, Insert, Inside, Waiting, Row
  <2>2. rows' \in [Tokens -> Row \cup {None}]
    BY <1>6, <2>1 DEF TypeOK, Insert
  <2>3. phase' \in [Tokens -> Phases]
    <3>1. phase \in [Tokens -> Phases] /\ phase' = [phase EXCEPT ![t] = "remember"]
      BY <1>6 DEF TypeOK, Insert, Goto
    <3>2. "remember" \in Phases
      BY DEF Phases, Inside, Waiting
    <3> QED
      BY <3>1, <3>2
  <2> QED
    BY <1>6, <2>2, <2>3 DEF TypeOK, LifeInv, Inside, Insert, Goto, memory, lives, secret
<1>7. ASSUME NEW t \in Tokens, Remember(t) PROVE TypeOK'
  BY <1>7, Constants
  DEF TypeOK, LifeInv, Phases, Inside, Waiting, Remember, Goto, Leave, memory,
      lives, secret
<1>8. ASSUME NEW t \in Tokens, Delete(t) PROVE TypeOK'
  BY <1>8, Constants
  DEF TypeOK, LifeInv, Phases, Inside, Waiting, Delete, Goto, memory, lives,
      secret
<1>9. ASSUME NEW t \in Tokens, Forget(t) PROVE TypeOK'
  BY <1>9, Constants
  DEF TypeOK, LifeInv, Phases, Inside, Waiting, Forget, Goto, Leave, memory,
      lives, secret
<1>10. ASSUME NEW t \in Tokens, DatabaseFails(t) PROVE TypeOK'
  <2>1. proc[t] \in Processes
    BY <1>10 DEF DatabaseFails, LifeInv, Inside
  <2>2. /\ mem' \in [Processes -> [Tokens -> (0..MaxTime + Ttl) \cup {None}]]
        /\ recent' \in [Processes -> [Tokens -> (0..MaxTime) \cup {None}]]
    BY <1>10, <2>1, Pruned DEF TypeOK, DatabaseFails, PruneMemory, memory
  <2>4. PICK ph \in {"live", "refused"} :
          phase' = [phase EXCEPT ![t] = ph] /\ (ph # "insert" => Leave(t))
          /\ (ph = "insert" => UNCHANGED mutex)
    BY <1>10 DEF DatabaseFails, Goto
  <2>5. phase' \in [Tokens -> Phases] /\ mutex' \in [Processes -> Tokens \cup {None}]
    BY <2>1, <2>4, Constants DEF TypeOK, Phases, Inside, Leave
  <2>6. \A s \in Tokens : phase'[s] \in Inside => mutex'[proc[s]] = s
    BY <1>10, <2>1, <2>4 DEF TypeOK, Inside, Leave, DatabaseFails
  <2> QED
    BY <1>10, <2>2, <2>5, <2>6, Constants DEF TypeOK, DatabaseFails, secret, lives
<1>11. ASSUME NEW p \in Processes, Start(p) PROVE TypeOK'
  BY <1>11, Constants
  DEF TypeOK, LifeInv, Phases, Inside, Waiting, Start, memory, lives, secret
<1>12. ASSUME NEW p \in Processes, LoadKey(p) PROVE TypeOK'
  <2>1. rows' \in [Tokens -> Row \cup {None}]
    BY <1>12, PrunedRows DEF LoadKey, TypeOK
  <2>2. CASE UNCHANGED <<key, keys, procKey>>
    BY <1>12, <2>1, <2>2 DEF TypeOK, LoadKey, memory
  <2>3. CASE UNCHANGED <<key, keys>> /\ key # None
    BY <1>12, <2>1, <2>3 DEF TypeOK, LoadKey, memory
  <2>4. CASE keys < MaxKeys /\ keys' = keys + 1 /\ key' = keys'
    <3>1. keys' \in 0..MaxKeys /\ key' \in 1..MaxKeys
      BY <2>4, Constants DEF TypeOK
    <3>2. procKey' \in [Processes -> (1..MaxKeys) \cup {None}]
      BY <1>12, <3>1 DEF TypeOK, LoadKey
    <3> QED
      BY <1>12, <2>1, <3>1, <3>2 DEF TypeOK, LoadKey, memory
  <2> QED
    BY <1>12, <2>2, <2>3, <2>4 DEF LoadKey, secret
<1>13. ASSUME NEW p \in Processes, Open(p) PROVE TypeOK'
  <2>1. rows' \in [Tokens -> Row \cup {None}]
    BY <1>13, PrunedRows DEF Open
  <2> DEFINE loaded == [t \in Tokens |-> IF rows'[t] = None THEN None ELSE Ticks(rows'[t].expires)]
  <2>2. loaded \in [Tokens -> (0..MaxTime + Ttl) \cup {None}]
    <3> SUFFICES ASSUME NEW t \in Tokens, rows'[t] # None
                 PROVE  Ticks(rows'[t].expires) \in 0..MaxTime + Ttl
      OBVIOUS
    <3>1. rows'[t] = rows[t] /\ rows[t] # None
      BY <1>13 DEF Open, UnexpiredRows
    <3>2. rows'[t].expires = Seconds(at[t] + Ttl)
      BY <3>1 DEF RowInv
    <3>3. at[t] + Ttl \in Nat /\ at[t] + Ttl <= MaxTime + Ttl
      BY Constants DEF TypeOK
    <3> QED
      BY <3>2, <3>3, WholeSeconds, Constants
  <2>3. mem' = [mem EXCEPT ![p] = loaded] \/ mem' = mem
    BY <1>13 DEF Open
  <2> HIDE DEF loaded
  <2> QED
    BY <1>13, <2>1, <2>2, <2>3, Constants DEF TypeOK, Open, secret
<1>14. ASSUME NEW p \in Processes, Exit(p) PROVE TypeOK'
  BY <1>14, NothingKept, Constants DEF TypeOK, Exit, Vanish, Busy, secret
<1>15. ASSUME NEW p \in Processes, DrainDeadline(p) PROVE TypeOK'
  BY <1>15, Constants
  DEF TypeOK, LifeInv, Phases, Inside, Waiting, DrainDeadline, memory, lives,
      secret
<1>16. ASSUME NEW p \in Processes, Crash(p) PROVE TypeOK'
  BY <1>16, Constants, NothingKept
  DEF TypeOK, LifeInv, Phases, Inside, Waiting, Crash, Vanish, AfterCrash,
      Busy, memory, lives, secret
<1>17. CASE Rotate
  BY <1>17, Constants
  DEF TypeOK, LifeInv, Phases, Inside, Waiting, Rotate, memory, lives, secret
<1>18. CASE DeleteAll
  BY <1>18, Constants, NothingKept
  DEF TypeOK, LifeInv, Phases, Inside, Waiting, DeleteAll, memory, lives,
      secret
<1>19. CASE StoreKey
  BY <1>19, Constants
  DEF TypeOK, LifeInv, Phases, Inside, Waiting, StoreKey, memory, lives,
      secret
<1>20. CASE RotationFails
  BY <1>20, Constants
  DEF TypeOK, LifeInv, Phases, Inside, Waiting, RotationFails, memory, lives,
      secret
<1>21. CASE LoseKey
  BY <1>21, Constants
  DEF TypeOK, LifeInv, Phases, Inside, Waiting, LoseKey, memory, lives, secret
<1>22. CASE Tick
  BY <1>22, Constants
  DEF TypeOK, LifeInv, Phases, Inside, Waiting, Tick, memory, lives, secret
<1>23. CASE UNCHANGED vars
  BY <1>23, Constants
  DEF TypeOK, LifeInv, Phases, Inside, Waiting, vars, memory, lives, secret
<1> QED
  BY <1>1, <1>2, <1>3, <1>4, <1>5, <1>6, <1>7, <1>8, <1>9, <1>10, <1>11,
     <1>12, <1>13, <1>14, <1>15, <1>16, <1>17, <1>18, <1>19, <1>20, <1>21,
     <1>22, <1>23
  DEF Next

(* who holds the lifecycle lock, and where handlers run:                   *)
LEMMA LifeStep == TypeOK /\ LifeInv /\ [Next]_vars => LifeInv'
<1> SUFFICES ASSUME TypeOK, LifeInv, [Next]_vars PROVE LifeInv'
  OBVIOUS
<1>1. ASSUME NEW p \in Processes, NEW t \in Tokens, Login(p, t) PROVE LifeInv'
  BY <1>1, Constants
  DEF TypeOK, LifeInv, Inside, Waiting, Exclusive, Login, Goto, memory, lives,
      secret
<1>2. ASSUME NEW p \in Processes, NEW t \in Tokens, Expire(p, t) PROVE LifeInv'
  BY <1>2, Constants
  DEF TypeOK, LifeInv, Inside, Waiting, Exclusive, Expire, Valid, memory,
      lives, secret
<1>3. ASSUME NEW p \in Processes, NEW t \in Tokens, Logout(p, t) PROVE LifeInv'
  BY <1>3, Constants
  DEF TypeOK, LifeInv, Inside, Waiting, Exclusive, Logout, Goto, Valid,
      memory, lives, secret
<1>4. ASSUME NEW t \in Tokens, Enter(t) PROVE LifeInv'
  BY <1>4, Constants
  DEF TypeOK, LifeInv, Inside, Waiting, Exclusive, Enter, Goto, Waiting,
      memory, lives, secret
<1>5. ASSUME NEW t \in Tokens, Prune(t) PROVE LifeInv'
  BY <1>5, Constants
  DEF TypeOK, LifeInv, Inside, Waiting, Exclusive, Prune, PruneMemory,
      Unexpired, StillRecent, UnexpiredRows, Goto, Leave, memory, lives,
      secret
<1>6. ASSUME NEW t \in Tokens, Insert(t) PROVE LifeInv'
  BY <1>6, Constants
  DEF TypeOK, LifeInv, Inside, Waiting, Exclusive, Insert, Goto, memory,
      lives, secret
<1>7. ASSUME NEW t \in Tokens, Remember(t) PROVE LifeInv'
  BY <1>7, Constants
  DEF TypeOK, LifeInv, Inside, Waiting, Exclusive, Remember, Goto, Leave,
      memory, lives, secret
<1>8. ASSUME NEW t \in Tokens, Delete(t) PROVE LifeInv'
  BY <1>8, Constants
  DEF TypeOK, LifeInv, Inside, Waiting, Exclusive, Delete, Goto, memory,
      lives, secret
<1>9. ASSUME NEW t \in Tokens, Forget(t) PROVE LifeInv'
  BY <1>9, Constants
  DEF TypeOK, LifeInv, Inside, Waiting, Exclusive, Forget, Goto, Leave,
      memory, lives, secret
<1>10. ASSUME NEW t \in Tokens, DatabaseFails(t) PROVE LifeInv'
  BY <1>10, Constants
  DEF TypeOK, LifeInv, Inside, Waiting, Exclusive, DatabaseFails, PruneMemory,
      Unexpired, StillRecent, Goto, Leave, memory, lives, secret
<1>11. ASSUME NEW p \in Processes, Start(p) PROVE LifeInv'
  BY <1>11, Constants
  DEF TypeOK, LifeInv, Inside, Waiting, Exclusive, Start, memory, lives,
      secret
<1>12. ASSUME NEW p \in Processes, LoadKey(p) PROVE LifeInv'
  BY <1>12, Constants
  DEF TypeOK, LifeInv, Inside, Waiting, Exclusive, LoadKey, UnexpiredRows,
      memory, lives, secret
<1>13. ASSUME NEW p \in Processes, Open(p) PROVE LifeInv'
  BY <1>13, Constants
  DEF TypeOK, LifeInv, Inside, Waiting, Exclusive, Open, UnexpiredRows,
      memory, lives, secret
<1>14. ASSUME NEW p \in Processes, Exit(p) PROVE LifeInv'
  BY <1>14, Constants
  DEF TypeOK, LifeInv, Inside, Waiting, Exclusive, Busy, Exit, Vanish, memory,
      lives, secret
<1>15. ASSUME NEW p \in Processes, DrainDeadline(p) PROVE LifeInv'
  BY <1>15, Constants
  DEF TypeOK, LifeInv, Inside, Waiting, Exclusive, DrainDeadline, memory,
      lives, secret
<1>16. ASSUME NEW p \in Processes, Crash(p) PROVE LifeInv'
  BY <1>16, Constants
  DEF TypeOK, LifeInv, Inside, Waiting, Exclusive, Crash, Vanish, AfterCrash,
      Busy, memory, lives, secret
<1>17. CASE Rotate
  BY <1>17, Constants
  DEF TypeOK, LifeInv, Inside, Waiting, Exclusive, Rotate, memory, lives,
      secret
<1>18. CASE DeleteAll
  BY <1>18, Constants
  DEF TypeOK, LifeInv, Inside, Waiting, Exclusive, DeleteAll, memory, lives,
      secret
<1>19. CASE StoreKey
  BY <1>19, Constants
  DEF TypeOK, LifeInv, Inside, Waiting, Exclusive, StoreKey, memory, lives,
      secret
<1>20. CASE RotationFails
  BY <1>20, Constants
  DEF TypeOK, LifeInv, Inside, Waiting, Exclusive, RotationFails, memory,
      lives, secret
<1>21. CASE LoseKey
  BY <1>21, Constants
  DEF TypeOK, LifeInv, Inside, Waiting, Exclusive, LoseKey, memory, lives,
      secret
<1>22. CASE Tick
  BY <1>22, Constants
  DEF TypeOK, LifeInv, Inside, Waiting, Exclusive, Tick, memory, lives, secret
<1>23. CASE UNCHANGED vars
  BY <1>23, Constants
  DEF TypeOK, LifeInv, Inside, Waiting, Exclusive, vars, memory, lives, secret
<1> QED
  BY <1>1, <1>2, <1>3, <1>4, <1>5, <1>6, <1>7, <1>8, <1>9, <1>10, <1>11,
     <1>12, <1>13, <1>14, <1>15, <1>16, <1>17, <1>18, <1>19, <1>20, <1>21,
     <1>22, <1>23
  DEF Next

(* what a row says of its login:                                           *)
LEMMA RowStep == TypeOK /\ RowInv /\ [Next]_vars => RowInv'
<1> SUFFICES ASSUME TypeOK, RowInv, [Next]_vars PROVE RowInv'
  OBVIOUS
<1>1. ASSUME NEW p \in Processes, NEW t \in Tokens, Login(p, t) PROVE RowInv'
  BY <1>1, Constants
  DEF TypeOK, RowInv, Login, Goto, memory, lives, secret
<1>2. ASSUME NEW p \in Processes, NEW t \in Tokens, Expire(p, t) PROVE RowInv'
  BY <1>2, Constants
  DEF TypeOK, RowInv, Expire, Valid, memory, lives, secret
<1>3. ASSUME NEW p \in Processes, NEW t \in Tokens, Logout(p, t) PROVE RowInv'
  BY <1>3, Constants
  DEF TypeOK, RowInv, Logout, Goto, Valid, memory, lives, secret
<1>4. ASSUME NEW t \in Tokens, Enter(t) PROVE RowInv'
  BY <1>4, Constants
  DEF TypeOK, RowInv, Enter, Goto, Waiting, memory, lives, secret
<1>5. ASSUME NEW t \in Tokens, Prune(t) PROVE RowInv'
  BY <1>5, Constants
  DEF TypeOK, RowInv, Prune, PruneMemory, Unexpired, StillRecent,
      UnexpiredRows, Goto, Leave, memory, lives, secret
<1>6. ASSUME NEW t \in Tokens, Insert(t) PROVE RowInv'
  BY <1>6, Constants
  DEF TypeOK, RowInv, Insert, Goto, memory, lives, secret
<1>7. ASSUME NEW t \in Tokens, Remember(t) PROVE RowInv'
  BY <1>7, Constants
  DEF TypeOK, RowInv, Remember, Goto, Leave, memory, lives, secret
<1>8. ASSUME NEW t \in Tokens, Delete(t) PROVE RowInv'
  BY <1>8, Constants
  DEF TypeOK, RowInv, Delete, Goto, memory, lives, secret
<1>9. ASSUME NEW t \in Tokens, Forget(t) PROVE RowInv'
  BY <1>9, Constants
  DEF TypeOK, RowInv, Forget, Goto, Leave, memory, lives, secret
<1>10. ASSUME NEW t \in Tokens, DatabaseFails(t) PROVE RowInv'
  BY <1>10, Constants
  DEF TypeOK, RowInv, DatabaseFails, PruneMemory, Unexpired, StillRecent,
      Goto, Leave, memory, lives, secret
<1>11. ASSUME NEW p \in Processes, Start(p) PROVE RowInv'
  BY <1>11, Constants
  DEF TypeOK, RowInv, Start, memory, lives, secret
<1>12. ASSUME NEW p \in Processes, LoadKey(p) PROVE RowInv'
  BY <1>12, Constants
  DEF TypeOK, RowInv, LoadKey, UnexpiredRows, memory, lives, secret
<1>13. ASSUME NEW p \in Processes, Open(p) PROVE RowInv'
  BY <1>13, Constants
  DEF TypeOK, RowInv, Open, UnexpiredRows, memory, lives, secret
<1>14. ASSUME NEW p \in Processes, Exit(p) PROVE RowInv'
  BY <1>14, Constants
  DEF TypeOK, RowInv, Exit, Vanish, memory, lives, secret
<1>15. ASSUME NEW p \in Processes, DrainDeadline(p) PROVE RowInv'
  BY <1>15, Constants
  DEF TypeOK, RowInv, DrainDeadline, memory, lives, secret
<1>16. ASSUME NEW p \in Processes, Crash(p) PROVE RowInv'
  BY <1>16, Constants
  DEF TypeOK, RowInv, Crash, Vanish, AfterCrash, Busy, memory, lives, secret
<1>17. CASE Rotate
  BY <1>17, Constants
  DEF TypeOK, RowInv, Rotate, memory, lives, secret
<1>18. CASE DeleteAll
  BY <1>18, Constants
  DEF TypeOK, RowInv, NoTokens, DeleteAll, memory, lives, secret
<1>19. CASE StoreKey
  BY <1>19, Constants
  DEF TypeOK, RowInv, StoreKey, memory, lives, secret
<1>20. CASE RotationFails
  BY <1>20, Constants
  DEF TypeOK, RowInv, RotationFails, memory, lives, secret
<1>21. CASE LoseKey
  BY <1>21, Constants
  DEF TypeOK, RowInv, LoseKey, memory, lives, secret
<1>22. CASE Tick
  BY <1>22, Constants
  DEF TypeOK, RowInv, Tick, memory, lives, secret
<1>23. CASE UNCHANGED vars
  BY <1>23, Constants
  DEF TypeOK, RowInv, vars, memory, lives, secret
<1> QED
  BY <1>1, <1>2, <1>3, <1>4, <1>5, <1>6, <1>7, <1>8, <1>9, <1>10, <1>11,
     <1>12, <1>13, <1>14, <1>15, <1>16, <1>17, <1>18, <1>19, <1>20, <1>21,
     <1>22, <1>23
  DEF Next

(* revoked tokens: a start only reads rows, which they do not have.        *)
LEMMA RevokedStep ==
  TypeOK /\ LifeInv /\ RowInv /\ RevokedInv /\ [Next]_vars
  => RevokedInv'
<1> SUFFICES ASSUME TypeOK, LifeInv, RowInv, RevokedInv, [Next]_vars PROVE RevokedInv'
  OBVIOUS
<1>1. ASSUME NEW p \in Processes, NEW t \in Tokens, Login(p, t) PROVE RevokedInv'
  BY <1>1, Constants
  DEF TypeOK, LifeInv, RowInv, RevokedInv, Inside, Exclusive, NoTokens, Login,
      Goto, memory, lives, secret
<1>2. ASSUME NEW p \in Processes, NEW t \in Tokens, Expire(p, t) PROVE RevokedInv'
  BY <1>2, Constants
  DEF TypeOK, LifeInv, RowInv, RevokedInv, Inside, Exclusive, NoTokens,
      Expire, Valid, memory, lives, secret
<1>3. ASSUME NEW p \in Processes, NEW t \in Tokens, Logout(p, t) PROVE RevokedInv'
  BY <1>3, Constants
  DEF TypeOK, LifeInv, RowInv, RevokedInv, Inside, Exclusive, NoTokens,
      Logout, Goto, Valid, memory, lives, secret
<1>4. ASSUME NEW t \in Tokens, Enter(t) PROVE RevokedInv'
  BY <1>4, Constants
  DEF TypeOK, LifeInv, RowInv, RevokedInv, Inside, Exclusive, NoTokens, Enter,
      Goto, Waiting, memory, lives, secret
<1>5. ASSUME NEW t \in Tokens, Prune(t) PROVE RevokedInv'
  BY <1>5, Constants
  DEF TypeOK, LifeInv, RowInv, RevokedInv, Inside, Exclusive, NoTokens, Prune,
      PruneMemory, Unexpired, StillRecent, UnexpiredRows, Goto, Leave, memory,
      lives, secret
<1>6. ASSUME NEW t \in Tokens, Insert(t) PROVE RevokedInv'
  BY <1>6, Constants
  DEF TypeOK, LifeInv, RowInv, RevokedInv, Inside, Exclusive, NoTokens,
      Insert, Goto, memory, lives, secret
<1>7. ASSUME NEW t \in Tokens, Remember(t) PROVE RevokedInv'
  BY <1>7, Constants
  DEF TypeOK, LifeInv, RowInv, RevokedInv, Inside, Exclusive, NoTokens,
      Remember, Goto, Leave, memory, lives, secret
<1>8. ASSUME NEW t \in Tokens, Delete(t) PROVE RevokedInv'
  BY <1>8, Constants
  DEF TypeOK, LifeInv, RowInv, RevokedInv, Inside, Exclusive, NoTokens,
      Delete, Goto, memory, lives, secret
<1>9. ASSUME NEW t \in Tokens, Forget(t) PROVE RevokedInv'
  BY <1>9, Constants
  DEF TypeOK, LifeInv, RowInv, RevokedInv, Inside, Exclusive, NoTokens,
      Forget, Goto, Leave, memory, lives, secret
<1>10. ASSUME NEW t \in Tokens, DatabaseFails(t) PROVE RevokedInv'
  <2>1. proc[t] \in Processes /\ (UNCHANGED mem \/ PruneMemory(t))
    BY <1>10 DEF DatabaseFails, LifeInv, Inside, memory
  <2>2. \A p \in Processes, s \in Tokens : mem'[p][s] = None \/ mem'[p][s] = mem[p][s]
    BY <2>1, MemoryShrinks
  <2> QED
    BY <1>10, <2>2 DEF TypeOK, RevokedInv, DatabaseFails, Goto, lives, Exclusive
<1>11. ASSUME NEW p \in Processes, Start(p) PROVE RevokedInv'
  BY <1>11, Constants
  DEF TypeOK, LifeInv, RowInv, RevokedInv, Inside, Exclusive, NoTokens, Start,
      memory, lives, secret
<1>12. ASSUME NEW p \in Processes, LoadKey(p) PROVE RevokedInv'
  BY <1>12, Constants
  DEF TypeOK, LifeInv, RowInv, RevokedInv, Inside, Exclusive, NoTokens,
      LoadKey, UnexpiredRows, memory, lives, secret
<1>13. ASSUME NEW p \in Processes, Open(p) PROVE RevokedInv'
  <2>1. \A s \in Tokens : phase[s] = "revoked" => rows'[s] = None
    BY <1>13 DEF Open, UnexpiredRows, RowInv, RowLives
  <2>2. ASSUME NEW s \in Tokens, NEW q \in Processes, phase[s] = "revoked"
        PROVE  mem'[q][s] = None \/ mem'[q][s] = mem[q][s]
    <3>1. CASE mem' = mem
      BY <3>1
    <3>2. CASE mem' = [mem EXCEPT ![p] = [t \in Tokens |->
                         IF rows'[t] = None THEN None ELSE Ticks(rows'[t].expires)]]
      BY <2>1, <2>2, <3>2 DEF TypeOK
    <3> QED
      BY <1>13, <3>1, <3>2 DEF Open
  <2>3. UNCHANGED <<phase, overruns>>
    BY <1>13 DEF Open
  <2> QED
    BY <2>2, <2>3 DEF RevokedInv, Exclusive
<1>14. ASSUME NEW p \in Processes, Exit(p) PROVE RevokedInv'
  BY <1>14, Constants
  DEF TypeOK, LifeInv, RowInv, RevokedInv, Inside, Exclusive, NoTokens, Exit,
      Vanish, memory, lives, secret
<1>15. ASSUME NEW p \in Processes, DrainDeadline(p) PROVE RevokedInv'
  BY <1>15, Constants
  DEF TypeOK, LifeInv, RowInv, RevokedInv, Inside, Exclusive, NoTokens,
      DrainDeadline, memory, lives, secret
<1>16. ASSUME NEW p \in Processes, Crash(p) PROVE RevokedInv'
  BY <1>16, Constants
  DEF TypeOK, LifeInv, RowInv, RevokedInv, Inside, Exclusive, NoTokens, Crash,
      Vanish, AfterCrash, Busy, memory, lives, secret
<1>17. CASE Rotate
  BY <1>17, Constants
  DEF TypeOK, LifeInv, RowInv, RevokedInv, Inside, Exclusive, NoTokens,
      Rotate, memory, lives, secret
<1>18. CASE DeleteAll
  BY <1>18, Constants
  DEF TypeOK, LifeInv, RowInv, RevokedInv, Inside, Exclusive, NoTokens,
      DeleteAll, memory, lives, secret
<1>19. CASE StoreKey
  BY <1>19, Constants
  DEF TypeOK, LifeInv, RowInv, RevokedInv, Inside, Exclusive, NoTokens,
      StoreKey, memory, lives, secret
<1>20. CASE RotationFails
  BY <1>20, Constants
  DEF TypeOK, LifeInv, RowInv, RevokedInv, Inside, Exclusive, NoTokens,
      RotationFails, memory, lives, secret
<1>21. CASE LoseKey
  BY <1>21, Constants
  DEF TypeOK, LifeInv, RowInv, RevokedInv, Inside, Exclusive, NoTokens,
      LoseKey, memory, lives, secret
<1>22. CASE Tick
  BY <1>22, Constants
  DEF TypeOK, LifeInv, RowInv, RevokedInv, Inside, Exclusive, NoTokens, Tick,
      memory, lives, secret
<1>23. CASE UNCHANGED vars
  BY <1>23, Constants
  DEF TypeOK, LifeInv, RowInv, RevokedInv, Inside, Exclusive, NoTokens, vars,
      memory, lives, secret
<1> QED
  BY <1>1, <1>2, <1>3, <1>4, <1>5, <1>6, <1>7, <1>8, <1>9, <1>10, <1>11,
     <1>12, <1>13, <1>14, <1>15, <1>16, <1>17, <1>18, <1>19, <1>20, <1>21,
     <1>22, <1>23
  DEF Next

(* The rows of unexpired sessions: pruning, with a reading of the clock that *)
(* may be old by now, deletes what has expired; a rotation runs alone.     *)
LEMMA LiveStep == TypeOK /\ LifeInv /\ RowInv /\ LiveInv /\ [Next]_vars => LiveInv'
<1> SUFFICES ASSUME TypeOK, LifeInv, RowInv, LiveInv, [Next]_vars PROVE LiveInv'
  OBVIOUS
<1>1. ASSUME NEW p \in Processes, NEW t \in Tokens, Login(p, t) PROVE LiveInv'
  BY <1>1, Constants
  DEF TypeOK, LifeInv, RowInv, LiveInv, Inside, Exclusive, Login, Goto,
      memory, lives, secret
<1>2. ASSUME NEW p \in Processes, NEW t \in Tokens, Expire(p, t) PROVE LiveInv'
  BY <1>2, Constants
  DEF TypeOK, LifeInv, RowInv, LiveInv, Inside, Exclusive, Expire, Valid,
      memory, lives, secret
<1>3. ASSUME NEW p \in Processes, NEW t \in Tokens, Logout(p, t) PROVE LiveInv'
  BY <1>3, Constants
  DEF TypeOK, LifeInv, RowInv, LiveInv, Inside, Exclusive, Logout, Goto,
      Valid, memory, lives, secret
<1>4. ASSUME NEW t \in Tokens, Enter(t) PROVE LiveInv'
  BY <1>4, Constants
  DEF TypeOK, LifeInv, RowInv, LiveInv, Inside, Exclusive, Enter, Goto,
      Waiting, memory, lives, secret
<1>5. ASSUME NEW t \in Tokens, Prune(t) PROVE LiveInv'
  <2>1. at[t] \in Nat /\ at[t] <= now /\ now \in Nat
    BY Constants DEF TypeOK, LifeInv
  <2>2. \A s \in Tokens : RowLives(s, Seconds(now)) => rows'[s] = rows[s]
    BY <1>5, <2>1, RowsShrink DEF Prune
  <2>3. ASSUME NEW s \in Tokens, rows[s] # None, Seconds(now) < Seconds(at[s] + Ttl)
        PROVE  RowLives(s, Seconds(now))
    BY <2>3 DEF RowInv, RowLives
  <2>4. PICK ph \in {"insert", "refused"} : phase' = [phase EXCEPT ![t] = ph]
    BY <1>5 DEF Prune, Goto
  <2>5. UNCHANGED <<now, at, overruns>>
    BY <1>5 DEF Prune, lives
  <2> QED
    BY <2>2, <2>3, <2>4, <2>5 DEF TypeOK, LiveInv, Exclusive
<1>6. ASSUME NEW t \in Tokens, Insert(t) PROVE LiveInv'
  <2>1. rows'[t] # None
    <3>1. procKey[proc[t]] \in 1..MaxKeys /\ Seconds(at[t] + Ttl) \in Nat
      BY <1>6, WholeSeconds, Constants DEF TypeOK, LifeInv, Insert, Inside
    <3> QED
      BY <1>6, <3>1, Constants DEF TypeOK, Insert, Row
  <2> QED
    BY <1>6, <2>1 DEF TypeOK, LiveInv, Insert, Goto, lives, Exclusive
<1>7. ASSUME NEW t \in Tokens, Remember(t) PROVE LiveInv'
  BY <1>7, Constants
  DEF TypeOK, LifeInv, RowInv, LiveInv, Inside, Exclusive, Remember, Goto,
      Leave, memory, lives, secret
<1>8. ASSUME NEW t \in Tokens, Delete(t) PROVE LiveInv'
  BY <1>8, Constants
  DEF TypeOK, LifeInv, RowInv, LiveInv, Inside, Exclusive, Delete, Goto,
      memory, lives, secret
<1>9. ASSUME NEW t \in Tokens, Forget(t) PROVE LiveInv'
  BY <1>9, Constants
  DEF TypeOK, LifeInv, RowInv, LiveInv, Inside, Exclusive, Forget, Goto,
      Leave, memory, lives, secret
<1>10. ASSUME NEW t \in Tokens, DatabaseFails(t) PROVE LiveInv'
  BY <1>10, Constants
  DEF TypeOK, LifeInv, RowInv, LiveInv, Inside, Exclusive, DatabaseFails,
      PruneMemory, Unexpired, StillRecent, Goto, Leave, memory, lives, secret
<1>11. ASSUME NEW p \in Processes, Start(p) PROVE LiveInv'
  BY <1>11, Constants
  DEF TypeOK, LifeInv, RowInv, LiveInv, Inside, Exclusive, Start, memory,
      lives, secret
<1>12. ASSUME NEW p \in Processes, LoadKey(p) PROVE LiveInv'
  <2>1. now \in Nat /\ now <= now
    BY Constants DEF TypeOK
  <2>2. \A s \in Tokens : RowLives(s, Seconds(now)) => rows'[s] = rows[s]
    BY <1>12, <2>1, RowsShrink DEF LoadKey
  <2>3. ASSUME NEW s \in Tokens, rows[s] # None, Seconds(now) < Seconds(at[s] + Ttl)
        PROVE  RowLives(s, Seconds(now))
    BY <2>3 DEF RowInv, RowLives
  <2>4. UNCHANGED <<now, at, phase, overruns>>
    BY <1>12 DEF LoadKey
  <2> QED
    BY <2>2, <2>3, <2>4 DEF LiveInv, Exclusive
<1>13. ASSUME NEW p \in Processes, Open(p) PROVE LiveInv'
  <2>1. now \in Nat /\ now <= now
    BY Constants DEF TypeOK
  <2>2. \A s \in Tokens : RowLives(s, Seconds(now)) => rows'[s] = rows[s]
    BY <1>13, <2>1, RowsShrink DEF Open
  <2>3. ASSUME NEW s \in Tokens, rows[s] # None, Seconds(now) < Seconds(at[s] + Ttl)
        PROVE  RowLives(s, Seconds(now))
    BY <2>3 DEF RowInv, RowLives
  <2>4. UNCHANGED <<now, at, phase, overruns>>
    BY <1>13 DEF Open
  <2> QED
    BY <2>2, <2>3, <2>4 DEF LiveInv, Exclusive
<1>14. ASSUME NEW p \in Processes, Exit(p) PROVE LiveInv'
  BY <1>14, Constants
  DEF TypeOK, LifeInv, RowInv, LiveInv, Inside, Exclusive, Exit, Vanish,
      memory, lives, secret
<1>15. ASSUME NEW p \in Processes, DrainDeadline(p) PROVE LiveInv'
  BY <1>15, Constants
  DEF TypeOK, LifeInv, RowInv, LiveInv, Inside, Exclusive, DrainDeadline,
      memory, lives, secret
<1>16. ASSUME NEW p \in Processes, Crash(p) PROVE LiveInv'
  BY <1>16, Constants
  DEF TypeOK, LifeInv, RowInv, LiveInv, Inside, Exclusive, Crash, Vanish,
      AfterCrash, Busy, memory, lives, secret
<1>17. CASE Rotate
  BY <1>17, Constants
  DEF TypeOK, LifeInv, RowInv, LiveInv, Inside, Exclusive, Rotate, memory,
      lives, secret
<1>18. CASE DeleteAll
  <2>1. \A t \in Tokens : Exclusive => phase[t] \notin {"remember", "revoke", "delete"}
    BY <1>18, Constants DEF DeleteAll, LifeInv, Inside, Waiting
  <2> QED
    BY <1>18, <2>1 DEF LiveInv, DeleteAll, lives, Exclusive
<1>19. CASE StoreKey
  BY <1>19, Constants
  DEF TypeOK, LifeInv, RowInv, LiveInv, Inside, Exclusive, StoreKey, memory,
      lives, secret
<1>20. CASE RotationFails
  BY <1>20, Constants
  DEF TypeOK, LifeInv, RowInv, LiveInv, Inside, Exclusive, RotationFails,
      memory, lives, secret
<1>21. CASE LoseKey
  BY <1>21, Constants
  DEF TypeOK, LifeInv, RowInv, LiveInv, Inside, Exclusive, LoseKey, memory,
      lives, secret
<1>22. CASE Tick
  <2>1. now \in Nat /\ now' \in Nat /\ Seconds(now) <= Seconds(now')
        /\ Seconds(now) \in Nat /\ Seconds(now') \in Nat
    <3>1. now \in Nat /\ now' = now + 1
      BY <1>22, Constants DEF TypeOK, Tick
    <3> QED
      BY <3>1, WholeSeconds
  <2>2. \A t \in Tokens : Seconds(at[t] + Ttl) \in Nat
    BY WholeSeconds, Constants DEF TypeOK
  <2> QED
    BY <1>22, <2>1, <2>2 DEF LiveInv, Tick, lives, Exclusive
<1>23. CASE UNCHANGED vars
  BY <1>23, Constants
  DEF TypeOK, LifeInv, RowInv, LiveInv, Inside, Exclusive, vars, memory,
      lives, secret
<1> QED
  BY <1>1, <1>2, <1>3, <1>4, <1>5, <1>6, <1>7, <1>8, <1>9, <1>10, <1>11,
     <1>12, <1>13, <1>14, <1>15, <1>16, <1>17, <1>18, <1>19, <1>20, <1>21,
     <1>22, <1>23
  DEF Next

(* The memory of the server that is up: it starts with every living row, and *)
(* what it forgets has expired, to the second of the row as well.          *)
LEMMA HeldStep == TypeOK /\ LifeInv /\ RowInv /\ HeldInv /\ [Next]_vars => HeldInv'
<1> SUFFICES ASSUME TypeOK, LifeInv, RowInv, HeldInv, [Next]_vars PROVE HeldInv'
  OBVIOUS
<1>1. ASSUME NEW p \in Processes, NEW t \in Tokens, Login(p, t) PROVE HeldInv'
  BY <1>1, Constants
  DEF TypeOK, LifeInv, RowInv, HeldInv, Inside, Exclusive, RowLives, Login,
      Goto, memory, lives, secret
<1>2. ASSUME NEW p \in Processes, NEW t \in Tokens, Expire(p, t) PROVE HeldInv'
  <2>1. \A s \in Tokens, q \in Processes : mem'[q][s] # mem[q][s] => s = t /\ q = p
    BY <1>2 DEF TypeOK, Expire
  <2>2. ~Valid(p, t)
    BY <1>2 DEF Expire
  <2>3. UNCHANGED <<now, rows, phase, mode, overruns>>
    BY <1>2 DEF Expire, lives
  <2> QED
    BY <2>1, <2>2, <2>3, HeldIsValid DEF HeldInv, RowLives, Exclusive
<1>3. ASSUME NEW p \in Processes, NEW t \in Tokens, Logout(p, t) PROVE HeldInv'
  BY <1>3, Constants
  DEF TypeOK, LifeInv, RowInv, HeldInv, Inside, Exclusive, RowLives, Logout,
      Goto, Valid, memory, lives, secret
<1>4. ASSUME NEW t \in Tokens, Enter(t) PROVE HeldInv'
  BY <1>4, Constants
  DEF TypeOK, LifeInv, RowInv, HeldInv, Inside, Exclusive, RowLives, Enter,
      Goto, Waiting, memory, lives, secret
<1>5. ASSUME NEW t \in Tokens, Prune(t) PROVE HeldInv'
  <2>1. at[t] \in Nat /\ at[t] <= now /\ now \in Nat /\ proc[t] \in Processes
    BY <1>5, Constants DEF TypeOK, LifeInv, Prune, Inside
  <2>2. \A s \in Tokens : rows'[s] = None \/ rows'[s] = rows[s]
    BY <1>5, <2>1, RowsShrink DEF Prune
  <2>3. ASSUME NEW s \in Tokens, NEW p \in Processes, mem[p][s] # None,
               RowLives(s, Seconds(now)), mem[p][s] >= Ticks(rows[s].expires)
        PROVE  mem'[p][s] = mem[p][s]
    <3>1. mem[p][s] > now /\ mem[p][s] \in Nat
      BY <2>3, HeldIsValid, Constants DEF Valid, TypeOK
    <3> QED
      BY <1>5, <2>1, <2>3, <3>1, MemoryShrinks DEF Prune
  <2>4. PICK ph \in {"insert", "refused"} : phase' = [phase EXCEPT ![t] = ph]
    BY <1>5 DEF Prune, Goto
  <2>5. UNCHANGED <<now, mode, overruns>> /\ phase[t] = "prune"
    BY <1>5 DEF Prune, lives
  <2> QED
    BY <2>2, <2>3, <2>4, <2>5 DEF TypeOK, HeldInv, RowLives, Exclusive
<1>6. ASSUME NEW t \in Tokens, Insert(t) PROVE HeldInv'
  BY <1>6, Constants
  DEF TypeOK, LifeInv, RowInv, HeldInv, Inside, Exclusive, RowLives, Insert,
      Goto, memory, lives, secret
<1>7. ASSUME NEW t \in Tokens, Remember(t) PROVE HeldInv'
  <2>1. proc[t] \in Processes /\ at[t] + Ttl \in Nat
    BY <1>7, Constants DEF TypeOK, LifeInv, Remember, Inside
  <2>2. rows[t] # None => at[t] + Ttl >= Ticks(rows[t].expires)
    BY <2>1, WholeSeconds DEF RowInv
  <2>3. \A p \in Processes : Exclusive /\ mode[p] = "up" => p = proc[t]
    BY <1>7, <2>1 DEF LifeInv, Remember, Inside
  <2>4. /\ mem'[proc[t]][t] = at[t] + Ttl /\ at[t] + Ttl # None
        /\ \A p \in Processes, s \in Tokens : s # t => mem'[p][s] = mem[p][s]
    BY <1>7, <2>1, Constants DEF TypeOK, Remember
  <2>5. UNCHANGED <<now, rows, mode, overruns>> /\ phase' = [phase EXCEPT ![t] = "live"]
    BY <1>7 DEF Remember, Goto, lives
  <2> QED
    BY <2>2, <2>3, <2>4, <2>5 DEF TypeOK, HeldInv, RowLives, Exclusive
<1>8. ASSUME NEW t \in Tokens, Delete(t) PROVE HeldInv'
  BY <1>8, Constants
  DEF TypeOK, LifeInv, RowInv, HeldInv, Inside, Exclusive, RowLives, Delete,
      Goto, memory, lives, secret
<1>9. ASSUME NEW t \in Tokens, Forget(t) PROVE HeldInv'
  BY <1>9, Constants
  DEF TypeOK, LifeInv, RowInv, HeldInv, Inside, Exclusive, RowLives, Forget,
      Goto, Leave, memory, lives, secret
<1>10. ASSUME NEW t \in Tokens, DatabaseFails(t) PROVE HeldInv'
  <2>1. at[t] \in Nat /\ at[t] <= now /\ now \in Nat /\ proc[t] \in Processes
    BY <1>10, Constants DEF TypeOK, LifeInv, DatabaseFails, Inside
  <2>2. UNCHANGED mem \/ PruneMemory(t)
    BY <1>10 DEF DatabaseFails, memory
  <2>3. ASSUME NEW s \in Tokens, NEW p \in Processes, mem[p][s] # None,
               RowLives(s, Seconds(now)), mem[p][s] >= Ticks(rows[s].expires)
        PROVE  mem'[p][s] = mem[p][s]
    <3>1. mem[p][s] > now /\ mem[p][s] \in Nat
      BY <2>3, HeldIsValid, Constants DEF Valid, TypeOK
    <3> QED
      BY <2>1, <2>2, <2>3, <3>1, MemoryShrinks
  <2>4. PICK ph \in {"live", "refused"} : phase' = [phase EXCEPT ![t] = ph]
    BY <1>10 DEF DatabaseFails, Goto
  <2>5. UNCHANGED <<now, rows, mode, overruns>> /\ phase[t] # "remember"
    BY <1>10 DEF DatabaseFails, lives
  <2> QED
    BY <2>3, <2>4, <2>5 DEF TypeOK, HeldInv, RowLives, Exclusive
<1>11. ASSUME NEW p \in Processes, Start(p) PROVE HeldInv'
  BY <1>11, Constants
  DEF TypeOK, LifeInv, RowInv, HeldInv, Inside, Exclusive, RowLives, Start,
      memory, lives, secret
<1>12. ASSUME NEW p \in Processes, LoadKey(p) PROVE HeldInv'
  BY <1>12, Constants
  DEF TypeOK, LifeInv, RowInv, HeldInv, Inside, Exclusive, RowLives, LoadKey,
      UnexpiredRows, memory, lives, secret
<1>13. ASSUME NEW p \in Processes, Open(p) PROVE HeldInv'
  <2>1. \A q \in Processes : Exclusive /\ mode[q] = "up" => FALSE
    BY <1>13 DEF Open, LifeInv
  <2>2. ASSUME NEW s \in Tokens, mode'[p] = "up", rows'[s] # None
        PROVE  mem'[p][s] = Ticks(rows'[s].expires)
    BY <1>13, <2>2 DEF TypeOK, Open
  <2>3. ASSUME NEW s \in Tokens, rows'[s] # None
        PROVE  Ticks(rows'[s].expires) \in Nat
    <3>1. rows'[s] = rows[s]
      BY <1>13, <2>3 DEF Open, UnexpiredRows
    <3>2. rows'[s].expires = Seconds(at[s] + Ttl) /\ at[s] + Ttl \in Nat
      BY <2>3, <3>1, Constants DEF RowInv, TypeOK
    <3> QED
      BY <3>2, WholeSeconds
  <2>4. \A q \in Processes : q # p => mode'[q] = mode[q]
    BY <1>13 DEF TypeOK, Open
  <2>5. UNCHANGED overruns
    BY <1>13 DEF Open
  <2> QED
    BY <2>1, <2>2, <2>3, <2>4, <2>5, Constants DEF HeldInv, RowLives, Exclusive
<1>14. ASSUME NEW p \in Processes, Exit(p) PROVE HeldInv'
  BY <1>14, Constants
  DEF TypeOK, LifeInv, RowInv, HeldInv, Inside, Exclusive, RowLives, Exit,
      Vanish, memory, lives, secret
<1>15. ASSUME NEW p \in Processes, DrainDeadline(p) PROVE HeldInv'
  BY <1>15, Constants
  DEF TypeOK, LifeInv, RowInv, HeldInv, Inside, Exclusive, RowLives,
      DrainDeadline, memory, lives, secret
<1>16. ASSUME NEW p \in Processes, Crash(p) PROVE HeldInv'
  BY <1>16, Constants
  DEF TypeOK, LifeInv, RowInv, HeldInv, Inside, Exclusive, RowLives, Crash,
      Vanish, AfterCrash, Busy, memory, lives, secret
<1>17. CASE Rotate
  BY <1>17, Constants
  DEF TypeOK, LifeInv, RowInv, HeldInv, Inside, Exclusive, RowLives, Rotate,
      memory, lives, secret
<1>18. CASE DeleteAll
  BY <1>18, Constants
  DEF TypeOK, LifeInv, RowInv, HeldInv, Inside, Exclusive, RowLives,
      DeleteAll, memory, lives, secret
<1>19. CASE StoreKey
  BY <1>19, Constants
  DEF TypeOK, LifeInv, RowInv, HeldInv, Inside, Exclusive, RowLives, StoreKey,
      memory, lives, secret
<1>20. CASE RotationFails
  BY <1>20, Constants
  DEF TypeOK, LifeInv, RowInv, HeldInv, Inside, Exclusive, RowLives,
      RotationFails, memory, lives, secret
<1>21. CASE LoseKey
  BY <1>21, Constants
  DEF TypeOK, LifeInv, RowInv, HeldInv, Inside, Exclusive, RowLives, LoseKey,
      memory, lives, secret
<1>22. CASE Tick
  <2>1. now \in Nat /\ now' = now + 1
    BY <1>22, Constants DEF TypeOK, Tick
  <2>2. Seconds(now) <= Seconds(now') /\ Seconds(now) \in Nat /\ Seconds(now') \in Nat
    BY <2>1, WholeSeconds
  <2>3. \A s \in Tokens : rows[s] # None => rows[s].expires \in Nat
    BY DEF TypeOK, Row
  <2>4. UNCHANGED <<rows, phase, mode, mem, overruns>>
    BY <1>22 DEF Tick, memory, lives
  <2> QED
    BY <2>2, <2>3, <2>4 DEF HeldInv, RowLives, Exclusive
<1>23. CASE UNCHANGED vars
  BY <1>23, Constants
  DEF TypeOK, LifeInv, RowInv, HeldInv, Inside, Exclusive, RowLives, vars,
      memory, lives, secret
<1> QED
  BY <1>1, <1>2, <1>3, <1>4, <1>5, <1>6, <1>7, <1>8, <1>9, <1>10, <1>11,
     <1>12, <1>13, <1>14, <1>15, <1>16, <1>17, <1>18, <1>19, <1>20, <1>21,
     <1>22, <1>23
  DEF Next

(* Keys change when no server is up that could write a row.                *)
LEMMA KeyStep == TypeOK /\ LifeInv /\ KeyInv /\ [Next]_vars => KeyInv'
<1> SUFFICES ASSUME TypeOK, LifeInv, KeyInv, [Next]_vars PROVE KeyInv'
  OBVIOUS
<1>1. ASSUME NEW p \in Processes, NEW t \in Tokens, Login(p, t) PROVE KeyInv'
  BY <1>1, Constants
  DEF TypeOK, LifeInv, KeyInv, Inside, Exclusive, Kept, Login, Goto, memory,
      lives, secret
<1>2. ASSUME NEW p \in Processes, NEW t \in Tokens, Expire(p, t) PROVE KeyInv'
  BY <1>2, Constants
  DEF TypeOK, LifeInv, KeyInv, Inside, Exclusive, Kept, Expire, Valid, memory,
      lives, secret
<1>3. ASSUME NEW p \in Processes, NEW t \in Tokens, Logout(p, t) PROVE KeyInv'
  BY <1>3, Constants
  DEF TypeOK, LifeInv, KeyInv, Inside, Exclusive, Kept, Logout, Goto, Valid,
      memory, lives, secret
<1>4. ASSUME NEW t \in Tokens, Enter(t) PROVE KeyInv'
  BY <1>4, Constants
  DEF TypeOK, LifeInv, KeyInv, Inside, Exclusive, Kept, Enter, Goto, Waiting,
      memory, lives, secret
<1>5. ASSUME NEW t \in Tokens, Prune(t) PROVE KeyInv'
  BY <1>5, Constants
  DEF TypeOK, LifeInv, KeyInv, Inside, Exclusive, Kept, Prune, PruneMemory,
      Unexpired, StillRecent, UnexpiredRows, Goto, Leave, memory, lives,
      secret
<1>6. ASSUME NEW t \in Tokens, Insert(t) PROVE KeyInv'
  BY <1>6, Constants
  DEF TypeOK, LifeInv, KeyInv, Inside, Exclusive, Kept, Row, Insert, Goto,
      memory, lives, secret
<1>7. ASSUME NEW t \in Tokens, Remember(t) PROVE KeyInv'
  BY <1>7, Constants
  DEF TypeOK, LifeInv, KeyInv, Inside, Exclusive, Kept, Remember, Goto, Leave,
      memory, lives, secret
<1>8. ASSUME NEW t \in Tokens, Delete(t) PROVE KeyInv'
  BY <1>8, Constants
  DEF TypeOK, LifeInv, KeyInv, Inside, Exclusive, Kept, Delete, Goto, memory,
      lives, secret
<1>9. ASSUME NEW t \in Tokens, Forget(t) PROVE KeyInv'
  BY <1>9, Constants
  DEF TypeOK, LifeInv, KeyInv, Inside, Exclusive, Kept, Forget, Goto, Leave,
      memory, lives, secret
<1>10. ASSUME NEW t \in Tokens, DatabaseFails(t) PROVE KeyInv'
  BY <1>10, Constants
  DEF TypeOK, LifeInv, KeyInv, Inside, Exclusive, Kept, DatabaseFails,
      PruneMemory, Unexpired, StillRecent, Goto, Leave, memory, lives, secret
<1>11. ASSUME NEW p \in Processes, Start(p) PROVE KeyInv'
  BY <1>11, Constants
  DEF TypeOK, LifeInv, KeyInv, Inside, Exclusive, Kept, Start, memory, lives,
      secret
<1>12. ASSUME NEW p \in Processes, LoadKey(p) PROVE KeyInv'
  BY <1>12, Constants
  DEF TypeOK, LifeInv, KeyInv, Inside, Exclusive, Kept, NoTokens, LoadKey,
      UnexpiredRows, memory, lives, secret
<1>13. ASSUME NEW p \in Processes, Open(p) PROVE KeyInv'
  BY <1>13, Constants
  DEF TypeOK, LifeInv, KeyInv, Inside, Exclusive, Kept, Open, UnexpiredRows,
      memory, lives, secret
<1>14. ASSUME NEW p \in Processes, Exit(p) PROVE KeyInv'
  BY <1>14, Constants
  DEF TypeOK, LifeInv, KeyInv, Inside, Exclusive, Kept, Exit, Vanish, memory,
      lives, secret
<1>15. ASSUME NEW p \in Processes, DrainDeadline(p) PROVE KeyInv'
  BY <1>15, Constants
  DEF TypeOK, LifeInv, KeyInv, Inside, Exclusive, Kept, DrainDeadline, memory,
      lives, secret
<1>16. ASSUME NEW p \in Processes, Crash(p) PROVE KeyInv'
  BY <1>16, Constants
  DEF TypeOK, LifeInv, KeyInv, Inside, Exclusive, Kept, Crash, Vanish,
      AfterCrash, Busy, memory, lives, secret
<1>17. CASE Rotate
  BY <1>17, Constants
  DEF TypeOK, LifeInv, KeyInv, Inside, Exclusive, Kept, Rotate, memory, lives,
      secret
<1>18. CASE DeleteAll
  BY <1>18, Constants
  DEF TypeOK, LifeInv, KeyInv, Inside, Exclusive, Kept, NoTokens, DeleteAll,
      memory, lives, secret
<1>19. CASE StoreKey
  <2>1. \A p \in Processes : mode[p] \notin {"opening", "up"}
    BY <1>19, Constants DEF StoreKey, LifeInv
  <2>2. Exclusive => \A t \in Tokens : rows[t] = None
    BY <1>19 DEF StoreKey, KeyInv, NoTokens
  <2> QED
    BY <1>19, <2>1, <2>2 DEF KeyInv, StoreKey, Kept, Exclusive
<1>20. CASE RotationFails
  BY <1>20, Constants
  DEF TypeOK, LifeInv, KeyInv, Inside, Exclusive, Kept, RotationFails, memory,
      lives, secret
<1>21. CASE LoseKey
  BY <1>21, Constants
  DEF TypeOK, LifeInv, KeyInv, Inside, Exclusive, Kept, LoseKey, memory,
      lives, secret
<1>22. CASE Tick
  BY <1>22, Constants
  DEF TypeOK, LifeInv, KeyInv, Inside, Exclusive, Kept, Tick, memory, lives,
      secret
<1>23. CASE UNCHANGED vars
  BY <1>23, Constants
  DEF TypeOK, LifeInv, KeyInv, Inside, Exclusive, Kept, vars, memory, lives,
      secret
<1> QED
  BY <1>1, <1>2, <1>3, <1>4, <1>5, <1>6, <1>7, <1>8, <1>9, <1>10, <1>11,
     <1>12, <1>13, <1>14, <1>15, <1>16, <1>17, <1>18, <1>19, <1>20, <1>21,
     <1>22, <1>23
  DEF Next

(* Memory keeps to the limits: a login is remembered only when admitted.   *)
LEMMA MemoryStep ==
  TypeOK /\ LifeInv /\ MemoryLimits /\ AdmittedInv /\ RowLimits /\ [Next]_vars
  => MemoryLimits'
<1> SUFFICES ASSUME TypeOK, LifeInv, MemoryLimits, AdmittedInv, RowLimits, [Next]_vars
             PROVE  MemoryLimits'
  OBVIOUS
<1>1. ASSUME NEW p \in Processes, NEW t \in Tokens, Login(p, t) PROVE MemoryLimits'
  BY <1>1, Constants, MemoryFewer
  DEF TypeOK, Exclusive, Login, Goto, memory, lives, secret
<1>2. ASSUME NEW p \in Processes, NEW t \in Tokens, Expire(p, t) PROVE MemoryLimits'
  BY <1>2, Constants, MemoryFewer
  DEF TypeOK, Exclusive, Expire, Valid, memory, lives, secret
<1>3. ASSUME NEW p \in Processes, NEW t \in Tokens, Logout(p, t) PROVE MemoryLimits'
  BY <1>3, Constants, MemoryFewer
  DEF TypeOK, Exclusive, Logout, Goto, Valid, memory, lives, secret
<1>4. ASSUME NEW t \in Tokens, Enter(t) PROVE MemoryLimits'
  BY <1>4, Constants, MemoryFewer
  DEF TypeOK, Exclusive, Enter, Goto, Waiting, memory, lives, secret
<1>5. ASSUME NEW t \in Tokens, Prune(t) PROVE MemoryLimits'
  <2>1. proc[t] \in Processes /\ PruneMemory(t)
    BY <1>5 DEF Prune, LifeInv, Inside
  <2>2. \A p \in Processes, s \in Tokens :
          /\ mem'[p][s] # None => mem[p][s] # None
          /\ recent'[p][s] # None => recent[p][s] # None
    BY <2>1, MemoryShrinks
  <2> QED
    BY <1>5, <2>2, MemoryFewer DEF Prune, lives, Exclusive
<1>6. ASSUME NEW t \in Tokens, Insert(t) PROVE MemoryLimits'
  BY <1>6, Constants, MemoryFewer
  DEF TypeOK, Exclusive, Insert, Goto, memory, lives, secret
<1>7. ASSUME NEW t \in Tokens, Remember(t) PROVE MemoryLimits'
  <2>1. proc[t] \in Processes /\ phase[t] = "remember"
    BY <1>7 DEF Remember, LifeInv, Inside
  <2> SUFFICES ASSUME NEW p \in Processes
               PROVE  /\ Cardinality(Kept(mem'[p])) <= MaxSessions
                      /\ \A x \in Principals :
                           /\ Exclusive' => Cardinality(KeptOf(mem'[p], x)) <= MaxPerPrincipal
                           /\ Cardinality(KeptOf(recent'[p], x)) <= MaxIssuances
    BY DEF MemoryLimits, Kept, KeptOf
  <2>2. Exclusive' => Exclusive
    BY <1>7 DEF Remember, lives, Exclusive
  <2>3. CASE p # proc[t]
    <3>1. mem'[p] = mem[p] /\ recent'[p] = recent[p]
      BY <1>7, <2>3 DEF TypeOK, Remember
    <3> QED
      BY <2>2, <3>1 DEF MemoryLimits
  <2>4. CASE p = proc[t]
    <3>1. \A s \in Tokens : s # t => mem'[p][s] = mem[p][s] /\ recent'[p][s] = recent[p][s]
      BY <1>7, <2>1 DEF TypeOK, Remember
    <3>2. /\ Cardinality(Kept(mem'[p])) <= Cardinality(Kept(mem[p])) + 1
          /\ \A x : Cardinality(KeptOf(mem'[p], x)) <=
                      IF x = PrincipalOf[t] THEN Cardinality(KeptOf(mem[p], x)) + 1
                                            ELSE Cardinality(KeptOf(mem[p], x))
      BY <3>1, OneMoreKept
    <3>3. \A x : Cardinality(KeptOf(recent'[p], x)) <=
                      IF x = PrincipalOf[t] THEN Cardinality(KeptOf(recent[p], x)) + 1
                                            ELSE Cardinality(KeptOf(recent[p], x))
      BY <3>1, OneMoreKept
    <3>4. /\ Cardinality(Kept(mem[p])) \in Nat /\ Cardinality(Kept(mem'[p])) \in Nat
          /\ \A x : /\ Cardinality(KeptOf(mem[p], x)) \in Nat
                    /\ Cardinality(KeptOf(mem'[p], x)) \in Nat
      BY CountsAreNumbers
    <3>5. \A x : /\ Cardinality(KeptOf(recent[p], x)) \in Nat
                 /\ Cardinality(KeptOf(recent'[p], x)) \in Nat
      BY CountsAreNumbers
    <3>6. /\ Cardinality(Kept(mem[p])) < MaxSessions
          /\ Cardinality(KeptOf(mem[p], PrincipalOf[t])) < MaxPerPrincipal
          /\ Cardinality(KeptOf(recent[p], PrincipalOf[t])) < MaxIssuances
      BY <2>1, <2>4 DEF AdmittedInv
    <3>7. \A x \in Principals :
            /\ Exclusive' => Cardinality(KeptOf(mem[p], x)) <= MaxPerPrincipal
            /\ Cardinality(KeptOf(recent[p], x)) <= MaxIssuances
      BY <2>2 DEF MemoryLimits
    <3>8. Cardinality(Kept(mem'[p])) <= MaxSessions
      BY <3>2, <3>4, <3>6, Constants
    <3>9. ASSUME NEW x \in Principals
          PROVE  /\ Exclusive' => Cardinality(KeptOf(mem'[p], x)) <= MaxPerPrincipal
                 /\ Cardinality(KeptOf(recent'[p], x)) <= MaxIssuances
      BY <3>2, <3>3, <3>4, <3>5, <3>6, <3>7, Constants
    <3> QED
      BY <3>8, <3>9
  <2> QED
    BY <2>3, <2>4
<1>8. ASSUME NEW t \in Tokens, Delete(t) PROVE MemoryLimits'
  BY <1>8, Constants, MemoryFewer
  DEF TypeOK, Exclusive, Delete, Goto, memory, lives, secret
<1>9. ASSUME NEW t \in Tokens, Forget(t) PROVE MemoryLimits'
  BY <1>9, Constants, MemoryFewer
  DEF TypeOK, Exclusive, Forget, Goto, Leave, memory, lives, secret
<1>10. ASSUME NEW t \in Tokens, DatabaseFails(t) PROVE MemoryLimits'
  <2>1. proc[t] \in Processes /\ (UNCHANGED memory \/ PruneMemory(t))
    BY <1>10 DEF DatabaseFails, LifeInv, Inside
  <2>2. \A p \in Processes, s \in Tokens :
          /\ mem'[p][s] # None => mem[p][s] # None
          /\ recent'[p][s] # None => recent[p][s] # None
    BY <2>1, MemoryShrinks DEF memory
  <2> QED
    BY <1>10, <2>2, MemoryFewer DEF DatabaseFails, lives, Exclusive
<1>11. ASSUME NEW p \in Processes, Start(p) PROVE MemoryLimits'
  BY <1>11, Constants, MemoryFewer
  DEF TypeOK, Exclusive, Start, memory, lives, secret
<1>12. ASSUME NEW p \in Processes, LoadKey(p) PROVE MemoryLimits'
  BY <1>12, Constants, MemoryFewer
  DEF TypeOK, Exclusive, LoadKey, UnexpiredRows, memory, lives, secret
<1>13. ASSUME NEW p \in Processes, Open(p) PROVE MemoryLimits'
  <2>1. mode[p] = "opening" /\ Exclusive' = Exclusive /\ recent' = recent
    BY <1>13 DEF Open, Exclusive
  <2>2. CASE mem' = mem
    BY <2>1, <2>2, MemoryFewer
  <2>3. CASE /\ Readable(p, rows')
             /\ mem' = [mem EXCEPT ![p] = [t \in Tokens |->
                          IF rows'[t] = None THEN None ELSE Ticks(rows'[t].expires)]]
    <3>1. \A s \in Tokens : mem'[p][s] # None => rows'[s] # None
      BY <2>3 DEF TypeOK
    <3>2. rows' = UnexpiredRows(Seconds(now))
      BY <1>13 DEF Open
    <3>3. /\ Cardinality(Kept(mem'[p])) \in Nat /\ Cardinality(Kept(rows')) \in Nat
          /\ Cardinality(Kept(mem'[p])) <= Cardinality(Kept(rows'))
          /\ \A x : /\ Cardinality(KeptOf(mem'[p], x)) \in Nat
                    /\ Cardinality(KeptOf(rows', x)) \in Nat
                    /\ Cardinality(KeptOf(mem'[p], x)) <= Cardinality(KeptOf(rows', x))
      BY <3>1, FewerKept
    <3>4. Cardinality(Kept(mem'[p])) <= MaxSessions
      BY <2>3, <3>3, Constants DEF Readable
    <3>5. ASSUME Exclusive, NEW x \in Principals
          PROVE  Cardinality(KeptOf(mem'[p], x)) <= MaxPerPrincipal
      <4>1. Cardinality(KeptOf(rows', x)) <= MaxPerPrincipal
        BY <3>2, <3>5 DEF RowLimits
      <4> QED
        BY <3>3, <4>1, Constants
    <3>6. \A q \in Processes : q # p => mem'[q] = mem[q]
      BY <2>3 DEF TypeOK
    <3> SUFFICES ASSUME NEW q \in Processes
                 PROVE  /\ Cardinality(Kept(mem'[q])) <= MaxSessions
                        /\ \A x \in Principals :
                             /\ Exclusive' => Cardinality(KeptOf(mem'[q], x)) <= MaxPerPrincipal
                             /\ Cardinality(KeptOf(recent'[q], x)) <= MaxIssuances
      BY DEF MemoryLimits, Kept, KeptOf
    <3>7. CASE q = p
      BY <2>1, <3>4, <3>5, <3>7 DEF MemoryLimits
    <3>8. CASE q # p
      BY <2>1, <3>6, <3>8 DEF MemoryLimits
    <3> QED
      BY <3>7, <3>8
  <2> QED
    BY <1>13, <2>2, <2>3 DEF Open
<1>14. ASSUME NEW p \in Processes, Exit(p) PROVE MemoryLimits'
  BY <1>14, Constants, MemoryFewer
  DEF TypeOK, Exclusive, NoTokens, Exit, Vanish, memory, lives, secret
<1>15. ASSUME NEW p \in Processes, DrainDeadline(p) PROVE MemoryLimits'
  BY <1>15, Constants, MemoryFewer
  DEF TypeOK, Exclusive, DrainDeadline, memory, lives, secret
<1>16. ASSUME NEW p \in Processes, Crash(p) PROVE MemoryLimits'
  BY <1>16, Constants, MemoryFewer
  DEF TypeOK, Exclusive, NoTokens, Crash, Vanish, AfterCrash, Busy, memory,
      lives, secret
<1>17. CASE Rotate
  BY <1>17, Constants, MemoryFewer
  DEF TypeOK, Exclusive, Rotate, memory, lives, secret
<1>18. CASE DeleteAll
  BY <1>18, Constants, MemoryFewer
  DEF TypeOK, Exclusive, DeleteAll, memory, lives, secret
<1>19. CASE StoreKey
  BY <1>19, Constants, MemoryFewer
  DEF TypeOK, Exclusive, StoreKey, memory, lives, secret
<1>20. CASE RotationFails
  BY <1>20, Constants, MemoryFewer
  DEF TypeOK, Exclusive, RotationFails, memory, lives, secret
<1>21. CASE LoseKey
  BY <1>21, Constants, MemoryFewer
  DEF TypeOK, Exclusive, LoseKey, memory, lives, secret
<1>22. CASE Tick
  BY <1>22, Constants, MemoryFewer
  DEF TypeOK, Exclusive, Tick, memory, lives, secret
<1>23. CASE UNCHANGED vars
  BY <1>23, Constants, MemoryFewer
  DEF TypeOK, Exclusive, vars, memory, lives, secret
<1> QED
  BY <1>1, <1>2, <1>3, <1>4, <1>5, <1>6, <1>7, <1>8, <1>9, <1>10, <1>11,
     <1>12, <1>13, <1>14, <1>15, <1>16, <1>17, <1>18, <1>19, <1>20, <1>21,
     <1>22, <1>23
  DEF Next

(* Between its admission and its memory nobody else enters the store.      *)
LEMMA AdmittedStep == TypeOK /\ LifeInv /\ AdmittedInv /\ [Next]_vars => AdmittedInv'
<1> SUFFICES ASSUME TypeOK, LifeInv, AdmittedInv, [Next]_vars PROVE AdmittedInv'
  OBVIOUS
<1>1. ASSUME NEW p \in Processes, NEW t \in Tokens, Login(p, t) PROVE AdmittedInv'
  BY <1>1, Constants
  DEF TypeOK, AdmittedInv, LifeInv, Inside, Login, Goto, memory, lives, secret
<1>2. ASSUME NEW p \in Processes, NEW t \in Tokens, Expire(p, t) PROVE AdmittedInv'
  <2>1. UNCHANGED <<phase, proc, recent>>
    BY <1>2 DEF Expire
  <2>2. \A q \in Processes, s \in Tokens : mem'[q][s] # None => mem[q][s] # None
    BY <1>2 DEF TypeOK, Expire
  <2> SUFFICES ASSUME NEW s \in Tokens, phase'[s] \in {"insert", "remember"}
               PROVE  /\ Cardinality(Kept(mem'[proc'[s]])) < MaxSessions
                      /\ Cardinality(KeptOf(mem'[proc'[s]], PrincipalOf[s])) < MaxPerPrincipal
                      /\ Cardinality(KeptOf(recent'[proc'[s]], PrincipalOf[s])) < MaxIssuances
    BY DEF AdmittedInv, Kept, KeptOf
  <2>3. proc[s] \in Processes
    BY <2>1 DEF LifeInv, Inside
  <2> QED
    BY <2>1, <2>2, <2>3, AdmittedFewer
<1>3. ASSUME NEW p \in Processes, NEW t \in Tokens, Logout(p, t) PROVE AdmittedInv'
  BY <1>3, Constants
  DEF TypeOK, AdmittedInv, LifeInv, Inside, Logout, Goto, Valid, memory,
      lives, secret
<1>4. ASSUME NEW t \in Tokens, Enter(t) PROVE AdmittedInv'
  BY <1>4, Constants
  DEF TypeOK, AdmittedInv, LifeInv, Inside, Waiting, Enter, Goto, Waiting,
      memory, lives, secret
<1>5. ASSUME NEW t \in Tokens, Prune(t) PROVE AdmittedInv'
  <2>1. proc[t] \in Processes /\ phase[t] = "prune" /\ UNCHANGED proc
    BY <1>5 DEF Prune, LifeInv, Inside
  <2>2. PruneMemory(t) /\ mem'[proc[t]] = Unexpired(t) /\ recent'[proc[t]] = StillRecent(t)
    BY <1>5, <2>1 DEF TypeOK, Prune, PruneMemory
  <2>3. PICK ph \in {"insert", "refused"} :
          phase' = [phase EXCEPT ![t] = ph] /\ (ph = "insert" => Admitted(t))
    BY <1>5 DEF Prune, Goto
  <2> SUFFICES ASSUME NEW s \in Tokens, phase'[s] \in {"insert", "remember"}
               PROVE  /\ Cardinality(Kept(mem'[proc'[s]])) < MaxSessions
                      /\ Cardinality(KeptOf(mem'[proc'[s]], PrincipalOf[s])) < MaxPerPrincipal
                      /\ Cardinality(KeptOf(recent'[proc'[s]], PrincipalOf[s])) < MaxIssuances
    BY DEF AdmittedInv, Kept, KeptOf
  <2>4. CASE s = t
    BY <2>1, <2>2, <2>3, <2>4 DEF TypeOK, Admitted
  <2>5. CASE s # t
    <3>1. phase[s] \in {"insert", "remember"} /\ proc[s] \in Processes
      BY <2>3, <2>5 DEF TypeOK, LifeInv, Inside
    <3>2. \A r \in Tokens :
            /\ mem'[proc[s]][r] # None => mem[proc[s]][r] # None
            /\ recent'[proc[s]][r] # None => recent[proc[s]][r] # None
      BY <2>1, <2>2, <3>1, MemoryShrinks
    <3> QED
      BY <2>1, <3>1, <3>2, AdmittedFewer
  <2> QED
    BY <2>4, <2>5
<1>6. ASSUME NEW t \in Tokens, Insert(t) PROVE AdmittedInv'
  BY <1>6, Constants
  DEF TypeOK, AdmittedInv, LifeInv, Inside, Insert, Goto, memory, lives,
      secret
<1>7. ASSUME NEW t \in Tokens, Remember(t) PROVE AdmittedInv'
  <2>1. mutex[proc[t]] = t /\ UNCHANGED proc /\ phase' = [phase EXCEPT ![t] = "live"]
    BY <1>7 DEF TypeOK, Remember, Goto, Inside
  <2> SUFFICES ASSUME NEW s \in Tokens, phase'[s] \in {"insert", "remember"}
               PROVE  /\ Cardinality(Kept(mem'[proc'[s]])) < MaxSessions
                      /\ Cardinality(KeptOf(mem'[proc'[s]], PrincipalOf[s])) < MaxPerPrincipal
                      /\ Cardinality(KeptOf(recent'[proc'[s]], PrincipalOf[s])) < MaxIssuances
    BY DEF AdmittedInv, Kept, KeptOf
  <2>2. s # t /\ phase[s] \in {"insert", "remember"}
    BY <2>1 DEF TypeOK
  <2>3. proc[s] # proc[t] /\ proc[s] \in Processes
    BY <2>1, <2>2 DEF TypeOK, LifeInv, Inside
  <2>4. mem'[proc[s]] = mem[proc[s]] /\ recent'[proc[s]] = recent[proc[s]]
    BY <1>7, <2>3 DEF TypeOK, Remember
  <2> QED
    BY <2>1, <2>2, <2>4 DEF AdmittedInv
<1>8. ASSUME NEW t \in Tokens, Delete(t) PROVE AdmittedInv'
  BY <1>8, Constants
  DEF TypeOK, AdmittedInv, LifeInv, Inside, Delete, Goto, memory, lives,
      secret
<1>9. ASSUME NEW t \in Tokens, Forget(t) PROVE AdmittedInv'
  <2>1. UNCHANGED <<proc, recent>> /\ phase' = [phase EXCEPT ![t] = "revoked"]
    BY <1>9 DEF Forget, Goto
  <2>2. \A q \in Processes, s \in Tokens : mem'[q][s] # None => mem[q][s] # None
    BY <1>9 DEF TypeOK, Forget
  <2> SUFFICES ASSUME NEW s \in Tokens, phase'[s] \in {"insert", "remember"}
               PROVE  /\ Cardinality(Kept(mem'[proc'[s]])) < MaxSessions
                      /\ Cardinality(KeptOf(mem'[proc'[s]], PrincipalOf[s])) < MaxPerPrincipal
                      /\ Cardinality(KeptOf(recent'[proc'[s]], PrincipalOf[s])) < MaxIssuances
    BY DEF AdmittedInv, Kept, KeptOf
  <2>3. phase[s] \in {"insert", "remember"} /\ proc[s] \in Processes
    BY <2>1 DEF TypeOK, LifeInv, Inside
  <2> QED
    BY <2>1, <2>2, <2>3, AdmittedFewer
<1>10. ASSUME NEW t \in Tokens, DatabaseFails(t) PROVE AdmittedInv'
  <2>1. proc[t] \in Processes /\ UNCHANGED proc /\ (UNCHANGED memory \/ PruneMemory(t))
    BY <1>10 DEF DatabaseFails, LifeInv, Inside
  <2>2. PICK ph \in {"live", "refused"} : phase' = [phase EXCEPT ![t] = ph]
    BY <1>10 DEF DatabaseFails, Goto
  <2> SUFFICES ASSUME NEW s \in Tokens, phase'[s] \in {"insert", "remember"}
               PROVE  /\ Cardinality(Kept(mem'[proc'[s]])) < MaxSessions
                      /\ Cardinality(KeptOf(mem'[proc'[s]], PrincipalOf[s])) < MaxPerPrincipal
                      /\ Cardinality(KeptOf(recent'[proc'[s]], PrincipalOf[s])) < MaxIssuances
    BY DEF AdmittedInv, Kept, KeptOf
  <2>3. phase[s] \in {"insert", "remember"} /\ proc[s] \in Processes
    BY <2>2 DEF TypeOK, LifeInv, Inside
  <2>4. \A r \in Tokens :
          /\ mem'[proc[s]][r] # None => mem[proc[s]][r] # None
          /\ recent'[proc[s]][r] # None => recent[proc[s]][r] # None
    BY <2>1, <2>3, MemoryShrinks DEF memory
  <2> QED
    BY <2>1, <2>3, <2>4, AdmittedFewer
<1>11. ASSUME NEW p \in Processes, Start(p) PROVE AdmittedInv'
  BY <1>11, Constants
  DEF TypeOK, AdmittedInv, LifeInv, Inside, Start, memory, lives, secret
<1>12. ASSUME NEW p \in Processes, LoadKey(p) PROVE AdmittedInv'
  BY <1>12, Constants
  DEF TypeOK, AdmittedInv, LifeInv, Inside, LoadKey, UnexpiredRows, memory,
      lives, secret
<1>13. ASSUME NEW p \in Processes, Open(p) PROVE AdmittedInv'
  BY <1>13, Constants
  DEF TypeOK, AdmittedInv, LifeInv, Inside, Open, UnexpiredRows, memory,
      lives, secret
<1>14. ASSUME NEW p \in Processes, Exit(p) PROVE AdmittedInv'
  BY <1>14, Constants
  DEF TypeOK, AdmittedInv, LifeInv, Inside, Busy, Exit, Vanish, memory, lives,
      secret
<1>15. ASSUME NEW p \in Processes, DrainDeadline(p) PROVE AdmittedInv'
  BY <1>15, Constants
  DEF TypeOK, AdmittedInv, LifeInv, Inside, DrainDeadline, memory, lives,
      secret
<1>16. ASSUME NEW p \in Processes, Crash(p) PROVE AdmittedInv'
  <2>1. phase' = AfterCrash(p) /\ UNCHANGED proc
        /\ mem' = [mem EXCEPT ![p] = NoTokens] /\ recent' = [recent EXCEPT ![p] = NoTokens]
    BY <1>16 DEF Crash, Vanish
  <2> SUFFICES ASSUME NEW s \in Tokens, phase'[s] \in {"insert", "remember"}
               PROVE  /\ Cardinality(Kept(mem'[proc'[s]])) < MaxSessions
                      /\ Cardinality(KeptOf(mem'[proc'[s]], PrincipalOf[s])) < MaxPerPrincipal
                      /\ Cardinality(KeptOf(recent'[proc'[s]], PrincipalOf[s])) < MaxIssuances
    BY DEF AdmittedInv, Kept, KeptOf
  <2>2. phase[s] \in {"insert", "remember"} /\ proc[s] # p
    BY <2>1 DEF AfterCrash, Busy, Inside
  <2>3. mem'[proc[s]] = mem[proc[s]] /\ recent'[proc[s]] = recent[proc[s]]
    BY <2>1, <2>2 DEF TypeOK, LifeInv, Inside
  <2> QED
    BY <2>1, <2>2, <2>3 DEF AdmittedInv
<1>17. CASE Rotate
  BY <1>17, Constants
  DEF TypeOK, AdmittedInv, LifeInv, Inside, Rotate, memory, lives, secret
<1>18. CASE DeleteAll
  BY <1>18, Constants
  DEF TypeOK, AdmittedInv, LifeInv, Inside, DeleteAll, memory, lives, secret
<1>19. CASE StoreKey
  BY <1>19, Constants
  DEF TypeOK, AdmittedInv, LifeInv, Inside, StoreKey, memory, lives, secret
<1>20. CASE RotationFails
  BY <1>20, Constants
  DEF TypeOK, AdmittedInv, LifeInv, Inside, RotationFails, memory, lives,
      secret
<1>21. CASE LoseKey
  BY <1>21, Constants
  DEF TypeOK, AdmittedInv, LifeInv, Inside, LoseKey, memory, lives, secret
<1>22. CASE Tick
  BY <1>22, Constants
  DEF TypeOK, AdmittedInv, LifeInv, Inside, Tick, memory, lives, secret
<1>23. CASE UNCHANGED vars
  BY <1>23, Constants
  DEF TypeOK, AdmittedInv, LifeInv, Inside, vars, memory, lives, secret
<1> QED
  BY <1>1, <1>2, <1>3, <1>4, <1>5, <1>6, <1>7, <1>8, <1>9, <1>10, <1>11,
     <1>12, <1>13, <1>14, <1>15, <1>16, <1>17, <1>18, <1>19, <1>20, <1>21,
     <1>22, <1>23
  DEF Next

(* A row is written only for an admitted login, next to what memory holds. *)
LEMMA RowLimitStep ==
  TypeOK /\ LifeInv /\ HeldInv /\ AdmittedInv /\ MemoryLimits /\ RowLimits /\ [Next]_vars
  => RowLimits'
<1> SUFFICES ASSUME TypeOK, LifeInv, HeldInv, AdmittedInv, MemoryLimits, RowLimits, [Next]_vars
             PROVE  RowLimits'
  OBVIOUS
<1>1. ASSUME NEW p \in Processes, NEW t \in Tokens, Login(p, t) PROVE RowLimits'
  BY <1>1, Constants, RowsFewer
  DEF TypeOK, Exclusive, RowLives, Login, Goto, memory, lives, secret
<1>2. ASSUME NEW p \in Processes, NEW t \in Tokens, Expire(p, t) PROVE RowLimits'
  BY <1>2, Constants, RowsFewer
  DEF TypeOK, Exclusive, RowLives, Expire, Valid, memory, lives, secret
<1>3. ASSUME NEW p \in Processes, NEW t \in Tokens, Logout(p, t) PROVE RowLimits'
  BY <1>3, Constants, RowsFewer
  DEF TypeOK, Exclusive, RowLives, Logout, Goto, Valid, memory, lives, secret
<1>4. ASSUME NEW t \in Tokens, Enter(t) PROVE RowLimits'
  BY <1>4, Constants, RowsFewer
  DEF TypeOK, Exclusive, RowLives, Enter, Goto, Waiting, memory, lives, secret
<1>5. ASSUME NEW t \in Tokens, Prune(t) PROVE RowLimits'
  <2>1. at[t] \in Nat /\ at[t] <= now /\ now' = now /\ Exclusive' = Exclusive
    BY <1>5, Constants DEF TypeOK, LifeInv, Prune, lives, Exclusive
  <2>2. \A s \in Tokens : rows'[s] = None \/ rows'[s] = rows[s]
    BY <1>5, <2>1, RowsShrink DEF Prune
  <2> QED
    BY <2>1, <2>2, RowsFewer DEF RowLives
<1>6. ASSUME NEW t \in Tokens, Insert(t) PROVE RowLimits'
  <2> SUFFICES ASSUME Exclusive
               PROVE  LET f == UnexpiredRows(Seconds(now))'
                      IN  /\ Cardinality(Kept(f)) <= MaxSessions
                          /\ \A x \in Principals : Cardinality(KeptOf(f, x)) <= MaxPerPrincipal
    BY <1>6 DEF RowLimits, Insert, lives, Exclusive, Kept, KeptOf, UnexpiredRows, RowLives
  <2> DEFINE f == UnexpiredRows(Seconds(now))'
             g == mem[proc[t]]
  <2>1. proc[t] \in Processes /\ mode[proc[t]] = "up" /\ mutex[proc[t]] = t /\ now' = now
    BY <1>6 DEF Insert, LifeInv, TypeOK, Inside
  <2>2. ASSUME NEW s \in Tokens, phase[s] = "remember", s # t PROVE FALSE
    <3>1. /\ proc[s] \in Processes /\ mode[proc[s]] = "up" /\ mutex[proc[s]] = s
      BY <2>2 DEF LifeInv, TypeOK, Inside
    <3> QED
      BY <2>1, <2>2, <3>1 DEF LifeInv
  <2>3. \A s \in Tokens : f[s] # None /\ s # t => g[s] # None
    <3> SUFFICES ASSUME NEW s \in Tokens, f[s] # None, s # t PROVE g[s] # None
      OBVIOUS
    <3>1. RowLives(s, Seconds(now))
      BY <1>6, <2>1 DEF UnexpiredRows, RowLives, Insert, TypeOK
    <3> QED
      BY <2>1, <2>2, <3>1 DEF HeldInv
  <2> HIDE DEF f, g
  <2>4. /\ Cardinality(Kept(f)) <= Cardinality(Kept(g)) + 1
        /\ \A x : Cardinality(KeptOf(f, x)) <=
                    IF x = PrincipalOf[t] THEN Cardinality(KeptOf(g, x)) + 1
                                          ELSE Cardinality(KeptOf(g, x))
    BY <2>3, OneMoreKept
  <2>5. /\ Cardinality(Kept(g)) < MaxSessions
        /\ Cardinality(KeptOf(g, PrincipalOf[t])) < MaxPerPrincipal
        /\ \A x \in Principals : Cardinality(KeptOf(g, x)) <= MaxPerPrincipal
    BY <1>6, <2>1 DEF AdmittedInv, MemoryLimits, Insert, g
  <2>6. /\ Cardinality(Kept(f)) \in Nat /\ Cardinality(Kept(g)) \in Nat
        /\ \A x : Cardinality(KeptOf(f, x)) \in Nat /\ Cardinality(KeptOf(g, x)) \in Nat
    BY CountsAreNumbers
  <2>7. /\ Cardinality(Kept(f)) <= MaxSessions
        /\ \A x \in Principals : Cardinality(KeptOf(f, x)) <= MaxPerPrincipal
    BY <2>4, <2>5, <2>6, Constants
  <2> QED
    BY <2>7 DEF f
<1>7. ASSUME NEW t \in Tokens, Remember(t) PROVE RowLimits'
  BY <1>7, Constants, RowsFewer
  DEF TypeOK, Exclusive, RowLives, Remember, Goto, Leave, memory, lives,
      secret
<1>8. ASSUME NEW t \in Tokens, Delete(t) PROVE RowLimits'
  BY <1>8, Constants, RowsFewer
  DEF TypeOK, Exclusive, RowLives, Delete, Goto, memory, lives, secret
<1>9. ASSUME NEW t \in Tokens, Forget(t) PROVE RowLimits'
  BY <1>9, Constants, RowsFewer
  DEF TypeOK, Exclusive, RowLives, Forget, Goto, Leave, memory, lives, secret
<1>10. ASSUME NEW t \in Tokens, DatabaseFails(t) PROVE RowLimits'
  BY <1>10, Constants, RowsFewer
  DEF TypeOK, Exclusive, RowLives, DatabaseFails, PruneMemory, Unexpired,
      StillRecent, Goto, Leave, memory, lives, secret
<1>11. ASSUME NEW p \in Processes, Start(p) PROVE RowLimits'
  BY <1>11, Constants, RowsFewer
  DEF TypeOK, Exclusive, RowLives, Start, memory, lives, secret
<1>12. ASSUME NEW p \in Processes, LoadKey(p) PROVE RowLimits'
  <2>1. now \in Nat /\ now <= now /\ now' = now /\ Exclusive' = Exclusive
    BY <1>12, Constants DEF TypeOK, LoadKey, Exclusive
  <2>2. \A s \in Tokens : rows'[s] = None \/ rows'[s] = rows[s]
    BY <1>12, <2>1, RowsShrink DEF LoadKey
  <2> QED
    BY <2>1, <2>2, RowsFewer DEF RowLives
<1>13. ASSUME NEW p \in Processes, Open(p) PROVE RowLimits'
  <2>1. now \in Nat /\ now <= now /\ now' = now /\ Exclusive' = Exclusive
    BY <1>13, Constants DEF TypeOK, Open, Exclusive
  <2>2. \A s \in Tokens : rows'[s] = None \/ rows'[s] = rows[s]
    BY <1>13, <2>1, RowsShrink DEF Open
  <2> QED
    BY <2>1, <2>2, RowsFewer DEF RowLives
<1>14. ASSUME NEW p \in Processes, Exit(p) PROVE RowLimits'
  BY <1>14, Constants, RowsFewer
  DEF TypeOK, Exclusive, RowLives, Exit, Vanish, memory, lives, secret
<1>15. ASSUME NEW p \in Processes, DrainDeadline(p) PROVE RowLimits'
  BY <1>15, Constants, RowsFewer
  DEF TypeOK, Exclusive, RowLives, DrainDeadline, memory, lives, secret
<1>16. ASSUME NEW p \in Processes, Crash(p) PROVE RowLimits'
  BY <1>16, Constants, RowsFewer
  DEF TypeOK, Exclusive, RowLives, Crash, Vanish, AfterCrash, Busy, memory,
      lives, secret
<1>17. CASE Rotate
  BY <1>17, Constants, RowsFewer
  DEF TypeOK, Exclusive, RowLives, Rotate, memory, lives, secret
<1>18. CASE DeleteAll
  BY <1>18, Constants, RowsFewer
  DEF TypeOK, Exclusive, RowLives, NoTokens, DeleteAll, memory, lives, secret
<1>19. CASE StoreKey
  BY <1>19, Constants, RowsFewer
  DEF TypeOK, Exclusive, RowLives, StoreKey, memory, lives, secret
<1>20. CASE RotationFails
  BY <1>20, Constants, RowsFewer
  DEF TypeOK, Exclusive, RowLives, RotationFails, memory, lives, secret
<1>21. CASE LoseKey
  BY <1>21, Constants, RowsFewer
  DEF TypeOK, Exclusive, RowLives, LoseKey, memory, lives, secret
<1>22. CASE Tick
  <2>1. now \in Nat /\ now' = now + 1 /\ rows' = rows /\ Exclusive' = Exclusive
    BY <1>22, Constants DEF TypeOK, Tick, lives, Exclusive
  <2>2. Seconds(now) <= Seconds(now') /\ Seconds(now) \in Nat /\ Seconds(now') \in Nat
    BY <2>1, WholeSeconds
  <2>3. \A s \in Tokens : rows[s] # None => rows[s].expires \in Nat
    BY DEF TypeOK, Row
  <2>4. \A s \in Tokens : RowLives(s, Seconds(now))' => RowLives(s, Seconds(now))
    BY <2>1, <2>2, <2>3 DEF RowLives
  <2> QED
    BY <2>1, <2>4, RowsFewer
<1>23. CASE UNCHANGED vars
  BY <1>23, Constants, RowsFewer
  DEF TypeOK, Exclusive, RowLives, vars, memory, lives, secret
<1> QED
  BY <1>1, <1>2, <1>3, <1>4, <1>5, <1>6, <1>7, <1>8, <1>9, <1>10, <1>11,
     <1>12, <1>13, <1>14, <1>15, <1>16, <1>17, <1>18, <1>19, <1>20, <1>21,
     <1>22, <1>23
  DEF Next

----------------------------------------------------------------------------
(* The invariant holds of every behaviour.                                 *)

LEMMA NothingYet == Init => IInv
<1> SUFFICES ASSUME Init PROVE IInv
  OBVIOUS
<1>1. TypeOK
  BY NothingKept, Constants DEF Init, TypeOK, Phases, Inside, Waiting
<1>2. LifeInv
  BY Constants DEF Init, LifeInv, Inside, Waiting
<1>3. RowInv /\ RevokedInv /\ LiveInv /\ HeldInv /\ KeyInv /\ AdmittedInv
  BY DEF Init, RowInv, RevokedInv, LiveInv, HeldInv, KeyInv, AdmittedInv, NoTokens, Kept
<1>4. Kept(NoTokens) = {} /\ \A x : KeptOf(NoTokens, x) = {}
  BY DEF Kept, KeptOf, NoTokens
<1>5. Cardinality({}) = 0
  BY FS_EmptySet
<1>6. \A p \in Processes : mem[p] = NoTokens /\ recent[p] = NoTokens
  BY DEF Init
<1>7. UnexpiredRows(Seconds(now)) = NoTokens
  BY DEF Init, UnexpiredRows, RowLives, NoTokens
<1>8. MemoryLimits /\ RowLimits
  BY <1>4, <1>5, <1>6, <1>7, Constants DEF MemoryLimits, RowLimits
<1> QED
  BY <1>1, <1>2, <1>3, <1>8 DEF IInv

LEMMA Invariance == Spec => []IInv
<1>1. IInv /\ [Next]_vars => IInv'
  <2> SUFFICES ASSUME IInv, [Next]_vars PROVE IInv'
    OBVIOUS
  <2>1. /\ TypeOK /\ LifeInv /\ RowInv /\ RevokedInv /\ LiveInv /\ HeldInv /\ KeyInv
        /\ MemoryLimits /\ AdmittedInv /\ RowLimits
    BY DEF IInv
  <2>2. TypeOK' /\ LifeInv' /\ RowInv' /\ RevokedInv' /\ LiveInv' /\ HeldInv' /\ KeyInv'
    BY <2>1, TypeStep, LifeStep, RowStep, RevokedStep, LiveStep, HeldStep, KeyStep
  <2>3. MemoryLimits' /\ AdmittedInv' /\ RowLimits'
    BY <2>1, MemoryStep, AdmittedStep, RowLimitStep
  <2> QED
    BY <2>2, <2>3 DEF IInv
<1> QED
  BY <1>1, NothingYet, PTL DEF Spec

(* The state keeps its shape, and one handler at a time is inside the      *)
(* session store of a server (the mutex of SessionStore).                  *)
THEOREM SessionTyped == Spec => []TypeOK
<1>1. IInv => TypeOK
  BY DEF IInv
<1> QED
  BY <1>1, Invariance, PTL

(* A revocation that was answered is final: the row is gone, and no server *)
(* accepts the token, through crashes and restarts (revoke).               *)
THEOREM RevokedForGood == Spec => []RevokedStaysRevoked
<1>1. IInv => RevokedStaysRevoked
  BY DEF IInv, RowInv, RevokedInv, RevokedStaysRevoked
<1> QED
  BY <1>1, Invariance, PTL

(* A session whose login was answered is accepted by the server that is up *)
(* until its last whole second, or a rotation (issue_session_record,       *)
(* open_durable).                                                          *)
THEOREM IssuedLasts == Spec => []IssuedSurvives
<1>1. IInv => IssuedSurvives
  <2> SUFFICES ASSUME IInv, NEW t \in Tokens, Exclusive, phase[t] = "live",
                      Seconds(now) < Seconds(at[t] + Ttl)
               PROVE  /\ RowLives(t, Seconds(now))
                      /\ \A p \in Processes : mode[p] = "up" => Valid(p, t)
    BY DEF IssuedSurvives
  <2>1. RowLives(t, Seconds(now))
    BY DEF IInv, LiveInv, RowInv, RowLives
  <2>2. ASSUME NEW p \in Processes, mode[p] = "up" PROVE Valid(p, t)
    <3>1. mem[p][t] # None /\ mem[p][t] >= Ticks(rows[t].expires)
      BY <2>1, <2>2 DEF IInv, HeldInv
    <3> QED
      BY <2>1, <3>1, HeldIsValid DEF IInv
  <2> QED
    BY <2>1, <2>2
<1> QED
  BY <1>1, Invariance, PTL

(* No crash, restart, rotation or overrun takes a server over its limits   *)
(* or leaves rows that the next start would refuse (open_durable,          *)
(* enforce_session_admission, rotate_managed_session_key).                 *)
THEOREM RestartsPossible == Spec => []RestartPossible
<1>1. IInv => RestartPossible
  BY DEF IInv, KeyInv, MemoryLimits, RowLimits, RestartPossible, RowsReadable, LimitsHold
<1> QED
  BY <1>1, Invariance, PTL
============================================================================
