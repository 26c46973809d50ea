---------------------------- MODULE ChainProofs -----------------------------
(***************************************************************************)
(* The invariants of PromptChains and DemoSeed, for every number of        *)
(* chains, users and requests.                                             *)
(***************************************************************************)
EXTENDS DemoSeed, WellFoundedInduction, FiniteSetTheorems, SequenceTheorems, TLAPS

-----------------------------------------------------------------------------
(* Numbers.                                                                *)

LEMMA LeastExists ==
    ASSUME NEW T \in SUBSET Nat, T # {}
    PROVE  \E x \in T : \A y \in T : x <= y
<1> DEFINE R == OpToRel(<, Nat)
<1>1. IsWellFoundedOn(R, Nat)
  BY NatLessThanWellFounded
<1>2. \A x, y \in Nat : x < y => <<x, y>> \in R
  BY DEF OpToRel
<1> HIDE DEF R
<1>3. PICK x \in T : \A y \in T : ~ (<<y, x>> \in R)
  BY ONLY <1>1, WFMin, T \subseteq Nat, T # {}
<1>4. \A y \in T : ~(y < x)
  BY <1>2, <1>3
<1>5. x \in Nat /\ \A y \in T : y \in Nat
  OBVIOUS
<1>6. \A y \in T : x <= y
  BY <1>4, <1>5
<1> QED
  BY <1>6

LEMMA MinIsLeast ==
    ASSUME NEW T \in SUBSET Nat, T # {}
    PROVE  Min(T) \in T /\ \A x \in T : Min(T) <= x
BY LeastExists DEF Min

LEMMA MaxIsGreatest ==
    ASSUME NEW n \in Nat, NEW T \in SUBSET (0..n), T # {}
    PROVE  Max(T) \in T /\ \A x \in T : x <= Max(T)
<1> DEFINE U == {n - x : x \in T}
<1>1. \A x \in T : x \in 0..n
  OBVIOUS
<1>2. U \in SUBSET Nat
  <2> SUFFICES ASSUME NEW x \in T PROVE n - x \in Nat
    OBVIOUS
  <2> QED
    BY <1>1
<1>3. U # {}
  OBVIOUS
<1>4. PICK u \in U : \A y \in U : u <= y
  BY <1>2, <1>3, LeastExists
<1>5. PICK x \in T : u = n - x
  BY <1>4
<1>6. \A y \in T : y <= x
  <2> TAKE y \in T
  <2>1. n - x <= n - y
    BY <1>4, <1>5
  <2> QED
    BY <2>1, <1>1
<1> QED
  BY <1>6, <1>1 DEF Max

LEMMA MaxOfTwo ==
    ASSUME NEW a \in Int, NEW b \in Int
    PROVE  Max({a, b}) = IF a >= b THEN a ELSE b
BY DEF Max

-----------------------------------------------------------------------------
(* The versions of one chain.                                              *)

\* The versions are numbered from 1 to n.
Dense(V, n) ==
    /\ n \in Nat /\ {v.no : v \in V} = 1..n
    /\ \A v, w \in V : v.no = w.no => v = w

\* Someone called a added a version before one that b added.
Precedes(V, a, b) == \E v, w \in V : v.no < w.no /\ v.by = a /\ w.by = b

\* u added the last of n versions, or else the one exception.
NamesLast(V, n, u) ==
    \E last \in V :
        /\ last.no = n
        /\ \/ u = last.by
           \/ \E v, w \in V : v.no < w.no /\ w.no < n /\ v.by = last.by /\ w.by = u

Last(V) == Max({v.no : v \in V} \cup {0})

LEMMA DenseIsFinite ==
    ASSUME NEW V, NEW n, Dense(V, n)
    PROVE  IsFiniteSet(V) /\ Cardinality(V) = n
<1> DEFINE f == [i \in 1..n |-> CHOOSE v \in V : v.no = i]
<1>1. n \in Nat /\ {v.no : v \in V} = 1..n /\ \A v, w \in V : v.no = w.no => v = w
  BY DEF Dense
<1>2. \A i \in 1..n : f[i] \in V /\ f[i].no = i
  <2> TAKE i \in 1..n
  <2>1. PICK v \in V : v.no = i
    BY <1>1
  <2> QED
    BY <2>1
<1>3. f \in Bijection(1..n, V)
  <2>1. f \in [1..n -> V]
    BY <1>2
  <2>2. \A v \in V : v.no \in 1..n /\ f[v.no] = v
    <3> TAKE v \in V
    <3>1. v.no \in 1..n
      BY <1>1
    <3> QED
      BY <3>1, <1>1, <1>2
  <2> HIDE DEF f
  <2>3. \A i, j \in 1..n : f[i] = f[j] => i = j
    BY <1>2
  <2>4. IsInjective(f)
    BY <2>1, <2>3 DEF IsInjective
  <2> QED
    BY <2>1, <2>2, <2>4 DEF Bijection, Injection, Surjection
<1>4. ExistsBijection(1..n, V)
  BY <1>3 DEF ExistsBijection
<1>5. IsFiniteSet(1..n) /\ Cardinality(1..n) = n
  BY <1>1, FS_Interval
<1> QED
  BY <1>4, <1>5, FS_Bijection

LEMMA DenseHasLast ==
    ASSUME NEW V, NEW n, Dense(V, n)
    PROVE  Last(V) = n
<1>1. {v.no : v \in V} \cup {0} = 0..n
  BY DEF Dense
<1>2. Max(0..n) = n
  BY DEF Max, Dense
<1> QED
  BY <1>1, <1>2 DEF Last

LEMMA LastIsBounded ==
    ASSUME NEW m \in Nat, NEW V, \A v \in V : v.no \in 1..m
    PROVE  Last(V) \in 0..m
<1> DEFINE T == {v.no : v \in V} \cup {0}
<1>1. T \in SUBSET (0..m) /\ T # {}
  OBVIOUS
<1> QED
  BY <1>1, MaxIsGreatest DEF Last

\* What a version adds that was meant to come after the last.
LEMMA DenseGrows ==
    ASSUME NEW V, NEW n, NEW a, Dense(V, n)
    PROVE  Dense(V \cup {[no |-> n + 1, by |-> a]}, n + 1)
<1> DEFINE x == [no |-> n + 1, by |-> a]
           W == V \cup {x}
<1>1. n \in Nat /\ {v.no : v \in V} = 1..n /\ \A v, w \in V : v.no = w.no => v = w
  BY DEF Dense
<1>2. \A v \in V : v.no \in 1..n
  BY <1>1
<1>3. x.no = n + 1
  OBVIOUS
<1>4. {v.no : v \in W} = 1..(n + 1)
  <2> HIDE DEF x
  <2>1. {v.no : v \in W} = {v.no : v \in V} \cup {n + 1}
    BY <1>3
  <2>2. (1..n) \cup {n + 1} = 1..(n + 1)
    BY <1>1
  <2> QED
    BY <2>1, <2>2, <1>1
<1>5. \A v, w \in W : v.no = w.no => v = w
  BY <1>1, <1>2, <1>3
<1> QED
  BY <1>1, <1>4, <1>5 DEF Dense

LEMMA LastIsNamed ==
    ASSUME NEW V, NEW n, Dense(V, n), NEW u, NamesLast(V, n, u),
           NEW a, NEW named, named = u \/ Precedes(V, named, u)
    PROVE  NamesLast(V \cup {[no |-> n + 1, by |-> a]}, n + 1,
                     IF named = a THEN u ELSE a)
<1> DEFINE x == [no |-> n + 1, by |-> a]
<1>1. x.no = n + 1 /\ x.by = a
  OBVIOUS
<1>2. \A v \in V : v.no \in 1..n
  BY DEF Dense
<1>3. n \in Nat
  BY DEF Dense
<1> HIDE DEF x
<1>4. \A v \in V : v.no < n + 1
  BY <1>2, <1>3
<1>5. NamesLast(V \cup {x}, n + 1, IF named = a THEN u ELSE a)
  <2>1. CASE named # a \/ named = u
    BY <2>1, <1>1 DEF NamesLast
  <2>2. CASE named = a /\ Precedes(V, named, u)
    BY <2>2, <1>1, <1>4 DEF NamesLast, Precedes
  <2> QED
    BY <2>1, <2>2
<1> QED
  BY <1>5 DEF x

LEMMA AuthorsAreKept ==
    ASSUME NEW V, NEW n, Dense(V, n), NEW u, NamesLast(V, n, u),
           NEW a, NEW named, NEW m, m = u \/ Precedes(V, m, u)
    PROVE  LET u2 == IF named = a THEN u ELSE a
           IN  m = u2 \/ Precedes(V \cup {[no |-> n + 1, by |-> a]}, m, u2)
<1> DEFINE x == [no |-> n + 1, by |-> a]
<1>1. x.no = n + 1 /\ x.by = a
  OBVIOUS
<1>2. \A v \in V : v.no \in 1..n
  BY DEF Dense
<1>3. n \in Nat
  BY DEF Dense
<1> HIDE DEF x
<1>4. \A v \in V : v.no < n + 1
  BY <1>2, <1>3
<1>5. CASE named = a
  BY <1>5 DEF Precedes
<1>6. CASE named # a
  <2>1. \E v \in V : v.by = m
    BY DEF NamesLast, Precedes
  <2>2. Precedes(V \cup {x}, m, a)
    BY <2>1, <1>1, <1>4 DEF Precedes
  <2> QED
    BY <1>6, <2>2 DEF x
<1> QED
  BY <1>5, <1>6

LEMMA FirstVersion ==
    ASSUME NEW u
    PROVE  /\ Dense({[no |-> 1, by |-> u]}, 1)
           /\ NamesLast({[no |-> 1, by |-> u]}, 1, u)
BY DEF Dense, NamesLast

-----------------------------------------------------------------------------
(* The states of chains and requests.                                      *)

ChainRow == [exists : BOOLEAN, versions : SUBSET [no : 1..MaxVersions, by : Writers],
             updatedBy : Writers \cup {Nobody}, life : Nat, stray : BOOLEAN]

Step == {"idle", "insert chain", "read latest", "insert version", "test", "check run",
         "record", "check", "optimize", "compress", "write log", "write latest"}
Result == {"", "not configured", "no token", "unsupported", "no answer",
           "optimized", "heuristic", "compressed"}
Verdict == [used : BOOLEAN, level : 0..3, severity : 0..3]

RequestRow ==
    [pc : Step, chain : ChainNames \cup {Nobody}, by : Writers \cup {Nobody},
     named : Writers \cup {Nobody}, life : Nat, no : Nat,
     safety : Verdict \cup {Nobody}, result : Result, serial : Nat]

ChainTypes ==
    /\ chain \in [ChainNames -> ChainRow]
    /\ chainRequest \in [ChainRequests -> RequestRow]

\* A chain that exists has versions from 1 without a gap and names their last
\* author, but for the one exception.
WholeChain(k) ==
    /\ k.exists <=> k.versions # {}
    /\ k.exists => k.updatedBy \in Writers
    /\ k.stray => k.exists
    /\ k.exists /\ ~k.stray =>
          Dense(k.versions, Last(k.versions))
          /\ NamesLast(k.versions, Last(k.versions), k.updatedBy)

\* What r has read of chain k is what the chain said then, and not later.
ReadEarlier(k, r) ==
    /\ r.by \in Writers /\ r.named \in Writers /\ r.life <= k.life
    /\ r.pc = "insert version" => r.no \in 1..MaxVersions
    /\ r.life = k.life =>
          /\ k.exists
          /\ ~k.stray => r.named = k.updatedBy \/ Precedes(k.versions, r.named, k.updatedBy)
          /\ ~k.stray /\ r.pc = "insert version" => r.no <= Last(k.versions) + 1

RequestSound(c, r) ==
    /\ r.pc # "idle" => r.chain \in ChainNames
    /\ r.pc = "insert chain" => r.by \in Writers
    /\ r.pc \in {"read latest", "insert version"} => ReadEarlier(c[r.chain], r)
    /\ r.pc \in {"check", "check run", "test", "optimize", "compress", "record",
                 "write log", "write latest"} => r.no \in 1..MaxVersions
    /\ r.pc = "record" => r.safety \in Verdict

ChainInv ==
    /\ ChainTypes
    /\ \A c \in ChainNames : WholeChain(chain[c])
    /\ \A q \in ChainRequests : RequestSound(chain, chainRequest[q])

LEMMA IdleIsSound == IdleChainRequest \in RequestRow /\ RequestSound(chain, IdleChainRequest)
<1>1. IdleChainRequest \in RequestRow
  BY DEF IdleChainRequest, RequestRow, Step, Result
<1>2. IdleChainRequest.pc = "idle"
  BY DEF IdleChainRequest
<1> QED
  BY <1>1, <1>2 DEF RequestSound

\* A step of one request that leaves the chains alone.
LEMMA OneRequest ==
    ASSUME ChainInv, NEW q \in ChainRequests, NEW r \in RequestRow,
           RequestSound(chain, r), SetChain(q, r), UNCHANGED chain
    PROVE  ChainInv'
BY DEF ChainInv, ChainTypes, SetChain

LEMMA RequestAnswered ==
    ASSUME ChainInv, NEW q \in ChainRequests, AnswerChain(q), UNCHANGED chain
    PROVE  ChainInv'
BY OneRequest, IdleIsSound DEF AnswerChain

LEMMA NothingChanges ==
    ASSUME ChainInv, UNCHANGED <<chain, chainRequest>>
    PROVE  ChainInv'
BY DEF ChainInv, ChainTypes

LEMMA InitIsSound == PromptChainsInit => ChainInv
BY IdleIsSound DEF PromptChainsInit, ChainInv, ChainTypes, NoChain, ChainRow, WholeChain

\* A step that changes one chain and answers its request.
LEMMA OneChain ==
    ASSUME ChainInv, NEW q \in ChainRequests, AnswerChain(q),
           NEW c \in ChainNames, NEW k \in ChainRow, WholeChain(k),
           chain' = [chain EXCEPT ![c] = k],
           \A p \in ChainRequests :
              /\ chainRequest[p].pc \in {"read latest", "insert version"}
              /\ chainRequest[p].chain = c
              => ReadEarlier(k, chainRequest[p])
    PROVE  ChainInv'
<1>1. ChainTypes'
  BY IdleIsSound DEF ChainInv, ChainTypes, AnswerChain, SetChain
<1>2. \A d \in ChainNames : chain'[d] = IF d = c THEN k ELSE chain[d]
  BY DEF ChainInv, ChainTypes
<1>3. \A d \in ChainNames : WholeChain(chain'[d])
  BY <1>2 DEF ChainInv
<1>4. ASSUME NEW p \in ChainRequests
      PROVE  RequestSound(chain', chainRequest'[p])
  <2>1. CASE p = q
    BY <2>1, IdleIsSound DEF ChainInv, ChainTypes, AnswerChain, SetChain,
       IdleChainRequest, RequestSound
  <2>2. CASE p # q
    <3>1. chainRequest'[p] = chainRequest[p]
      BY <2>2 DEF ChainInv, ChainTypes, AnswerChain, SetChain
    <3>2. RequestSound(chain, chainRequest[p])
      BY DEF ChainInv
    <3> QED
      BY <1>2, <3>1, <3>2 DEF RequestSound
  <2> QED
    BY <2>1, <2>2
<1> QED
  BY <1>1, <1>3, <1>4 DEF ChainInv

-----------------------------------------------------------------------------
(* Each step on chains and versions.                                       *)

LEMMA CheckNewChainKeeps ==
    ASSUME ChainInv, NEW q \in ChainRequests, CheckNewChain(q)
    PROVE  ChainInv'
<1>1. PICK c \in ChainNames, u \in Writers :
        SetChain(q, [IdleChainRequest EXCEPT !.pc = "insert chain", !.chain = c, !.by = u])
  BY DEF CheckNewChain
<1> DEFINE r == [IdleChainRequest EXCEPT !.pc = "insert chain", !.chain = c, !.by = u]
<1>4. r \in RequestRow
  BY DEF IdleChainRequest, RequestRow, Step, Result
<1>5. r.pc = "insert chain" /\ r.chain = c /\ r.by = u
  BY DEF IdleChainRequest
<1> HIDE DEF r
<1>2. RequestSound(chain, r)
  BY <1>5 DEF RequestSound
<1>3. SetChain(q, r) /\ UNCHANGED chain
  BY <1>1 DEF r, CheckNewChain
<1> QED
  BY <1>2, <1>3, <1>4, OneRequest

LEMMA InsertChainKeeps ==
    ASSUME ChainInv, NEW q \in ChainRequests, InsertChain(q)
    PROVE  ChainInv'
<1> DEFINE r == chainRequest[q]
           c == r.chain
           k == NewChain(r.by, chain[c].life)
<1>1. /\ c \in ChainNames /\ r.by \in Writers /\ AnswerChain(q)
      /\ chain[c] \in ChainRow
  BY DEF InsertChain, ChainInv, ChainTypes, RequestSound
<1>2. CASE chain[c].exists
  BY <1>1, <1>2, RequestAnswered DEF InsertChain
<1>3. CASE ~chain[c].exists
  <2>1. k \in ChainRow
    BY <1>1, PromptChainsAssumption DEF NewChain, ChainRow
  <2>2. WholeChain(k)
    <3>1. /\ k.exists = TRUE /\ k.versions = {[no |-> 1, by |-> r.by]}
          /\ k.updatedBy = r.by
      BY DEF NewChain
    <3>2. Last({[no |-> 1, by |-> r.by]}) = 1
      BY FirstVersion, DenseHasLast
    <3> QED
      BY <1>1, <3>1, <3>2, FirstVersion DEF WholeChain
  <2>3. chain' = [chain EXCEPT ![c] = k]
    BY <1>3 DEF InsertChain
  <2>4. ASSUME NEW p \in ChainRequests,
               chainRequest[p].pc \in {"read latest", "insert version"},
               chainRequest[p].chain = c
        PROVE  ReadEarlier(k, chainRequest[p])
    <3>1. ReadEarlier(chain[c], chainRequest[p])
      BY <2>4 DEF ChainInv, RequestSound
    <3>2. chainRequest[p].life # chain[c].life
      BY <3>1, <1>3 DEF ReadEarlier
    <3>3. k.life = chain[c].life
      BY DEF NewChain
    <3> QED
      BY <3>1, <3>2, <3>3 DEF ReadEarlier
  <2> HIDE DEF k, c
  <2> QED
    BY <1>1, <2>1, <2>2, <2>3, <2>4, OneChain
<1> QED
  BY <1>2, <1>3

LEMMA LoadChainKeeps ==
    ASSUME ChainInv, NEW q \in ChainRequests, LoadChain(q)
    PROVE  ChainInv'
<1>1. PICK c \in ChainNames, u \in Writers :
        /\ chain[c].exists
        /\ SetChain(q, [IdleChainRequest EXCEPT !.pc = "read latest", !.chain = c,
                            !.by = u, !.named = chain[c].updatedBy,
                            !.life = chain[c].life])
  BY DEF LoadChain
<1> DEFINE r == [IdleChainRequest EXCEPT !.pc = "read latest", !.chain = c,
                            !.by = u, !.named = chain[c].updatedBy,
                            !.life = chain[c].life]
<1>2. chain[c] \in ChainRow /\ chain[c].updatedBy \in Writers
  BY <1>1 DEF ChainInv, ChainTypes, WholeChain
<1>3. r \in RequestRow
  BY <1>2 DEF IdleChainRequest, RequestRow, ChainRow, Step, Result
<1>4. /\ r.pc = "read latest" /\ r.chain = c /\ r.by = u
      /\ r.named = chain[c].updatedBy /\ r.life = chain[c].life
  BY DEF IdleChainRequest
<1> HIDE DEF r
<1>8. chain[c].life \in Nat
  BY <1>2 DEF ChainRow
<1>9. r.life <= chain[c].life /\ r.pc # "insert version"
  <2>1. r.life = chain[c].life
    BY <1>4
  <2>2. r.life <= chain[c].life
    BY ONLY <2>1, <1>8
  <2> QED
    BY <1>4, <2>2
<1>5. ReadEarlier(chain[c], r)
  BY <1>1, <1>2, <1>4, <1>9 DEF ReadEarlier
<1>6. RequestSound(chain, r)
  BY <1>4, <1>5 DEF RequestSound
<1>7. SetChain(q, r) /\ UNCHANGED chain
  BY <1>1 DEF r, LoadChain
<1> QED
  BY <1>3, <1>6, <1>7, OneRequest

LEMMA VersionNumbers ==
    /\ MaxVersions \in Nat /\ 1 \in 1..MaxVersions
    /\ \A i \in 1..MaxVersions : i \in Nat /\ 1 <= i
<1>1. MaxVersions \in Nat /\ 1 <= MaxVersions
  BY PromptChainsAssumption
<1> QED
  BY ONLY <1>1

LEMMA LastNoIsLast ==
    ASSUME ChainInv, NEW c \in ChainNames
    PROVE  LastNo(c) = Last(chain[c].versions) /\ LastNo(c) \in 0..MaxVersions
<1>1. LastNo(c) = Last(chain[c].versions)
  BY DEF LastNo, Numbers, Last
<1>2. \A v \in chain[c].versions : v.no \in 1..MaxVersions
  BY DEF ChainInv, ChainTypes, ChainRow
<1> QED
  BY <1>1, <1>2, LastIsBounded, PromptChainsAssumption

LEMMA ReadLatestKeeps ==
    ASSUME ChainInv, NEW q \in ChainRequests, ReadLatest(q)
    PROVE  ChainInv'
<1> DEFINE r == chainRequest[q]
           c == r.chain
<1>1. /\ r \in RequestRow /\ r.pc = "read latest" /\ c \in ChainNames
      /\ ReadEarlier(chain[c], r) /\ LastNo(c) < MaxVersions
      /\ chain[c] \in ChainRow
  BY DEF ReadLatest, ChainInv, ChainTypes, RequestSound
<1>2. PICK no \in {LastNo(c) + 1} \cup (IF SameLife(r) THEN {} ELSE {1}) :
         SetChain(q, [r EXCEPT !.pc = "insert version", !.no = no])
  BY DEF ReadLatest
<1>9. LastNo(c) = Last(chain[c].versions) /\ LastNo(c) \in 0..MaxVersions
  BY <1>1, LastNoIsLast
<1>10. \/ no = LastNo(c) + 1
       \/ no = 1 /\ ~SameLife(r)
  <2>1. no \in {LastNo(c) + 1} \cup (IF SameLife(r) THEN {} ELSE {1})
    OBVIOUS
  <2>2. CASE SameLife(r)
    BY ONLY <2>1, <2>2
  <2>3. CASE ~SameLife(r)
    BY ONLY <2>1, <2>3
  <2> QED
    BY <2>2, <2>3
<1>11. no \in 1..MaxVersions /\ no \in Nat
  <2>1. MaxVersions \in Nat /\ 1 <= MaxVersions
    BY PromptChainsAssumption
  <2>2. LastNo(c) < MaxVersions
    BY <1>1
  <2> QED
    BY ONLY <1>9, <1>10, <2>1, <2>2
<1>3. r.life = chain[c].life => no <= Last(chain[c].versions) + 1
  BY <1>9, <1>10 DEF SameLife
<1> DEFINE s == [r EXCEPT !.pc = "insert version", !.no = no]
<1>4. s \in RequestRow
  BY <1>1, <1>11 DEF RequestRow, Step
<1>5. /\ s.pc = "insert version" /\ s.chain = c /\ s.no = no /\ s.by = r.by
      /\ s.named = r.named /\ s.life = r.life
  BY <1>1 DEF RequestRow
<1> HIDE DEF s
<1>6. ReadEarlier(chain[c], s)
  BY <1>1, <1>3, <1>5, <1>11 DEF ReadEarlier
<1>7. RequestSound(chain, s)
  BY <1>1, <1>5, <1>6 DEF RequestSound
<1>8. SetChain(q, s) /\ UNCHANGED chain
  BY <1>2 DEF s, ReadLatest
<1> QED
  BY <1>4, <1>7, <1>8, OneRequest

LEMMA AddedKeeps ==
    ASSUME ChainInv, NEW q \in ChainRequests,
           chainRequest[q].pc = "insert version", ~Refused(chainRequest[q])
    PROVE  /\ Added(chainRequest[q]) \in ChainRow
           /\ WholeChain(Added(chainRequest[q]))
           /\ \A p \in ChainRequests :
                /\ chainRequest[p].pc \in {"read latest", "insert version"}
                /\ chainRequest[p].chain = chainRequest[q].chain
                => ReadEarlier(Added(chainRequest[q]), chainRequest[p])
<1> DEFINE r == chainRequest[q]
           c == r.chain
           k == chain[c]
           V == k.versions
           x == [no |-> r.no, by |-> r.by]
           u == UpdatedBy(r)
           k2 == Added(r)
           n == Last(V)
<1>1. /\ r \in RequestRow /\ c \in ChainNames /\ k \in ChainRow
      /\ ReadEarlier(k, r) /\ WholeChain(k)
  BY DEF ChainInv, ChainTypes, RequestSound
<1>2. k.exists /\ r.no \notin {v.no : v \in V}
  BY DEF Refused, Numbers
<1>3. r.by \in Writers /\ r.named \in Writers /\ r.no \in 1..MaxVersions
  BY <1>1 DEF ReadEarlier
<1>4. u = IF r.named = r.by THEN k.updatedBy ELSE r.by
  BY DEF UpdatedBy
<1>5. u \in Writers
  BY <1>1, <1>2, <1>3, <1>4 DEF WholeChain
<1>6. /\ k2.exists = k.exists /\ k2.life = k.life
      /\ k2.versions = V \cup {x} /\ k2.updatedBy = u
      /\ k2.stray = (k.stray \/ ~SameLife(r))
  BY <1>1 DEF Added, ChainRow
<1>7. x \in [no : 1..MaxVersions, by : Writers]
  BY <1>3
<1>8. (k.stray \/ ~SameLife(r)) \in BOOLEAN
  BY <1>1 DEF SameLife, ChainRow
<1>9. k2 \in ChainRow
  <2> DEFINE W == V \cup {x}
             b == k.stray \/ ~SameLife(r)
  <2>1. k2 = [k EXCEPT !.versions = W, !.updatedBy = u, !.stray = b]
    BY <1>1 DEF Added, ChainRow
  <2>2. W \in SUBSET [no : 1..MaxVersions, by : Writers]
    BY <1>1, <1>7 DEF ChainRow
  <2>3. b \in BOOLEAN
    BY <1>8
  <2> HIDE DEF W, b, u, k, k2
  <2> QED
    BY <1>1, <1>5, <2>1, <2>2, <2>3 DEF ChainRow
<1>10. ASSUME ~k2.stray
       PROVE  /\ Dense(V, n) /\ NamesLast(V, n, k.updatedBy)
              /\ r.no = n + 1
              /\ r.named = k.updatedBy \/ Precedes(V, r.named, k.updatedBy)
              /\ Last(k2.versions) = n + 1
  <2>1. ~k.stray /\ SameLife(r)
    BY <1>6, <1>10, <1>1, <1>8
  <2>2. Dense(V, n) /\ NamesLast(V, n, k.updatedBy)
    BY <2>1, <1>1, <1>2 DEF WholeChain
  <2>3. /\ r.no <= n + 1
        /\ r.named = k.updatedBy \/ Precedes(V, r.named, k.updatedBy)
    BY <2>1, <1>1 DEF ReadEarlier, SameLife
  <2>4. n \in Nat /\ r.no \notin 1..n
    BY <2>2, <1>2 DEF Dense
  <2>5. r.no = n + 1
    <3>1. r.no \in Nat /\ 1 <= r.no
      BY <1>3, VersionNumbers
    <3>2. r.no <= n + 1
      BY <2>3
    <3> HIDE DEF n, r
    <3> QED
      BY ONLY <2>4, <3>1, <3>2
  <2>6. Dense(V \cup {[no |-> n + 1, by |-> r.by]}, n + 1)
    BY <2>2, DenseGrows
  <2>7. Last(k2.versions) = n + 1
    BY <2>5, <2>6, <1>6, DenseHasLast
  <2> QED
    BY <2>2, <2>3, <2>5, <2>7
<1>11. WholeChain(k2)
  <2>1. k2.versions # {}
    BY <1>6
  <2>2. ASSUME ~k2.stray
        PROVE  /\ Dense(k2.versions, Last(k2.versions))
               /\ NamesLast(k2.versions, Last(k2.versions), k2.updatedBy)
    <3> HIDE DEF k2
    <3>1. Dense(V \cup {[no |-> n + 1, by |-> r.by]}, n + 1)
      BY <1>10, <2>2, DenseGrows
    <3>2. NamesLast(V \cup {[no |-> n + 1, by |-> r.by]}, n + 1,
                    IF r.named = r.by THEN k.updatedBy ELSE r.by)
      BY <1>10, <2>2, LastIsNamed
    <3> QED
      BY <3>1, <3>2, <1>4, <1>6, <1>10, <2>2
  <2> HIDE DEF k2, k, u
  <2> QED
    BY <1>2, <1>5, <1>6, <2>1, <2>2 DEF WholeChain
<1>12. ASSUME NEW p \in ChainRequests,
              chainRequest[p].pc \in {"read latest", "insert version"},
              chainRequest[p].chain = c
       PROVE  ReadEarlier(k2, chainRequest[p])
  <2> DEFINE s == chainRequest[p]
  <2>1. ReadEarlier(k, s)
    BY <1>12 DEF ChainInv, RequestSound
  <2>2. ASSUME s.life = k.life, ~k2.stray
        PROVE  s.named = k2.updatedBy \/ Precedes(k2.versions, s.named, k2.updatedBy)
    <3>1. ~k.stray
      BY <2>2, <1>6, <1>1, <1>8
    <3>2. s.named = k.updatedBy \/ Precedes(V, s.named, k.updatedBy)
      BY <2>1, <2>2, <3>1 DEF ReadEarlier
    <3>4. /\ Dense(V, n) /\ NamesLast(V, n, k.updatedBy)
          /\ r.named = k.updatedBy \/ Precedes(V, r.named, k.updatedBy)
      BY <1>10, <2>2
    <3> HIDE DEF k2, s, k, V, n
    <3>3. LET w == IF r.named = r.by THEN k.updatedBy ELSE r.by
          IN  s.named = w \/ Precedes(V \cup {[no |-> n + 1, by |-> r.by]}, s.named, w)
      BY ONLY <3>2, <3>4, AuthorsAreKept
    <3> QED
      BY <3>3, <1>4, <1>6, <1>10, <2>2
  <2>3. ASSUME s.life = k.life, ~k2.stray, s.pc = "insert version"
        PROVE  s.no <= Last(k2.versions) + 1
    <3>1. ~k.stray
      BY <2>3, <1>6, <1>1, <1>8
    <3>2. s.no <= n + 1 /\ s.no \in 1..MaxVersions
      BY <2>1, <2>3, <3>1 DEF ReadEarlier
    <3>3. Last(k2.versions) = n + 1 /\ n \in Nat
      BY <1>10, <2>3 DEF Dense
    <3>4. s.no \in Nat
      BY <3>2, VersionNumbers
    <3> HIDE DEF k2, s, n
    <3> QED
      BY ONLY <3>2, <3>3, <3>4
  <2>4. k2.life = k.life /\ k2.exists
    BY <1>2, <1>6
  <2> HIDE DEF k2, k, s, n, V
  <2>5. /\ s.by \in Writers /\ s.named \in Writers
        /\ s.pc = "insert version" => s.no \in 1..MaxVersions
    BY <2>1 DEF ReadEarlier
  <2>6. s.life <= k2.life
    BY <2>1, <2>4 DEF ReadEarlier
  <2> QED
    BY <2>2, <2>3, <2>4, <2>5, <2>6 DEF ReadEarlier, s
<1> QED
  BY <1>9, <1>11, <1>12

LEMMA InsertVersionKeeps ==
    ASSUME ChainInv, NEW q \in ChainRequests, InsertVersion(q)
    PROVE  ChainInv'
<1> DEFINE r == chainRequest[q]
<1>1. r.chain \in ChainNames /\ r.pc = "insert version" /\ AnswerChain(q)
  BY DEF InsertVersion, ChainInv, RequestSound
<1>2. CASE UNCHANGED chain
  BY <1>1, <1>2, RequestAnswered
<1>3. CASE ~Refused(r) /\ chain' = [chain EXCEPT ![r.chain] = Added(r)]
  BY <1>1, <1>3, AddedKeeps, OneChain
<1> QED
  BY <1>2, <1>3 DEF InsertVersion

-----------------------------------------------------------------------------
(* Test runs and previews.                                                 *)

TestRunRow == [chain : ChainNames, no : 1..MaxVersions, error : Result, severity : 0..3]

RunInv ==
    /\ testRuns \in Seq(TestRunRow) /\ Len(testRuns) <= TestRunLimit
    /\ runCount \in Nat /\ runCount <= MaxTestRuns
    /\ IsFiniteSet(previews)

\* Where a test run or a preview is.
AtWork(r) == r.pc \in {"check", "check run", "test", "optimize", "compress", "record",
                       "write log", "write latest"}

LEMMA AtWorkIsSound ==
    ASSUME NEW r \in RequestRow, AtWork(r), r.chain \in ChainNames,
           r.no \in 1..MaxVersions, r.pc = "record" => r.safety \in Verdict
    PROVE  RequestSound(chain, r)
<1>1. r.pc \notin {"insert chain", "read latest", "insert version"}
  BY DEF AtWork
<1> QED
  BY <1>1 DEF RequestSound

LEMMA WorkerIsSound ==
    ASSUME ChainInv, NEW q \in ChainRequests, AtWork(chainRequest[q])
    PROVE  /\ chainRequest[q] \in RequestRow
           /\ chainRequest[q].chain \in ChainNames
           /\ chainRequest[q].no \in 1..MaxVersions
           /\ chainRequest[q].pc = "record" => chainRequest[q].safety \in Verdict
BY DEF AtWork, ChainInv, ChainTypes, RequestSound

\* A worker goes on to its next step, which is not "record".
LEMMA WorkerGoesOn ==
    ASSUME ChainInv, NEW q \in ChainRequests, AtWork(chainRequest[q]),
           NEW s \in RequestRow, s.pc # "record", AtWork(s),
           s.chain = chainRequest[q].chain, s.no = chainRequest[q].no,
           SetChain(q, s), UNCHANGED chain
    PROVE  ChainInv'
<1>1. /\ s.chain \in ChainNames /\ s.no \in 1..MaxVersions /\ s.pc # "record"
  BY WorkerIsSound
<1> QED
  BY <1>1, AtWorkIsSound, OneRequest

LEMMA ErrorIsResult ==
    ASSUME NEW p, NEW a PROVE CallError(p, a) \in Result
BY DEF CallError, ProfileError, Result

LEMMA SafetyIsVerdict ==
    ASSUME NEW s, NEW a \in Replies PROVE SafetyOf(s, a) \in Verdict
<1>1. [used |-> TRUE, level |-> a.level, severity |-> a.severity] \in Verdict
  BY PromptChainsAssumption DEF Verdict
<1>2. NoVerdict \in Verdict
  BY DEF NoVerdict, Verdict
<1> QED
  BY <1>1, <1>2 DEF SafetyOf

LEMMA SeverityIsLevel ==
    ASSUME NEW s, NEW v \in Verdict PROVE Severity(s, v) \in 0..3
<1>1. v.level \in 0..3 /\ HeuristicLevel \in 0..3
  BY PromptChainsAssumption DEF Verdict
<1>2. Max({HeuristicLevel, v.level}) \in 0..3
  BY <1>1, MaxOfTwo
<1> QED
  BY <1>1, <1>2 DEF Severity

LEMMA BeginKeeps ==
    ASSUME ChainInv, NEW q \in ChainRequests, NEW pc \in {"test", "check"}, Begin(q, pc)
    PROVE  ChainInv'
<1>1. PICK c \in ChainNames : \E i \in Numbers(c) :
        SetChain(q, [IdleChainRequest EXCEPT !.pc = pc, !.chain = c, !.no = i])
  BY DEF Begin
<1>2. PICK n \in Numbers(c) :
        SetChain(q, [IdleChainRequest EXCEPT !.pc = pc, !.chain = c, !.no = n])
  BY <1>1
<1>3. n \in 1..MaxVersions /\ n \in Nat
  BY VersionNumbers DEF Numbers, ChainInv, ChainTypes, ChainRow
<1> DEFINE r == [IdleChainRequest EXCEPT !.pc = pc, !.chain = c, !.no = n]
<1>4. r \in RequestRow
  BY <1>3 DEF IdleChainRequest, RequestRow, Step, Result
<1>5. r.pc = pc /\ r.chain = c /\ r.no = n
  BY DEF IdleChainRequest
<1>6. SetChain(q, r) /\ UNCHANGED chain
  BY <1>2 DEF Begin
<1> HIDE DEF r
<1>7. AtWork(r) /\ r.pc # "record"
  BY <1>5 DEF AtWork
<1>8. RequestSound(chain, r)
  BY <1>3, <1>4, <1>5, <1>7, AtWorkIsSound
<1> QED
  BY <1>4, <1>6, <1>8, OneRequest

\* The three calls of a model that only give a result.
LEMMA CallKeeps ==
    ASSUME ChainInv, NEW q \in ChainRequests, AtWork(chainRequest[q]),
           NEW pc \in {"check run", "compress", "write log"}, NEW x \in Result,
           SetChain(q, [chainRequest[q] EXCEPT !.pc = pc, !.result = x]),
           UNCHANGED chain
    PROVE  ChainInv'
<1> DEFINE r == chainRequest[q]
           s == [r EXCEPT !.pc = pc, !.result = x]
<1>1. r \in RequestRow
  BY WorkerIsSound
<1>2. s \in RequestRow
  BY <1>1 DEF RequestRow, Step
<1>3. s.pc = pc /\ s.chain = r.chain /\ s.no = r.no
  BY <1>1 DEF RequestRow
<1>4. SetChain(q, s)
  OBVIOUS
<1> HIDE DEF s
<1>5. AtWork(s) /\ s.pc # "record"
  BY <1>3 DEF AtWork
<1> QED
  BY <1>2, <1>3, <1>4, <1>5, WorkerGoesOn

LEMMA CallTestedKeeps ==
    ASSUME ChainInv, NEW q \in ChainRequests, CallTested(q)
    PROVE  ChainInv'
<1>1. PICK a \in Replies :
        IF Raises(Profile(llm, "test"), a) THEN AnswerChain(q)
        ELSE SetChain(q, [chainRequest[q] EXCEPT !.pc = "check run",
                              !.result = CallError(Profile(llm, "test"), a)])
  BY DEF CallTested
<1>2. AtWork(chainRequest[q]) /\ UNCHANGED chain
  BY DEF CallTested, AtWork
<1>3. CASE AnswerChain(q)
  BY <1>2, <1>3, RequestAnswered
<1>4. CASE SetChain(q, [chainRequest[q] EXCEPT !.pc = "check run",
                              !.result = CallError(Profile(llm, "test"), a)])
  BY <1>2, <1>4, ErrorIsResult, CallKeeps
<1> QED
  BY <1>1, <1>3, <1>4

LEMMA CallOptimizerKeeps ==
    ASSUME ChainInv, NEW q \in ChainRequests, CallOptimizer(q)
    PROVE  ChainInv'
<1> DEFINE p == Profile(llm, "optimizer")
<1>1. PICK a \in Replies :
        IF Raises(p, a) THEN AnswerChain(q)
        ELSE SetChain(q, [chainRequest[q] EXCEPT !.pc = "compress", !.result =
                              IF Invoked(p, a) THEN "optimized" ELSE "heuristic"])
  BY DEF CallOptimizer
<1> DEFINE x == IF Invoked(p, a) THEN "optimized" ELSE "heuristic"
<1>2. AtWork(chainRequest[q]) /\ UNCHANGED chain /\ x \in Result
  BY DEF CallOptimizer, AtWork, Result
<1>3. CASE AnswerChain(q)
  BY <1>2, <1>3, RequestAnswered
<1>4. CASE SetChain(q, [chainRequest[q] EXCEPT !.pc = "compress", !.result = x])
  <2> HIDE DEF x
  <2> QED
    BY <1>2, <1>4, CallKeeps
<1> QED
  BY <1>1, <1>3, <1>4

LEMMA CallCompressionKeeps ==
    ASSUME ChainInv, NEW q \in ChainRequests, CallCompression(q)
    PROVE  ChainInv'
<1> DEFINE p == Profile(llm, "compression")
           r == chainRequest[q]
<1>1. PICK a \in Replies :
        IF Raises(p, a) THEN AnswerChain(q)
        ELSE SetChain(q, [r EXCEPT !.pc = "write log", !.result =
                              IF Invoked(p, a) THEN "compressed" ELSE @])
  BY DEF CallCompression
<1> DEFINE x == IF Invoked(p, a) THEN "compressed" ELSE r.result
<1>2. AtWork(r) /\ UNCHANGED chain
  BY DEF CallCompression, AtWork
<1>3. r \in RequestRow
  BY <1>2, WorkerIsSound
<1>4. x \in Result
  BY <1>3 DEF RequestRow, Result
<1>5. CASE AnswerChain(q)
  BY <1>2, <1>5, RequestAnswered
<1>6. CASE ~Raises(p, a)
  <2>1. SetChain(q, [r EXCEPT !.pc = "write log", !.result = x])
    BY <1>1, <1>6, <1>3 DEF RequestRow
  <2> HIDE DEF x
  <2> QED
    BY <1>2, <1>4, <2>1, CallKeeps
<1> QED
  BY <1>1, <1>5, <1>6

LEMMA CheckSafetyKeeps ==
    ASSUME ChainInv, NEW q \in ChainRequests, CheckSafety(q)
    PROVE  ChainInv'
<1> DEFINE r == chainRequest[q]
           pc == IF r.pc = "check" THEN "optimize" ELSE "record"
<1>1. PICK a \in Replies :
        SetChain(q, [r EXCEPT !.safety = SafetyOf(llm, a), !.pc = pc])
  BY DEF CheckSafety
<1>2. AtWork(r) /\ UNCHANGED chain
  BY DEF CheckSafety, AtWork
<1>3. r \in RequestRow /\ r.chain \in ChainNames /\ r.no \in 1..MaxVersions
  BY <1>2, WorkerIsSound
<1> DEFINE v == SafetyOf(llm, a)
           s == [r EXCEPT !.safety = v, !.pc = pc]
<1>4. v \in Verdict
  BY SafetyIsVerdict
<1>5. pc \in {"optimize", "record"}
  OBVIOUS
<1> HIDE DEF v, pc
<1>6. s \in RequestRow
  BY <1>3, <1>4, <1>5 DEF RequestRow, Step
<1>7. s.pc = pc /\ s.chain = r.chain /\ s.no = r.no /\ s.safety = v
  BY <1>3 DEF RequestRow
<1>8. SetChain(q, s)
  BY <1>1 DEF v, pc
<1> HIDE DEF s
<1>9. AtWork(s)
  BY <1>5, <1>7 DEF AtWork
<1>10. RequestSound(chain, s)
  BY <1>3, <1>4, <1>6, <1>7, <1>9, AtWorkIsSound
<1> QED
  BY <1>2, <1>6, <1>8, <1>10, OneRequest

LEMMA WriteLogKeeps ==
    ASSUME ChainInv, RunInv, NEW q \in ChainRequests, WriteLog(q)
    PROVE  ChainInv'
<1> DEFINE r == chainRequest[q]
           i == Cardinality(previews) + 1
           s == [r EXCEPT !.pc = "write latest", !.serial = i]
<1>1. AtWork(r) /\ UNCHANGED chain /\ SetChain(q, s)
  BY DEF WriteLog, AtWork
<1>2. r \in RequestRow
  BY <1>1, WorkerIsSound
<1>3. i \in Nat
  BY FS_CardinalityType DEF RunInv
<1> HIDE DEF i
<1>4. s \in RequestRow
  BY <1>2, <1>3 DEF RequestRow, Step
<1>5. s.pc = "write latest" /\ s.chain = r.chain /\ s.no = r.no
  BY <1>2 DEF RequestRow
<1> HIDE DEF s
<1>6. AtWork(s) /\ s.pc # "record"
  BY <1>5 DEF AtWork
<1> QED
  BY <1>1, <1>3, <1>4, <1>5, <1>6, WorkerGoesOn

LEMMA RunsAreKept ==
    ASSUME RunInv, UNCHANGED <<testRuns, previews, runCount>>
    PROVE  RunInv'
BY DEF RunInv

\* The newest n of a sequence, as a deque with a maximal length keeps them.
LEMMA LastOfIsBounded ==
    ASSUME NEW S, NEW s \in Seq(S), NEW n \in Nat \ {0}, s # << >>
    PROVE  LastOf(s, n) \in Seq(S) /\ Len(LastOf(s, n)) <= n
<1> DEFINE m == IF 1 >= Len(s) - n + 1 THEN 1 ELSE Len(s) - n + 1
<1>1. Max({1, Len(s) - n + 1}) = m
  BY MaxOfTwo
<1>2. Len(s) \in Nat /\ Len(s) >= 1
  OBVIOUS
<1>3. m \in 1..Len(s) /\ Len(s) - m + 1 <= n
  BY <1>2
<1> HIDE DEF m
<1>4. SubSeq(s, m, Len(s)) \in Seq(S) /\ Len(SubSeq(s, m, Len(s))) = Len(s) - m + 1
  BY <1>2, <1>3
<1> QED
  BY <1>1, <1>3, <1>4 DEF LastOf

LEMMA RecordRunKeeps ==
    ASSUME ChainInv, RunInv, NEW q \in ChainRequests, RecordRun(q)
    PROVE  ChainInv' /\ RunInv'
<1> DEFINE r == chainRequest[q]
           x == [chain |-> r.chain, no |-> r.no, error |-> r.result,
                 severity |-> Severity(llm, r.safety)]
           s == Append(testRuns, x)
<1>1. r.pc = "record" /\ AtWork(r) /\ AnswerChain(q) /\ UNCHANGED chain
  BY DEF RecordRun, AtWork
<1>2. r \in RequestRow /\ r.chain \in ChainNames /\ r.no \in 1..MaxVersions
      /\ r.safety \in Verdict
  BY <1>1, WorkerIsSound
<1>3. Severity(llm, r.safety) \in 0..3 /\ r.result \in Result
  BY <1>2, SeverityIsLevel DEF RequestRow
<1>4. x \in TestRunRow
  BY <1>2, <1>3 DEF TestRunRow
<1> HIDE DEF x
<1>5. s \in Seq(TestRunRow) /\ s # << >>
  BY <1>4 DEF RunInv
<1>6. testRuns' = LastOf(s, TestRunLimit) /\ UNCHANGED <<previews, runCount>>
  BY DEF RecordRun, x
<1> HIDE DEF s
<1>7. TestRunLimit \in Nat \ {0}
  BY PromptChainsAssumption
<1>8. RunInv'
  BY <1>5, <1>6, <1>7, LastOfIsBounded DEF RunInv
<1> QED
  BY <1>1, <1>8, RequestAnswered

LEMMA RunStepKeeps ==
    ASSUME ChainInv, RunInv, NEW q \in ChainRequests, RunStep(q)
    PROVE  ChainInv' /\ RunInv'
<1>1. CASE BeginTestRun(q) \/ BeginPreview(q)
  <2>1. RunInv'
    <3>1. runCount < MaxTestRuns /\ runCount' = runCount + 1
      BY <1>1 DEF BeginTestRun, BeginPreview, Begin
    <3>2. UNCHANGED <<testRuns, previews>>
      BY <1>1 DEF BeginTestRun, BeginPreview, Begin
    <3>3. MaxTestRuns \in Nat /\ runCount \in Nat
      BY PromptChainsAssumption DEF RunInv
    <3>4. runCount' \in Nat /\ runCount' <= MaxTestRuns
      BY ONLY <3>1, <3>3
    <3> QED
      BY <3>2, <3>4 DEF RunInv
  <2> QED
    BY <1>1, <2>1, BeginKeeps DEF BeginTestRun, BeginPreview
<1>2. CASE CallTested(q)
  BY <1>2, CallTestedKeeps, RunsAreKept DEF CallTested, runVars
<1>3. CASE CheckSafety(q)
  BY <1>3, CheckSafetyKeeps, RunsAreKept DEF CheckSafety, runVars
<1>4. CASE RecordRun(q)
  BY <1>4, RecordRunKeeps
<1>5. CASE CallOptimizer(q)
  BY <1>5, CallOptimizerKeeps, RunsAreKept DEF CallOptimizer, runVars
<1>6. CASE CallCompression(q)
  BY <1>6, CallCompressionKeeps, RunsAreKept DEF CallCompression, runVars
<1>7. CASE WriteLog(q)
  <2>1. RunInv'
    <3> DEFINE x == [chain |-> chainRequest[q].chain, no |-> chainRequest[q].no,
                     text |-> chainRequest[q].result, note |-> Note(chainRequest[q]),
                     serial |-> Cardinality(previews) + 1]
    <3>1. previews' = previews \cup {x} /\ UNCHANGED <<testRuns, runCount>>
      BY <1>7 DEF WriteLog
    <3> HIDE DEF x
    <3>2. IsFiniteSet(previews \cup {x})
      BY FS_AddElement DEF RunInv
    <3> QED
      BY <3>1, <3>2 DEF RunInv
  <2> QED
    BY <1>7, <2>1, WriteLogKeeps
<1>8. CASE WriteLatest(q)
  BY <1>8, RequestAnswered, RunsAreKept DEF WriteLatest
<1> QED
  BY <1>1, <1>2, <1>3, <1>4, <1>5, <1>6, <1>7, <1>8 DEF RunStep

LEMMA ChainStepKeeps ==
    ASSUME ChainInv, NEW q \in ChainRequests, ChainStep(q)
    PROVE  ChainInv' /\ UNCHANGED runVars
<1>1. ChainInv'
  BY CheckNewChainKeeps, InsertChainKeeps, LoadChainKeeps, ReadLatestKeeps,
     InsertVersionKeeps DEF ChainStep
<1>2. UNCHANGED runVars
  BY DEF ChainStep, CheckNewChain, InsertChain, LoadChain, ReadLatest, InsertVersion
<1> QED
  BY <1>1, <1>2

-----------------------------------------------------------------------------
(* The theorems about PromptChains.                                        *)

LEMMA WholeChainsNameTheirAuthor ==
    ChainInv => ChainsNameTheirLastAuthor
<1> SUFFICES ASSUME ChainInv, NEW c \in ChainNames, chain[c].exists, ~chain[c].stray
             PROVE  LET last == VersionNo(c, LastNo(c))
                    IN  /\ Numbers(c) = 1..Cardinality(chain[c].versions)
                        /\ \/ chain[c].updatedBy = last.by
                           \/ \E v, w \in chain[c].versions :
                                /\ v.no < w.no /\ w.no < last.no
                                /\ v.by = last.by /\ w.by = chain[c].updatedBy
  BY DEF ChainsNameTheirLastAuthor
<1> DEFINE V == chain[c].versions
           n == Last(V)
           u == chain[c].updatedBy
<1>1. Dense(V, n) /\ NamesLast(V, n, u)
  BY DEF ChainInv, WholeChain
<1>2. LastNo(c) = n
  BY LastNoIsLast
<1>3. Numbers(c) = 1..n
  BY <1>1 DEF Numbers, Dense
<1>4. Cardinality(V) = n
  BY <1>1, DenseIsFinite
<1>5. VersionNo(c, n) = CHOOSE v \in V : v.no = n
  BY DEF VersionNo
<1> HIDE DEF V, n, u
<1>6. PICK last \in V :
        /\ last.no = n
        /\ \/ u = last.by
           \/ \E v, w \in V : v.no < w.no /\ w.no < n /\ v.by = last.by /\ w.by = u
  BY <1>1 DEF NamesLast
<1>7. VersionNo(c, n) = last
  <2>1. \A v \in V : v.no = n => v = last
    BY <1>1, <1>6 DEF Dense
  <2> QED
    BY <1>5, <1>6, <2>1
<1> QED
  BY <1>2, <1>3, <1>4, <1>6, <1>7 DEF V, u

LEMMA ChainsStep ==
    ASSUME ChainInv, RunInv, [PromptChainsNext]_chainVars
    PROVE  ChainInv' /\ RunInv'
<1>1. CASE UNCHANGED chainVars
  BY <1>1, NothingChanges, RunsAreKept DEF chainVars
<1>2. CASE ChangeLLMSettings
  BY <1>2, NothingChanges, RunsAreKept DEF ChangeLLMSettings
<1>3. ASSUME NEW q \in ChainRequests, ChainStep(q)
      PROVE  ChainInv' /\ RunInv'
  BY <1>3, ChainStepKeeps, RunsAreKept DEF runVars
<1>4. ASSUME NEW q \in ChainRequests, RunStep(q)
      PROVE  ChainInv' /\ RunInv'
  BY <1>4, RunStepKeeps
<1> QED
  BY <1>1, <1>2, <1>3, <1>4 DEF PromptChainsNext

THEOREM ChainInvariants == PromptChainsSpec => [](ChainInv /\ RunInv)
<1>1. PromptChainsInit => ChainInv /\ RunInv
  <2>1. PromptChainsInit => RunInv
    BY FS_EmptySet, PromptChainsAssumption DEF PromptChainsInit, RunInv
  <2> QED
    BY <2>1, InitIsSound
<1>2. ChainInv /\ RunInv /\ [PromptChainsNext]_chainVars => (ChainInv /\ RunInv)'
  BY ChainsStep
<1> QED
  BY <1>1, <1>2, PTL DEF PromptChainsSpec

\* add_prompt_chain_version: however the requests interleave between reading the
\* latest number and inserting the next one, a chain's versions stay numbered from
\* 1 without a gap, and the chain names the author of the last one, but for the
\* author whose name SQLAlchemy does not write again.
THEOREM LastAuthors == PromptChainsSpec => []ChainsNameTheirLastAuthor
BY ChainInvariants, WholeChainsNameTheirAuthor, PTL

\* The rows keep their types, a chain without versions does not exist, and the
\* test runs kept in memory stay within their limit.
THEOREM ChainTypeCorrect == PromptChainsSpec => []PromptChainsTypeOK
<1>1. ChainInv /\ RunInv => PromptChainsTypeOK
  BY DEF ChainInv, ChainTypes, ChainRow, WholeChain, RunInv, PromptChainsTypeOK
<1> QED
  BY <1>1, ChainInvariants, PTL

-----------------------------------------------------------------------------
(* The script: what it knows at each step.                                 *)

SeedPc == {"off", "reset", "user", "access", "thread", "messages", "chain",
           "insert chain", "versions", "add", "insert version", "done", "failed"}

SpecRow == [name : ChainNames, versions : Nat]
Demo == [name |-> DemoChain, versions |-> DemoVersions]
Synthetic(scale) == [name |-> SyntheticChain, versions |-> Max({2, scale})]
Given(projects) == [exists |-> TRUE, asGiven |-> TRUE, access |-> projects]

SeedTypes ==
    /\ seed \in [pc : SeedPc, runs : Nat, scale : Nat, todo : Seq(SpecRow),
                 missing : SUBSET Nat]
    /\ largest \in Nat /\ seed.scale <= largest
    /\ touched \in [chains : Nat, user : Nat]
    /\ demoUser \in [exists : BOOLEAN, asGiven : BOOLEAN, access : SUBSET Projects]

\* The thread is made once and filled before the chains are.
ThreadsOK ==
    /\ demoThreads \in {<< >>, <<FALSE>>, <<TRUE>>}
    /\ seed.pc = "messages" => demoThreads # << >>
    /\ seed.pc \in {"chain", "insert chain", "versions", "add", "insert version", "done"}
          => demoThreads = <<TRUE>>

\* Between the two commits of the demo user it has no projects.
UserOK ==
    touched.user = 0 =>
        /\ demoUser \in {NoUser, Given({}), Given(DemoAccess)}
        /\ seed.pc = "access" => demoUser = Given({})
        /\ seed.pc \in {"thread", "messages", "chain", "insert chain", "versions", "add",
                        "insert version", "done"} => demoUser = Given(DemoAccess)

\* What the script is waiting for in crud/prompt_versioning.py.
SlotOK ==
    LET r == chainRequest[SeedSlot]
    IN  /\ seed.pc \notin {"insert chain", "insert version"} => r.pc = "idle"
        /\ seed.pc = "insert chain" => r.pc = "insert chain" /\ r.chain = Spec1.name
        /\ seed.pc = "insert version" =>
              /\ r.pc \in {"read latest", "insert version"}
              /\ r.chain = Spec1.name /\ SameLife(r)

NumbersOf(k) == {v.no : v \in k.versions}

\* Chain k has n versions at least.
Covers(k, n) == ~k.stray => 1..n \subseteq NumbersOf(k)
Covered(ch, s) == Covers(ch[s.name], s.versions)

\* What is left of the chains of a scale; the others have their versions.
Rest(ch, scale, todo) ==
    \/ todo = ChainSpecs(scale)
    \/ scale # 0 /\ todo = <<Synthetic(scale)>> /\ Covered(ch, Demo)
    \/ todo = << >> /\ Covered(ch, Demo) /\ (scale # 0 => Covered(ch, Synthetic(scale)))

WorkOK ==
    /\ seed.pc \in {"reset", "user", "access", "thread", "messages"}
          => seed.todo = ChainSpecs(seed.scale)
    /\ seed.pc \in {"chain", "insert chain", "versions", "add", "insert version", "done"}
          => Rest(chain, seed.scale, seed.todo)
    /\ seed.pc \in {"insert chain", "versions", "add", "insert version"} => seed.todo # << >>
    /\ seed.pc = "done" => seed.todo = << >>
    /\ seed.pc \in {"versions", "add", "insert version"} => chain[Spec1.name].exists

\* A number that is not missing any more is there, or will be with the next insert.
AddSound(k, n, missing) ==
    ~k.stray => \A i \in (1..n) \ missing : i \in NumbersOf(k)
InsertSound(k, n, missing) ==
    ~k.stray => \A i \in (1..n) \ missing : i = 1 \/ i - 1 \in NumbersOf(k)

MissingOK ==
    /\ seed.pc \in {"add", "insert version"} => seed.missing \subseteq 1..Spec1.versions
    /\ seed.pc = "add" => AddSound(chain[Spec1.name], Spec1.versions, seed.missing)
    /\ seed.pc = "insert version" =>
          InsertSound(chain[Spec1.name], Spec1.versions, seed.missing)

\* While no user has touched a chain the script finds what it has left.
OwnChains(ch, limit) ==
    /\ \A c \in ChainNames :
          ~ch[c].stray /\ (ch[c].exists => c \in {DemoChain, SyntheticChain})
    /\ NumbersOf(ch[DemoChain]) \subseteq 1..DemoVersions
    /\ NumbersOf(ch[SyntheticChain]) \subseteq 1..Max({2, limit})

\* The version that the script is about to insert is the next one.
OwnInsert(k, n, missing, r) ==
    /\ Last(k.versions) + 1 \in (1..n) \ missing
    /\ r.pc = "insert version" => r.no = Last(k.versions) + 1

AloneOK ==
    touched.chains = 0 =>
        /\ \A q \in ChainRequests \ {SeedSlot} : chainRequest[q].pc = "idle"
        /\ OwnChains(chain, largest)
        /\ seed.pc = "insert chain" => ~chain[Spec1.name].exists
        /\ seed.pc \in {"add", "insert version"} =>
              seed.missing \cap NumbersOf(chain[Spec1.name]) = {}
        /\ seed.pc = "insert version" =>
              OwnInsert(chain[Spec1.name], Spec1.versions, seed.missing,
                        chainRequest[SeedSlot])

FailedOK == seed.pc = "failed" => touched.chains + touched.user > 0

SeedInv ==
    /\ ChainInv /\ SeedTypes /\ ThreadsOK /\ UserOK /\ SlotOK /\ WorkOK
    /\ MissingOK /\ AloneOK /\ FailedOK

LEMMA SpecsAreRows ==
    ASSUME NEW scale \in Nat
    PROVE  /\ Demo \in SpecRow /\ Synthetic(scale) \in SpecRow
           /\ Demo.name = DemoChain /\ Demo.versions = DemoVersions
           /\ Synthetic(scale).name = SyntheticChain
           /\ Synthetic(scale).versions = Max({2, scale})
           /\ Max({2, scale}) \in Nat /\ Max({2, scale}) >= 2
           /\ DemoVersions \in Nat /\ DemoVersions >= 1
<1>1. Max({2, scale}) \in Nat /\ Max({2, scale}) >= 2
  BY MaxOfTwo
<1>2. DemoChain \in ChainNames /\ SyntheticChain \in ChainNames
  BY DemoSeedAssumption
<1>3. DemoVersions \in Nat /\ DemoVersions >= 1
  BY DemoSeedAssumption
<1> QED
  BY <1>1, <1>2, <1>3 DEF Demo, Synthetic, SpecRow

LEMMA TwoInARow ==
    ASSUME NEW S, NEW d \in S, NEW y \in S
    PROVE  <<d>> \o <<y>> = <<d, y>>
<1> DEFINE s == <<d>> \o <<y>>
<1>1. <<d>> \in Seq(S) /\ <<y>> \in Seq(S) /\ <<d, y>> \in Seq(S)
  OBVIOUS
<1>2. s \in Seq(S) /\ Len(s) = 2 /\ s[1] = d /\ s[2] = y
  OBVIOUS
<1>3. Len(<<d, y>>) = 2 /\ <<d, y>>[1] = d /\ <<d, y>>[2] = y
  OBVIOUS
<1> HIDE DEF s
<1>4. \A i \in 1..Len(s) : s[i] = <<d, y>>[i]
  BY <1>2, <1>3
<1>5. s = <<d, y>>
  BY <1>1, <1>2, <1>3, <1>4, SeqEqual
<1> QED
  BY <1>5 DEF s

LEMMA ChainSpecsAre ==
    ASSUME NEW scale \in Nat
    PROVE  /\ ChainSpecs(scale) = IF scale = 0 THEN <<Demo>> ELSE <<Demo, Synthetic(scale)>>
           /\ ChainSpecs(scale) \in Seq(SpecRow) /\ ChainSpecs(scale) # << >>
<1> DEFINE d == Demo
           y == Synthetic(scale)
<1>1. d \in SpecRow /\ y \in SpecRow
  BY SpecsAreRows
<1>2. ChainSpecs(scale) = <<d>> \o (IF scale = 0 THEN << >> ELSE <<y>>)
  BY DEF ChainSpecs, Demo, Synthetic
<1> HIDE DEF d, y
<1>6. <<d>> \o << >> = <<d>>
  BY <1>1
<1>3. <<d>> \o << >> = <<d>> /\ <<d>> \o <<y>> = <<d, y>>
  BY <1>1, <1>6, TwoInARow
<1>4. ChainSpecs(scale) = IF scale = 0 THEN <<d>> ELSE <<d, y>>
  BY <1>2, <1>3
<1>5. <<d>> \in Seq(SpecRow) /\ <<d, y>> \in Seq(SpecRow)
  BY <1>1
<1> QED
  BY <1>4, <1>5 DEF d, y

\* The chain the script is at, and what is left after it.
LEMMA RestHas ==
    ASSUME NEW ch, NEW scale \in Nat, NEW todo, Rest(ch, scale, todo), todo # << >>
    PROVE  /\ \/ Head(todo) = Demo
              \/ scale # 0 /\ Head(todo) = Synthetic(scale)
           /\ Covered(ch, Head(todo)) => Rest(ch, scale, Tail(todo))
           /\ Tail(todo) \in Seq(SpecRow)
<1> DEFINE d == Demo
           y == Synthetic(scale)
<1>1. d \in SpecRow /\ y \in SpecRow
  BY SpecsAreRows
<1>2. ChainSpecs(scale) = IF scale = 0 THEN <<d>> ELSE <<d, y>>
  BY ChainSpecsAre
<1>3. /\ \/ todo = ChainSpecs(scale)
         \/ scale # 0 /\ todo = <<y>> /\ Covered(ch, d)
      /\ \A t : Rest(ch, scale, t) <=>
           \/ t = ChainSpecs(scale)
           \/ scale # 0 /\ t = <<y>> /\ Covered(ch, d)
           \/ t = << >> /\ Covered(ch, d) /\ (scale # 0 => Covered(ch, y))
  BY DEF Rest
<1> HIDE DEF d, y
<1>4. CASE scale = 0
  <2>1. todo = <<d>>
    BY <1>2, <1>3, <1>4
  <2>2. Head(todo) = d /\ Tail(todo) = << >>
    BY <2>1
  <2>3. << >> \in Seq(SpecRow)
    OBVIOUS
  <2> QED
    BY <1>3, <1>4, <2>2, <2>3 DEF d
<1>5. CASE scale # 0 /\ todo = <<d, y>>
  <2>1. Head(todo) = d /\ Tail(todo) = <<y>>
    BY <1>5
  <2>2. <<y>> \in Seq(SpecRow)
    BY <1>1
  <2> QED
    BY <1>3, <1>5, <2>1, <2>2 DEF d
<1>6. CASE scale # 0 /\ todo = <<y>> /\ Covered(ch, d)
  <2>1. Head(todo) = y /\ Tail(todo) = << >>
    BY <1>6
  <2>2. << >> \in Seq(SpecRow)
    OBVIOUS
  <2> QED
    BY <1>3, <1>6, <2>1, <2>2 DEF y
<1> QED
  BY <1>2, <1>3, <1>4, <1>5, <1>6

Building == {"insert chain", "versions", "add", "insert version"}

LEMMA Spec1Is ==
    ASSUME SeedTypes, WorkOK,
           seed.pc \in Building \/ (seed.pc = "chain" /\ seed.todo # << >>)
    PROVE  /\ seed.todo # << >> /\ Rest(chain, seed.scale, seed.todo)
           /\ \/ Spec1 = Demo
              \/ seed.scale # 0 /\ Spec1 = Synthetic(seed.scale)
           /\ Spec1.name \in {DemoChain, SyntheticChain} /\ Spec1.name \in ChainNames
           /\ Spec1.versions \in Nat /\ Spec1.versions >= 1
<1>1. seed.todo # << >> /\ Rest(chain, seed.scale, seed.todo) /\ seed.scale \in Nat
  BY DEF WorkOK, Building, SeedTypes
<1>2. \/ Spec1 = Demo
      \/ seed.scale # 0 /\ Spec1 = Synthetic(seed.scale)
  BY <1>1, RestHas DEF Spec1
<1>3. DemoChain \in ChainNames /\ SyntheticChain \in ChainNames
  BY DemoSeedAssumption
<1>4. /\ Spec1.name \in {DemoChain, SyntheticChain}
      /\ Spec1.versions \in Nat /\ Spec1.versions >= 1
  <2>1. CASE Spec1 = Demo
    BY <1>1, <2>1, SpecsAreRows
  <2>2. CASE Spec1 = Synthetic(seed.scale)
    <3> DEFINE m == Max({2, seed.scale})
    <3>1. Spec1.name = SyntheticChain /\ Spec1.versions = m /\ m \in Nat /\ m >= 2
      BY <1>1, <2>2, SpecsAreRows
    <3> HIDE DEF m
    <3> QED
      BY <3>1
  <2> QED
    BY <1>2, <2>1, <2>2
<1> QED
  BY <1>1, <1>2, <1>3, <1>4

-----------------------------------------------------------------------------
(* What a step on the chains does to the others.                           *)

\* Chains only grow but for a reset.
Grows(k, k2) ==
    /\ k2.life = k.life
    /\ k.exists => k2.exists
    /\ NumbersOf(k) \subseteq NumbersOf(k2)
    /\ ~k2.stray => ~k.stray

Grown(ch, ch2) == \A c \in ChainNames : Grows(ch[c], ch2[c])

LEMMA SameChains ==
    ASSUME UNCHANGED chain PROVE Grown(chain, chain')
BY DEF Grown, Grows

LEMMA CoveredStays ==
    ASSUME NEW ch, NEW ch2, Grown(ch, ch2), NEW s \in SpecRow, Covered(ch, s)
    PROVE  Covered(ch2, s)
<1>1. Grows(ch[s.name], ch2[s.name])
  BY DEF SpecRow, Grown
<1> QED
  BY <1>1 DEF Covered, Covers, Grows

LEMMA RestStays ==
    ASSUME NEW ch, NEW ch2, Grown(ch, ch2), NEW scale \in Nat, NEW todo,
           Rest(ch, scale, todo)
    PROVE  Rest(ch2, scale, todo)
<1>1. Demo \in SpecRow /\ Synthetic(scale) \in SpecRow
  BY SpecsAreRows
<1>2. /\ Covered(ch, Demo) => Covered(ch2, Demo)
      /\ Covered(ch, Synthetic(scale)) => Covered(ch2, Synthetic(scale))
  BY <1>1, CoveredStays
<1> QED
  BY <1>2 DEF Rest

LEMMA InsertChainGrows ==
    ASSUME ChainInv, NEW q \in ChainRequests, InsertChain(q)
    PROVE  Grown(chain, chain')
<1> DEFINE r == chainRequest[q]
<1>1. r.chain \in ChainNames
  BY DEF InsertChain, ChainInv, RequestSound
<1>2. CASE UNCHANGED chain
  BY <1>2, SameChains
<1>3. CASE ~chain[r.chain].exists
  <2> DEFINE k == NewChain(r.by, chain[r.chain].life)
  <2>1. /\ chain' = [chain EXCEPT ![r.chain] = k]
        /\ k.life = chain[r.chain].life /\ k.exists = TRUE /\ k.stray = FALSE
    BY <1>3 DEF InsertChain, NewChain
  <2>2. chain[r.chain].versions = {}
    BY <1>1, <1>3 DEF ChainInv, WholeChain
  <2> HIDE DEF k
  <2> QED
    BY <1>1, <1>3, <2>1, <2>2 DEF Grown, Grows, NumbersOf, ChainInv, ChainTypes, WholeChain
<1> QED
  BY <1>2, <1>3 DEF InsertChain

LEMMA InsertVersionGrows ==
    ASSUME ChainInv, NEW q \in ChainRequests, InsertVersion(q)
    PROVE  Grown(chain, chain')
<1> DEFINE r == chainRequest[q]
           k == Added(r)
<1>1. r.chain \in ChainNames /\ chain[r.chain] \in ChainRow
  BY DEF InsertVersion, ChainInv, ChainTypes, RequestSound
<1>2. CASE UNCHANGED chain
  BY <1>2, SameChains
<1>3. CASE chain' = [chain EXCEPT ![r.chain] = k]
  <2>1. /\ k.life = chain[r.chain].life /\ k.exists = chain[r.chain].exists
        /\ k.versions = chain[r.chain].versions \cup {[no |-> r.no, by |-> r.by]}
        /\ k.stray = (chain[r.chain].stray \/ ~SameLife(r))
    BY <1>1 DEF Added, ChainRow
  <2>2. chain[r.chain].stray \in BOOLEAN
    BY <1>1 DEF ChainRow
  <2>3. ~k.stray => ~chain[r.chain].stray
    BY <2>1, <2>2 DEF SameLife
  <2> HIDE DEF k
  <2> QED
    BY <1>1, <1>3, <2>1, <2>3 DEF Grown, Grows, NumbersOf, ChainInv, ChainTypes
<1> QED
  BY <1>2, <1>3 DEF InsertVersion

LEMMA ChainStepGrows ==
    ASSUME ChainInv, NEW q \in ChainRequests, ChainStep(q)
    PROVE  /\ Grown(chain, chain')
           /\ \A p \in ChainRequests \ {q} : chainRequest'[p] = chainRequest[p]
<1>1. Grown(chain, chain')
  <2>1. CASE CheckNewChain(q) \/ LoadChain(q) \/ ReadLatest(q)
    BY <2>1, SameChains DEF CheckNewChain, LoadChain, ReadLatest
  <2> QED
    BY <2>1, InsertChainGrows, InsertVersionGrows DEF ChainStep
<1>2. \E r : SetChain(q, r)
  BY DEF ChainStep, CheckNewChain, InsertChain, LoadChain, ReadLatest, InsertVersion,
     AnswerChain
<1> QED
  BY <1>1, <1>2 DEF SetChain, ChainInv, ChainTypes

-----------------------------------------------------------------------------
(* The server beside the script.                                           *)

LEMMA ServerKeeps ==
    ASSUME SeedInv, ServerStep
    PROVE  SeedInv'
<1>1. PICK q \in ChainRequests \ {SeedSlot} :
        /\ \/ chainRequest[q].pc # "idle" /\ UNCHANGED touched
           \/ /\ chainRequest[q].pc = "idle" /\ touched.chains < MaxTouches
              /\ touched' = [touched EXCEPT !.chains = @ + 1]
        /\ ChainStep(q)
        /\ UNCHANGED <<seed, demoUser, demoThreads, largest>>
  BY DEF ServerStep
<1>2. ChainInv'
  BY <1>1, ChainStepKeeps DEF SeedInv
<1>3. Grown(chain, chain') /\ chainRequest'[SeedSlot] = chainRequest[SeedSlot]
  BY <1>1, ChainStepGrows, DemoSeedAssumption DEF SeedInv
<1>4. /\ touched' \in [chains : Nat, user : Nat]
      /\ touched'.user = touched.user /\ touched'.chains # 0
  <2>1. touched \in [chains : Nat, user : Nat]
    BY DEF SeedInv, SeedTypes
  <2>2. CASE chainRequest[q].pc # "idle" /\ UNCHANGED touched
    <3>1. touched.chains # 0
      BY <1>1, <2>2 DEF SeedInv, AloneOK
    <3> QED
      BY <2>1, <2>2, <3>1
  <2>3. CASE touched' = [touched EXCEPT !.chains = @ + 1]
    <3>1. touched.chains \in Nat /\ touched.user \in Nat
      BY <2>1
    <3>2. touched.chains + 1 \in Nat /\ touched.chains + 1 # 0
      BY <3>1
    <3> DEFINE n == touched.chains + 1
    <3>3. touched' = [touched EXCEPT !.chains = n]
      BY <2>1, <2>3
    <3> HIDE DEF n
    <3>4. n \in Nat /\ n # 0
      BY <3>2 DEF n
    <3> QED
      BY <2>1, <3>3, <3>4
  <2> QED
    BY <1>1, <2>2, <2>3
<1>5. UNCHANGED <<seed, demoUser, demoThreads, largest>>
  BY <1>1
<1>6. SeedTypes'
  BY <1>4, <1>5 DEF SeedInv, SeedTypes
<1>7. ThreadsOK' /\ UserOK'
  BY <1>4, <1>5 DEF SeedInv, ThreadsOK, UserOK
<1>8. UNCHANGED Spec1
  BY <1>5 DEF Spec1
<1>9. ASSUME seed.pc \in Building
      PROVE  Spec1.name \in ChainNames
  BY <1>9, Spec1Is DEF SeedInv
<1>10. SlotOK'
  BY <1>3, <1>5, <1>8, <1>9 DEF SeedInv, SlotOK, SameLife, Grown, Grows, Building
<1>11. WorkOK'
  <2>1. seed.scale \in Nat
    BY DEF SeedInv, SeedTypes
  <2>2. Rest(chain, seed.scale, seed.todo) => Rest(chain', seed.scale, seed.todo)
    BY <1>3, <2>1, RestStays
  <2>3. ASSUME seed.pc \in {"versions", "add", "insert version"}
        PROVE  chain'[Spec1.name].exists
    BY <1>3, <1>9, <2>3 DEF Building, Grown, Grows, SeedInv, WorkOK
  <2> QED
    BY <1>5, <1>8, <2>2, <2>3 DEF SeedInv, WorkOK
<1>12. MissingOK'
  <2> SUFFICES ASSUME seed.pc \in Building
               PROVE  MissingOK'
    BY <1>5 DEF MissingOK, Building
  <2>1. Grows(chain[Spec1.name], chain'[Spec1.name])
    BY <1>3, <1>9 DEF Grown
  <2> QED
    BY <1>5, <1>8, <2>1 DEF SeedInv, MissingOK, AddSound, InsertSound, Grows
<1>13. AloneOK'
  BY <1>4 DEF AloneOK
<1>14. FailedOK'
  <2>1. touched'.chains \in Nat /\ touched'.user \in Nat /\ touched'.chains # 0
    BY <1>4
  <2>2. touched'.chains + touched'.user > 0
    BY ONLY <2>1
  <2> QED
    BY <2>2 DEF FailedOK
<1> QED
  BY <1>2, <1>6, <1>7, <1>10, <1>11, <1>12, <1>13, <1>14 DEF SeedInv

-----------------------------------------------------------------------------
(* Steps of the script that leave the chains alone.                        *)

LEMMA Moved ==
    ASSUME SeedTypes, NEW pc \in SeedPc, Goto(pc)
    PROVE  /\ seed' \in [pc : SeedPc, runs : Nat, scale : Nat, todo : Seq(SpecRow),
                         missing : SUBSET Nat]
           /\ seed'.pc = pc /\ seed'.scale = seed.scale /\ seed'.todo = seed.todo
           /\ seed'.missing = seed.missing
BY DEF SeedTypes, Goto

LEMMA QuietKeeps ==
    ASSUME SeedInv, UNCHANGED <<chain, chainRequest, largest>>,
           touched'.chains = touched.chains,
           seed.pc \notin Building, seed'.pc \notin Building
    PROVE  ChainInv' /\ SlotOK' /\ MissingOK' /\ AloneOK'
<1>1. ChainInv'
  BY NothingChanges DEF SeedInv
<1>2. SlotOK'
  BY DEF SeedInv, SlotOK, Building
<1>3. MissingOK'
  BY DEF MissingOK, Building
<1>4. AloneOK'
  BY DEF SeedInv, AloneOK, Building
<1> QED
  BY <1>1, <1>2, <1>3, <1>4

LEMMA LimitGrows ==
    ASSUME NEW ch, NEW a \in Nat, NEW b \in Nat, a <= b, OwnChains(ch, a)
    PROVE  OwnChains(ch, b)
<1>1. 1..Max({2, a}) \subseteq 1..Max({2, b})
  <2>1. Max({2, a}) \in Nat /\ Max({2, b}) \in Nat /\ Max({2, a}) <= Max({2, b})
    BY MaxOfTwo
  <2> DEFINE m == Max({2, a})
             n == Max({2, b})
  <2> HIDE DEF m, n
  <2>2. 1..m \subseteq 1..n
    BY <2>1 DEF m, n
  <2> QED
    BY <2>2 DEF m, n
<1> QED
  BY <1>1 DEF OwnChains

LEMMA StartSeedKeeps ==
    ASSUME SeedInv, StartSeed
    PROVE  SeedInv'
<1>1. PICK scale \in Scales, pc \in {"reset", "user"} :
        /\ seed' = [pc |-> pc, runs |-> seed.runs + 1, scale |-> scale,
                    todo |-> ChainSpecs(scale), missing |-> {}]
        /\ largest' = Max({largest, scale})
  BY DEF StartSeed
<1>2. UNCHANGED <<chain, chainRequest, demoUser, demoThreads, touched>>
  BY DEF StartSeed, chainVars
<1>3. seed.pc \in {"off", "done", "failed"}
  BY DEF StartSeed, Running
<1>4. scale \in Nat /\ ChainSpecs(scale) \in Seq(SpecRow)
  BY DemoSeedAssumption, ChainSpecsAre
<1>5. /\ seed \in [pc : SeedPc, runs : Nat, scale : Nat, todo : Seq(SpecRow),
                 missing : SUBSET Nat]
      /\ largest \in Nat /\ seed.scale <= largest
  BY DEF SeedInv, SeedTypes
<1>6. largest' \in Nat /\ scale <= largest' /\ largest <= largest'
  BY <1>1, <1>4, <1>5, MaxOfTwo
<1>7. seed'.pc = pc /\ seed'.scale = scale /\ seed'.todo = ChainSpecs(scale)
  BY <1>1
<1>8. SeedTypes'
  <2>1. seed' \in [pc : SeedPc, runs : Nat, scale : Nat, todo : Seq(SpecRow),
                   missing : SUBSET Nat]
    <3> DEFINE todo == ChainSpecs(scale)
               runs == seed.runs + 1
    <3>1. todo \in Seq(SpecRow) /\ {} \in SUBSET Nat
      BY <1>4
    <3>3. runs \in Nat
      BY <1>5
    <3>4. pc \in SeedPc
      BY DEF SeedPc
    <3>2. seed' = [pc |-> pc, runs |-> runs, scale |-> scale, todo |-> todo, missing |-> {}]
      BY <1>1
    <3> HIDE DEF todo, runs
    <3> QED
      BY <1>4, <3>1, <3>2, <3>3, <3>4
  <2> QED
    BY <2>1, <1>2, <1>6, <1>7 DEF SeedInv, SeedTypes
<1>9. ChainInv'
  BY <1>2, NothingChanges DEF SeedInv
<1>10. ThreadsOK' /\ UserOK' /\ SlotOK' /\ MissingOK' /\ FailedOK'
  BY <1>2, <1>3, <1>7 DEF SeedInv, ThreadsOK, UserOK, SlotOK, MissingOK, FailedOK
<1>11. WorkOK'
  BY <1>7 DEF WorkOK
<1>12. AloneOK'
  BY <1>2, <1>3, <1>5, <1>6, <1>7, LimitGrows DEF SeedInv, AloneOK
<1> QED
  BY <1>8, <1>9, <1>10, <1>11, <1>12 DEF SeedInv

UserRow == [exists : BOOLEAN, asGiven : BOOLEAN, access : SUBSET Projects]

LEMMA SameUser ==
    ASSUME NEW u \in UserRow, NEW v \in UserRow,
           u.exists = v.exists, u.asGiven = v.asGiven, u.access = v.access
    PROVE  u = v
BY DEF UserRow

LEMMA GivenRows ==
    ASSUME NEW a \in SUBSET Projects
    PROVE  /\ Given(a) \in UserRow
           /\ Given(a).exists = TRUE /\ Given(a).asGiven = TRUE /\ Given(a).access = a
           /\ [Given(a) EXCEPT !.asGiven = TRUE] = Given(a)
           /\ [Given(a) EXCEPT !.access = DemoAccess] = Given(DemoAccess)
<1> DEFINE g == Given(a)
           h == Given(DemoAccess)
           b == [g EXCEPT !.asGiven = TRUE]
           c == [g EXCEPT !.access = DemoAccess]
<1>1. g \in UserRow /\ g.exists = TRUE /\ g.asGiven = TRUE /\ g.access = a
  BY DEF Given, UserRow
<1>2. h \in UserRow /\ h.exists = TRUE /\ h.asGiven = TRUE /\ h.access = DemoAccess
  BY DemoSeedAssumption DEF Given, UserRow
<1> HIDE DEF g, h
<1>3. b \in UserRow /\ b.exists = TRUE /\ b.asGiven = TRUE /\ b.access = a
  BY <1>1 DEF UserRow
<1>4. c \in UserRow /\ c.exists = TRUE /\ c.asGiven = TRUE /\ c.access = DemoAccess
  BY <1>1, DemoSeedAssumption DEF UserRow
<1> HIDE DEF b, c
<1>5. b = g /\ c = h
  BY <1>1, <1>2, <1>3, <1>4, SameUser
<1> QED
  BY <1>1, <1>5 DEF b, c, g, h

LEMMA EnsureUserKeeps ==
    ASSUME SeedInv, EnsureUser
    PROVE  SeedInv'
<1>1. seed.pc = "user"
      /\ UNCHANGED <<chain, chainRequest, demoThreads, largest, touched>>
  BY DEF EnsureUser, chainVars
<1>2. demoUser \in [exists : BOOLEAN, asGiven : BOOLEAN, access : SUBSET Projects]
  BY DEF SeedInv, SeedTypes
<1>3. \E pc \in {"access", "thread"} : Goto(pc)
  BY DEF EnsureUser
<1>4. /\ demoUser' \in [exists : BOOLEAN, asGiven : BOOLEAN, access : SUBSET Projects]
      /\ \/ Goto("access") /\ demoUser.exists = FALSE /\ demoUser' = Given({})
         \/ /\ Goto("thread") /\ demoUser' = demoUser
            /\ demoUser.exists /\ demoUser.asGiven /\ demoUser.access = DemoAccess
         \/ /\ Goto("access") /\ demoUser' = [demoUser EXCEPT !.asGiven = TRUE]
            /\ demoUser.exists /\ ~(demoUser.asGiven /\ demoUser.access = DemoAccess)
  <2>1. CASE ~demoUser.exists
    <3>1. demoUser' = Given({}) /\ Goto("access")
      BY <2>1 DEF EnsureUser, Given
    <3>2. demoUser.exists = FALSE
      BY <1>2, <2>1
    <3>3. Given({}) \in [exists : BOOLEAN, asGiven : BOOLEAN, access : SUBSET Projects]
      BY DEF Given
    <3> QED
      BY <3>1, <3>2, <3>3
  <2>2. CASE demoUser.exists /\ demoUser.asGiven /\ demoUser.access = DemoAccess
    BY <1>2, <2>2 DEF EnsureUser
  <2>3. CASE demoUser.exists /\ ~(demoUser.asGiven /\ demoUser.access = DemoAccess)
    <3>1. demoUser' = [demoUser EXCEPT !.asGiven = TRUE] /\ Goto("access")
      BY <2>3 DEF EnsureUser
    <3> QED
      BY <1>2, <2>3, <3>1
  <2> QED
    BY <2>1, <2>2, <2>3
<1>5. /\ seed' \in [pc : SeedPc, runs : Nat, scale : Nat, todo : Seq(SpecRow),
                    missing : SUBSET Nat]
      /\ seed'.pc \in {"access", "thread"}
      /\ Goto("access") => seed'.pc = "access"
      /\ Goto("thread") => seed'.pc = "thread"
      /\ seed'.scale = seed.scale /\ seed'.todo = seed.todo
  BY <1>3, Moved DEF SeedInv, SeedPc
<1>6. SeedTypes'
  BY <1>1, <1>4, <1>5 DEF SeedInv, SeedTypes
<1>7. UserOK'
  <2> SUFFICES ASSUME touched.user = 0
               PROVE  /\ demoUser' \in {NoUser, Given({}), Given(DemoAccess)}
                      /\ seed'.pc = "access" => demoUser' = Given({})
                      /\ seed'.pc = "thread" => demoUser' = Given(DemoAccess)
    BY <1>1, <1>5 DEF UserOK
  <2>1. demoUser \in {NoUser, Given({}), Given(DemoAccess)}
    BY DEF SeedInv, UserOK
  <2>2. /\ NoUser.exists = FALSE
        /\ \A a : Given(a).access = a /\ Given(a).asGiven
        /\ [Given({}) EXCEPT !.asGiven = TRUE] = Given({})
    <3>1. NoUser.exists = FALSE
      BY DEF NoUser
    <3>2. \A a : Given(a).access = a
      BY DEF Given
    <3>3. \A a : Given(a).asGiven = TRUE
      BY DEF Given
    <3>4. [Given({}) EXCEPT !.asGiven = TRUE] = Given({})
      BY GivenRows
    <3> QED
      BY <3>1, <3>2, <3>3, <3>4
  <2>3. DemoAccess # {}
    BY DemoSeedAssumption
  <2>4. CASE Goto("access") /\ demoUser' = Given({})
    BY <1>5, <2>4
  <2>5. CASE Goto("thread") /\ demoUser' = demoUser /\ demoUser.exists
             /\ demoUser.asGiven /\ demoUser.access = DemoAccess
    BY <1>5, <2>1, <2>2, <2>3, <2>5
  <2>6. CASE /\ Goto("access") /\ demoUser' = [demoUser EXCEPT !.asGiven = TRUE]
             /\ demoUser.exists /\ ~(demoUser.asGiven /\ demoUser.access = DemoAccess)
    BY <1>5, <2>1, <2>2, <2>6
  <2> QED
    BY <1>4, <2>4, <2>5, <2>6
<1>8. ThreadsOK' /\ WorkOK' /\ FailedOK'
  BY <1>1, <1>5 DEF SeedInv, ThreadsOK, WorkOK, FailedOK
<1>9. ChainInv' /\ SlotOK' /\ MissingOK' /\ AloneOK'
  BY <1>1, <1>5, QuietKeeps DEF Building
<1> QED
  BY <1>6, <1>7, <1>8, <1>9 DEF SeedInv

LEMMA EnsureAccessKeeps ==
    ASSUME SeedInv, EnsureAccess
    PROVE  SeedInv'
<1>1. seed.pc = "access"
      /\ UNCHANGED <<chain, chainRequest, demoThreads, largest, touched>>
  BY DEF EnsureAccess, chainVars
<1>2. demoUser \in [exists : BOOLEAN, asGiven : BOOLEAN, access : SUBSET Projects]
  BY DEF SeedInv, SeedTypes
<1>3. \/ /\ Goto("failed") /\ demoUser' = demoUser /\ demoUser.access \cap DemoAccess # {}
      \/ Goto("thread") /\ demoUser' = [demoUser EXCEPT !.access = DemoAccess]
  BY DEF EnsureAccess
<1>4. demoUser' \in [exists : BOOLEAN, asGiven : BOOLEAN, access : SUBSET Projects]
  BY <1>2, <1>3, DemoSeedAssumption
<1>5. /\ seed' \in [pc : SeedPc, runs : Nat, scale : Nat, todo : Seq(SpecRow),
                    missing : SUBSET Nat]
      /\ seed'.pc \in {"failed", "thread"}
      /\ Goto("failed") => seed'.pc = "failed"
      /\ Goto("thread") => seed'.pc = "thread"
      /\ seed'.scale = seed.scale /\ seed'.todo = seed.todo
  BY <1>3, Moved DEF SeedInv, SeedPc
<1>6. SeedTypes'
  BY <1>1, <1>4, <1>5 DEF SeedInv, SeedTypes
<1>7. ASSUME touched.user = 0
      PROVE  seed'.pc = "thread" /\ demoUser' = Given(DemoAccess)
  <2>1. demoUser = Given({})
    BY <1>1, <1>7 DEF SeedInv, UserOK
  <2>2. Given({}).access = {} /\ [Given({}) EXCEPT !.access = DemoAccess] = Given(DemoAccess)
    BY GivenRows
  <2> QED
    BY <1>3, <1>5, <2>1, <2>2
<1>8. UserOK'
  BY <1>1, <1>7 DEF UserOK
<1>9. FailedOK'
  <2>1. touched.user # 0 => touched.chains + touched.user > 0
    <3>1. touched.user \in Nat /\ touched.chains \in Nat
      BY DEF SeedInv, SeedTypes
    <3> QED
      BY <3>1
  <2> QED
    BY <1>1, <1>7, <2>1 DEF FailedOK
<1>10. ThreadsOK' /\ WorkOK'
  BY <1>1, <1>5 DEF SeedInv, ThreadsOK, WorkOK
<1>11. ChainInv' /\ SlotOK' /\ MissingOK' /\ AloneOK'
  BY <1>1, <1>5, QuietKeeps DEF Building
<1> QED
  BY <1>6, <1>8, <1>9, <1>10, <1>11 DEF SeedInv

LEMMA GetOrCreateThreadKeeps ==
    ASSUME SeedInv, GetOrCreateThread
    PROVE  SeedInv'
<1>1. /\ seed.pc = "thread" /\ Goto("messages")
      /\ demoThreads' = IF demoThreads = << >> THEN <<FALSE>> ELSE demoThreads
      /\ UNCHANGED <<chain, chainRequest, demoUser, largest, touched>>
  BY DEF GetOrCreateThread, chainVars
<1>2. /\ seed' \in [pc : SeedPc, runs : Nat, scale : Nat, todo : Seq(SpecRow),
                    missing : SUBSET Nat]
      /\ seed'.pc = "messages" /\ seed'.scale = seed.scale /\ seed'.todo = seed.todo
  BY <1>1, Moved DEF SeedInv, SeedPc
<1>3. <<FALSE>> # << >>
  OBVIOUS
<1>4. SeedTypes'
  BY <1>1, <1>2 DEF SeedInv, SeedTypes
<1>5. ThreadsOK'
  BY <1>1, <1>2, <1>3 DEF SeedInv, ThreadsOK
<1>6. UserOK' /\ WorkOK' /\ FailedOK'
  BY <1>1, <1>2 DEF SeedInv, UserOK, WorkOK, FailedOK
<1>7. ChainInv' /\ SlotOK' /\ MissingOK' /\ AloneOK'
  BY <1>1, <1>2, QuietKeeps DEF Building
<1> QED
  BY <1>4, <1>5, <1>6, <1>7 DEF SeedInv

LEMMA OneBecomes ==
    ASSUME NEW t \in Seq(BOOLEAN), Len(t) = 1
    PROVE  [t EXCEPT ![1] = TRUE] = <<TRUE>>
<1> DEFINE s == [t EXCEPT ![1] = TRUE]
<1>1. 1 \in 1..Len(t) /\ \A i \in 1..Len(t) : i = 1
  OBVIOUS
<1>2. s \in Seq(BOOLEAN) /\ Len(s) = Len(t)
  BY <1>1, ExceptSeq
<1>3. DOMAIN t = 1..Len(t)
  OBVIOUS
<1>4. s[1] = TRUE
  BY <1>1, <1>3
<1> HIDE DEF s
<1>5. /\ <<TRUE>> \in Seq(BOOLEAN) /\ Len(<<TRUE>>) = 1
      /\ <<TRUE>>[1] = TRUE
  OBVIOUS
<1>6. \A i \in 1..Len(s) : s[i] = <<TRUE>>[i]
  BY <1>1, <1>2, <1>4, <1>5
<1>7. s = <<TRUE>>
  BY <1>2, <1>5, <1>6, SeqEqual
<1> QED
  BY <1>7 DEF s

LEMMA EnsureThreadMessagesKeeps ==
    ASSUME SeedInv, EnsureThreadMessages
    PROVE  SeedInv'
<1>1. /\ seed.pc = "messages" /\ Goto("chain")
      /\ demoThreads' = [demoThreads EXCEPT ![1] = TRUE]
      /\ UNCHANGED <<chain, chainRequest, demoUser, largest, touched>>
  BY DEF EnsureThreadMessages, chainVars
<1>2. /\ seed' \in [pc : SeedPc, runs : Nat, scale : Nat, todo : Seq(SpecRow),
                    missing : SUBSET Nat]
      /\ seed'.pc = "chain" /\ seed'.scale = seed.scale /\ seed'.todo = seed.todo
  BY <1>1, Moved DEF SeedInv, SeedPc
<1>3. demoThreads' = <<TRUE>>
  <2>1. demoThreads = <<FALSE>> \/ demoThreads = <<TRUE>>
    BY <1>1 DEF SeedInv, ThreadsOK
  <2>2. demoThreads \in Seq(BOOLEAN) /\ Len(demoThreads) = 1
    <3>1. <<FALSE>> \in Seq(BOOLEAN) /\ Len(<<FALSE>>) = 1
      OBVIOUS
    <3>2. <<TRUE>> \in Seq(BOOLEAN) /\ Len(<<TRUE>>) = 1
      OBVIOUS
    <3> QED
      BY <2>1, <3>1, <3>2
  <2> QED
    BY <1>1, <2>2, OneBecomes
<1>4. SeedTypes'
  BY <1>1, <1>2 DEF SeedInv, SeedTypes
<1>5. ThreadsOK'
  BY <1>3 DEF ThreadsOK
<1>6. WorkOK'
  BY <1>1, <1>2 DEF SeedInv, WorkOK, Rest
<1>7. UserOK' /\ FailedOK'
  BY <1>1, <1>2 DEF SeedInv, UserOK, FailedOK
<1>8. ChainInv' /\ SlotOK' /\ MissingOK' /\ AloneOK'
  BY <1>1, <1>2, QuietKeeps DEF Building
<1> QED
  BY <1>4, <1>5, <1>6, <1>7, <1>8 DEF SeedInv

LEMMA FinishSeedKeeps ==
    ASSUME SeedInv, FinishSeed
    PROVE  SeedInv'
<1>1. /\ seed.pc = "chain" /\ seed.todo = << >> /\ Goto("done")
      /\ UNCHANGED <<chain, chainRequest, demoUser, demoThreads, largest, touched>>
  BY DEF FinishSeed, chainVars
<1>2. /\ seed' \in [pc : SeedPc, runs : Nat, scale : Nat, todo : Seq(SpecRow),
                    missing : SUBSET Nat]
      /\ seed'.pc = "done" /\ seed'.scale = seed.scale /\ seed'.todo = seed.todo
  BY <1>1, Moved DEF SeedInv, SeedPc
<1>3. SeedTypes'
  BY <1>1, <1>2 DEF SeedInv, SeedTypes
<1>4. ThreadsOK' /\ UserOK' /\ WorkOK' /\ FailedOK'
  BY <1>1, <1>2 DEF SeedInv, ThreadsOK, UserOK, WorkOK, FailedOK
<1>5. ChainInv' /\ SlotOK' /\ MissingOK' /\ AloneOK'
  BY <1>1, <1>2, QuietKeeps DEF Building
<1> QED
  BY <1>3, <1>4, <1>5 DEF SeedInv

LEMMA ChangeDemoUserKeeps ==
    ASSUME SeedInv, ChangeDemoUser
    PROVE  SeedInv'
<1>1. /\ touched' = [touched EXCEPT !.user = @ + 1]
      /\ UNCHANGED <<chain, chainRequest, seed, demoThreads, largest>>
  BY DEF ChangeDemoUser, chainVars
<1>2. /\ demoUser \in [exists : BOOLEAN, asGiven : BOOLEAN, access : SUBSET Projects]
      /\ touched \in [chains : Nat, user : Nat]
  BY DEF SeedInv, SeedTypes
<1>3. demoUser' \in [exists : BOOLEAN, asGiven : BOOLEAN, access : SUBSET Projects]
  BY <1>2 DEF ChangeDemoUser
<1>4. /\ touched' \in [chains : Nat, user : Nat]
      /\ touched'.user # 0 /\ touched'.chains = touched.chains
  <2> DEFINE n == touched.user + 1
  <2>1. touched' = [touched EXCEPT !.user = n]
    BY <1>1, <1>2
  <2>2. n \in Nat /\ n # 0
    BY <1>2
  <2> HIDE DEF n
  <2> QED
    BY <1>2, <2>1, <2>2
<1>5. SeedTypes'
  BY <1>1, <1>3, <1>4 DEF SeedInv, SeedTypes
<1>6. UserOK'
  BY <1>4 DEF UserOK
<1>7. FailedOK'
  <2>1. touched'.chains \in Nat /\ touched'.user \in Nat /\ touched'.user # 0
    BY <1>4
  <2>2. touched'.chains + touched'.user > 0
    BY ONLY <2>1
  <2> QED
    BY <2>2 DEF FailedOK
<1>8. ThreadsOK' /\ SlotOK' /\ WorkOK'
  BY <1>1 DEF SeedInv, ThreadsOK, SlotOK, WorkOK, SameLife, Spec1
<1>9. MissingOK' /\ AloneOK'
  BY <1>1, <1>4 DEF SeedInv, MissingOK, AloneOK, Spec1
<1>10. ChainInv'
  BY <1>1, NothingChanges DEF SeedInv
<1> QED
  BY <1>5, <1>6, <1>7, <1>8, <1>9, <1>10 DEF SeedInv

LEMMA ResetDatabaseKeeps ==
    ASSUME SeedInv, ResetDatabase
    PROVE  SeedInv'
<1>1. /\ seed.pc = "reset" /\ Goto("user")
      /\ chain' = [c \in ChainNames |-> NoChain(chain[c].life + 1)]
      /\ demoUser' = NoUser /\ demoThreads' = << >> /\ largest' = seed.scale
      /\ UNCHANGED <<chainRequest, touched>>
  BY DEF ResetDatabase
<1>2. /\ seed' \in [pc : SeedPc, runs : Nat, scale : Nat, todo : Seq(SpecRow),
                    missing : SUBSET Nat]
      /\ seed'.pc = "user" /\ seed'.scale = seed.scale /\ seed'.todo = seed.todo
  BY <1>1, Moved DEF SeedInv, SeedPc
<1>3. NoUser \in [exists : BOOLEAN, asGiven : BOOLEAN, access : SUBSET Projects]
  BY DEF NoUser
<1>4. seed.scale \in Nat
  BY DEF SeedInv, SeedTypes
<1>5. SeedTypes'
  BY <1>1, <1>2, <1>3, <1>4 DEF SeedInv, SeedTypes
<1>6. ThreadsOK' /\ UserOK' /\ SlotOK' /\ MissingOK' /\ FailedOK'
  BY <1>1, <1>2 DEF SeedInv, ThreadsOK, UserOK, SlotOK, MissingOK, FailedOK
<1>7. WorkOK'
  BY <1>1, <1>2 DEF SeedInv, WorkOK
<1>8. \A c \in ChainNames : chain[c].life \in Nat
  BY DEF SeedInv, ChainInv, ChainTypes, ChainRow
<1>9. ASSUME NEW c \in ChainNames
      PROVE  /\ chain'[c] \in ChainRow /\ chain'[c].exists = FALSE
             /\ chain'[c].versions = {} /\ chain'[c].stray = FALSE
             /\ chain'[c].life = chain[c].life + 1
  <2> DEFINE n == chain[c].life + 1
  <2>1. chain'[c] = NoChain(n)
    BY <1>1
  <2>2. n \in Nat
    BY <1>8
  <2> HIDE DEF n
  <2>3. NoChain(n) \in ChainRow
    BY <2>2 DEF NoChain, ChainRow
  <2>4. /\ NoChain(n).exists = FALSE /\ NoChain(n).versions = {}
        /\ NoChain(n).stray = FALSE /\ NoChain(n).life = n
    BY DEF NoChain
  <2> QED
    BY <2>1, <2>3, <2>4 DEF n
<1>10. ChainInv'
  <2>1. ChainTypes'
    BY <1>1, <1>9 DEF SeedInv, ChainInv, ChainTypes
  <2>2. \A c \in ChainNames : WholeChain(chain'[c])
    BY <1>9 DEF WholeChain
  <2>3. ASSUME NEW q \in ChainRequests
        PROVE  RequestSound(chain', chainRequest[q])
    <3> DEFINE r == chainRequest[q]
    <3>1. RequestSound(chain, r) /\ r \in RequestRow
      BY DEF SeedInv, ChainInv, ChainTypes
    <3>2. ASSUME r.pc \in {"read latest", "insert version"}
          PROVE  ReadEarlier(chain'[r.chain], r)
      <4>1. ReadEarlier(chain[r.chain], r) /\ r.chain \in ChainNames
        BY <3>1, <3>2 DEF RequestSound
      <4>2. r.life \in Nat /\ chain[r.chain].life \in Nat
        BY <1>8, <3>1, <4>1 DEF RequestRow
      <4>3. r.life <= chain[r.chain].life
        BY <4>1 DEF ReadEarlier
      <4>4. chain'[r.chain].life = chain[r.chain].life + 1
        BY <1>9, <4>1
      <4> DEFINE a == r.life
                 b == chain[r.chain].life
                 d == chain'[r.chain].life
      <4>5. a <= d /\ a # d
        <5>1. a \in Nat /\ b \in Nat /\ a <= b /\ d = b + 1
          BY <4>2, <4>3, <4>4
        <5> HIDE DEF a, b, d
        <5> QED
          BY ONLY <5>1
      <4> QED
        BY <4>1, <4>5 DEF ReadEarlier
    <3> QED
      BY <3>1, <3>2 DEF RequestSound
  <2> QED
    BY <1>1, <2>1, <2>2, <2>3 DEF ChainInv
<1>11. AloneOK'
  <2>1. OwnChains(chain', largest')
    <3>1. DemoChain \in ChainNames /\ SyntheticChain \in ChainNames
      BY DemoSeedAssumption
    <3> QED
      BY <1>9, <3>1 DEF OwnChains, NumbersOf
  <2> QED
    BY <1>1, <1>2, <2>1 DEF SeedInv, AloneOK
<1> QED
  BY <1>5, <1>6, <1>7, <1>10, <1>11 DEF SeedInv

LEMMA KillSeedKeeps ==
    ASSUME SeedInv, KillSeed
    PROVE  SeedInv'
<1>1. /\ Goto("off") /\ AnswerChain(SeedSlot)
      /\ UNCHANGED <<chain, demoUser, demoThreads, largest, touched>>
  BY DEF KillSeed
<1>2. /\ seed' \in [pc : SeedPc, runs : Nat, scale : Nat, todo : Seq(SpecRow),
                    missing : SUBSET Nat]
      /\ seed'.pc = "off" /\ seed'.scale = seed.scale /\ seed'.todo = seed.todo
  BY <1>1, Moved DEF SeedInv, SeedPc
<1>3. SeedSlot \in ChainRequests
  BY DemoSeedAssumption
<1>4. /\ chainRequest'[SeedSlot].pc = "idle"
      /\ \A q \in ChainRequests \ {SeedSlot} : chainRequest'[q] = chainRequest[q]
  BY <1>1, <1>3 DEF SeedInv, ChainInv, ChainTypes, AnswerChain, SetChain, IdleChainRequest
<1>5. SeedTypes'
  BY <1>1, <1>2 DEF SeedInv, SeedTypes
<1>6. ThreadsOK' /\ UserOK' /\ WorkOK' /\ MissingOK' /\ FailedOK'
  BY <1>1, <1>2 DEF SeedInv, ThreadsOK, UserOK, WorkOK, MissingOK, FailedOK
<1>7. SlotOK' /\ AloneOK'
  BY <1>1, <1>2, <1>4 DEF SeedInv, SlotOK, AloneOK
<1>8. ChainInv'
  BY <1>1, <1>3, RequestAnswered DEF SeedInv
<1> QED
  BY <1>5, <1>6, <1>7, <1>8 DEF SeedInv

-----------------------------------------------------------------------------
(* Steps of the script on the chains.                                      *)

\* The user and the thread are made before the chains.
LEMMA DataStays ==
    ASSUME SeedInv, seed.pc \in Building \cup {"chain"},
           seed' \in [pc : SeedPc, runs : Nat, scale : Nat, todo : Seq(SpecRow),
                      missing : SUBSET Nat],
           seed'.pc \in Building \cup {"chain", "failed"}, seed'.scale = seed.scale,
           UNCHANGED <<demoUser, demoThreads, largest, touched>>
    PROVE  SeedTypes' /\ ThreadsOK' /\ UserOK'
<1>1. SeedTypes'
  BY DEF SeedInv, SeedTypes
<1>2. ThreadsOK'
  BY DEF SeedInv, ThreadsOK, Building
<1>3. UserOK'
  BY DEF SeedInv, UserOK, Building
<1> QED
  BY <1>1, <1>2, <1>3

LEMMA SumIsPositive ==
    ASSUME NEW a \in Nat, NEW b \in Nat, a # 0 PROVE a + b > 0
OBVIOUS

LEMMA SlotOnly ==
    ASSUME ChainInv, NEW r, SetChain(SeedSlot, r)
    PROVE  /\ chainRequest'[SeedSlot] = r
           /\ \A q \in ChainRequests \ {SeedSlot} : chainRequest'[q] = chainRequest[q]
BY DemoSeedAssumption DEF ChainInv, ChainTypes, SetChain

\* A chain that exists and got all its versions itself.
LEMMA DenseChain ==
    ASSUME ChainInv, NEW c \in ChainNames, chain[c].exists, ~chain[c].stray
    PROVE  /\ Last(chain[c].versions) \in Nat /\ Last(chain[c].versions) >= 1
           /\ NumbersOf(chain[c]) = 1..Last(chain[c].versions)
<1> DEFINE V == chain[c].versions
           n == Last(V)
<1>1. Dense(V, n) /\ V # {}
  BY DEF ChainInv, WholeChain
<1>2. n \in Nat /\ {v.no : v \in V} = 1..n
  BY <1>1 DEF Dense
<1>3. PICK v \in V : TRUE
  BY <1>1
<1>4. v.no \in 1..n
  BY <1>2, <1>3
<1> DEFINE m == v.no
<1> HIDE DEF n, m
<1>5. n >= 1
  BY <1>2, <1>4 DEF m
<1> QED
  BY <1>2, <1>5 DEF NumbersOf, n

LEMMA NextIsNew ==
    ASSUME ChainInv, NEW c \in ChainNames
    PROVE  /\ Last(chain[c].versions) \in Nat
           /\ Last(chain[c].versions) + 1 \notin NumbersOf(chain[c])
<1> DEFINE V == chain[c].versions
           T == {v.no : v \in V} \cup {0}
           n == Last(V)
<1>1. MaxVersions \in Nat /\ \A v \in V : v.no \in 1..MaxVersions
  BY PromptChainsAssumption DEF ChainInv, ChainTypes, ChainRow
<1>2. T \in SUBSET (0..MaxVersions) /\ T # {}
  BY <1>1
<1>3. n \in T /\ \A x \in T : x <= n
  BY <1>1, <1>2, MaxIsGreatest DEF Last
<1>4. n \in Nat
  BY <1>1, <1>2, <1>3
<1> HIDE DEF n
<1>5. n + 1 \notin T
  BY <1>3, <1>4
<1> QED
  BY <1>4, <1>5 DEF NumbersOf, n

LEMMA FindDemoChainKeeps ==
    ASSUME SeedInv, FindDemoChain
    PROVE  SeedInv'
<1> DEFINE c == Spec1.name
           r == [IdleChainRequest EXCEPT !.pc = "insert chain", !.chain = c, !.by = SeedAdmin]
<1>1. /\ seed.pc = "chain" /\ seed.todo # << >>
      /\ UNCHANGED <<chain, runVars, demoUser, demoThreads, largest, touched>>
  BY DEF FindDemoChain
<1>2. /\ c \in ChainNames /\ c \in {DemoChain, SyntheticChain}
      /\ Rest(chain, seed.scale, seed.todo)
  BY <1>1, Spec1Is DEF SeedInv
<1>3. chainRequest[SeedSlot].pc = "idle" /\ SeedSlot \in ChainRequests /\ SeedAdmin \in Writers
  BY <1>1, DemoSeedAssumption DEF SeedInv, SlotOK
<1>4. \/ Goto("versions") /\ UNCHANGED chainRequest /\ chain[c].exists
      \/ Goto("failed") /\ UNCHANGED chainRequest /\ ~chain[c].exists /\ NameInUse(c)
      \/ Goto("insert chain") /\ SetChain(SeedSlot, r) /\ ~chain[c].exists /\ ~NameInUse(c)
  BY DEF FindDemoChain
<1>5. PICK pc \in {"versions", "failed", "insert chain"} : Goto(pc)
  BY <1>4
<1>6. /\ seed' \in [pc : SeedPc, runs : Nat, scale : Nat, todo : Seq(SpecRow),
                    missing : SUBSET Nat]
      /\ seed'.pc = pc /\ seed'.scale = seed.scale /\ seed'.todo = seed.todo
  BY <1>5, Moved DEF SeedInv, SeedPc
<1>7. SeedTypes' /\ ThreadsOK' /\ UserOK'
  BY <1>1, <1>6, DataStays DEF Building
<1>8. UNCHANGED Spec1
  BY <1>6 DEF Spec1
<1>9. MissingOK'
  BY <1>6 DEF MissingOK
<1>10. CASE Goto("versions") /\ UNCHANGED chainRequest /\ chain[c].exists
  <2>1. seed'.pc = "versions"
    BY <1>10, Moved DEF SeedInv, SeedPc
  <2>2. ChainInv'
    BY <1>1, <1>10, NothingChanges DEF SeedInv
  <2>3. SlotOK' /\ FailedOK'
    BY <1>3, <1>10, <2>1 DEF SlotOK, FailedOK
  <2>4. WorkOK'
    BY <1>1, <1>2, <1>6, <1>8, <1>10, <2>1 DEF WorkOK
  <2>5. AloneOK'
    BY <1>1, <1>10, <2>1 DEF SeedInv, AloneOK
  <2> QED
    BY <1>7, <1>9, <2>2, <2>3, <2>4, <2>5 DEF SeedInv
<1>11. CASE Goto("failed") /\ UNCHANGED chainRequest /\ ~chain[c].exists /\ NameInUse(c)
  <2>1. seed'.pc = "failed"
    BY <1>11, Moved DEF SeedInv, SeedPc
  <2>2. ChainInv'
    BY <1>1, <1>11, NothingChanges DEF SeedInv
  <2>3. SlotOK' /\ WorkOK'
    BY <1>3, <1>11, <2>1 DEF SlotOK, WorkOK
  <2>4. AloneOK'
    BY <1>1, <1>11, <2>1 DEF SeedInv, AloneOK
  <2>5. touched.chains # 0
    <3> SUFFICES ASSUME touched.chains = 0 PROVE FALSE
      OBVIOUS
    <3>1. PICK d \in ChainNames : SameName[d] = SameName[c] /\ chain[d].exists
      BY <1>11 DEF NameInUse
    <3>2. d \in {DemoChain, SyntheticChain}
      BY <3>1 DEF SeedInv, AloneOK, OwnChains
    <3>3. d # c
      BY <1>11, <3>1
    <3> QED
      BY <1>2, <3>1, <3>2, <3>3, DemoSeedAssumption
  <2>6. FailedOK'
    <3>1. touched.chains \in Nat /\ touched.user \in Nat
      BY DEF SeedInv, SeedTypes
    <3>2. touched.chains + touched.user > 0
      BY <2>5, <3>1, SumIsPositive
    <3> QED
      BY <1>1, <3>2 DEF FailedOK
  <2> QED
    BY <1>7, <1>9, <2>2, <2>3, <2>4, <2>6 DEF SeedInv
<1>12. CASE Goto("insert chain") /\ SetChain(SeedSlot, r) /\ ~chain[c].exists /\ ~NameInUse(c)
  <2>1. seed'.pc = "insert chain"
    BY <1>12, Moved DEF SeedInv, SeedPc
  <2>2. ChainInv'
    <3>1. CheckNewChain(SeedSlot)
      BY <1>1, <1>2, <1>3, <1>12 DEF CheckNewChain
    <3> QED
      BY <1>3, <3>1, CheckNewChainKeeps DEF SeedInv
  <2>3. r.pc = "insert chain" /\ r.chain = c
    BY DEF IdleChainRequest
  <2>4. /\ chainRequest'[SeedSlot] = r
        /\ \A q \in ChainRequests \ {SeedSlot} : chainRequest'[q] = chainRequest[q]
    BY <1>12, SlotOnly DEF SeedInv
  <2> HIDE DEF r
  <2>5. SlotOK'
    BY <1>8, <2>1, <2>3, <2>4 DEF SlotOK
  <2>6. WorkOK' /\ FailedOK'
    BY <1>1, <1>2, <1>6, <2>1 DEF WorkOK, FailedOK
  <2>7. AloneOK'
    BY <1>1, <1>8, <1>12, <2>1, <2>4 DEF SeedInv, AloneOK
  <2> QED
    BY <1>7, <1>9, <2>2, <2>5, <2>6, <2>7 DEF SeedInv
<1> QED
  BY <1>4, <1>10, <1>11, <1>12

LEMMA ReadVersionsKeeps ==
    ASSUME SeedInv, ReadVersions
    PROVE  SeedInv'
<1> DEFINE m == (1..Spec1.versions) \ Numbers(Spec1.name)
<1>1. /\ seed.pc = "versions" /\ seed' = [seed EXCEPT !.pc = "add", !.missing = m]
      /\ UNCHANGED <<chain, chainRequest, demoUser, demoThreads, largest, touched>>
  BY DEF ReadVersions, chainVars
<1>2. /\ seed.todo # << >> /\ Rest(chain, seed.scale, seed.todo)
      /\ Spec1.versions \in Nat /\ Spec1.name \in ChainNames
  BY <1>1, Spec1Is DEF SeedInv, Building
<1>3. m \in SUBSET Nat /\ m = (1..Spec1.versions) \ NumbersOf(chain[Spec1.name])
  <2>1. 1..Spec1.versions \subseteq Nat
    BY <1>2
  <2> QED
    BY <2>1 DEF Numbers, NumbersOf
<1> HIDE DEF m
<1>4. /\ seed' \in [pc : SeedPc, runs : Nat, scale : Nat, todo : Seq(SpecRow),
                    missing : SUBSET Nat]
      /\ seed'.pc = "add" /\ seed'.scale = seed.scale /\ seed'.todo = seed.todo
      /\ seed'.missing = m
  BY <1>1, <1>3 DEF SeedInv, SeedTypes, SeedPc
<1>5. UNCHANGED Spec1
  BY <1>4 DEF Spec1
<1>6. SeedTypes' /\ ThreadsOK' /\ UserOK'
  BY <1>1, <1>4, DataStays DEF Building
<1>7. ChainInv'
  BY <1>1, NothingChanges DEF SeedInv
<1>8. SlotOK' /\ FailedOK'
  BY <1>1, <1>4 DEF SeedInv, SlotOK, FailedOK
<1>9. WorkOK'
  BY <1>1, <1>2, <1>4, <1>5 DEF SeedInv, WorkOK
<1>10. MissingOK'
  BY <1>1, <1>3, <1>4, <1>5 DEF MissingOK, AddSound
<1>11. AloneOK'
  BY <1>1, <1>3, <1>4, <1>5 DEF SeedInv, AloneOK
<1> QED
  BY <1>6, <1>7, <1>8, <1>9, <1>10, <1>11 DEF SeedInv

LEMMA ReadLatestOfDemoKeeps ==
    ASSUME SeedInv, ReadLatestOfDemo
    PROVE  SeedInv'
<1> DEFINE r == chainRequest[SeedSlot]
           c == Spec1.name
           s == [r EXCEPT !.pc = "insert version", !.no = LastNo(r.chain) + 1]
<1>1. /\ seed.pc = "insert version" /\ ReadLatest(SeedSlot)
      /\ UNCHANGED <<seed, demoUser, demoThreads, largest, touched, chain>>
  BY DEF ReadLatestOfDemo, seedVars, ReadLatest
<1>2. SeedSlot \in ChainRequests
  BY DemoSeedAssumption
<1>3. r.pc = "read latest" /\ r.chain = c /\ SameLife(r) /\ r \in RequestRow
  BY <1>1, <1>2 DEF SeedInv, SlotOK, ReadLatest, ChainInv, ChainTypes
<1>4. c \in ChainNames
  BY <1>1, Spec1Is DEF SeedInv, Building
<1>5. SetChain(SeedSlot, s)
  BY <1>1, <1>3 DEF ReadLatest
<1>6. LastNo(c) = Last(chain[c].versions)
  BY <1>4, LastNoIsLast DEF SeedInv
<1>7. s.pc = "insert version" /\ s.chain = c /\ s.life = r.life
      /\ s.no = Last(chain[c].versions) + 1
  BY <1>3, <1>6 DEF RequestRow
<1> HIDE DEF s
<1>8. /\ chainRequest'[SeedSlot] = s
      /\ \A q \in ChainRequests \ {SeedSlot} : chainRequest'[q] = chainRequest[q]
  BY <1>5, SlotOnly DEF SeedInv
<1>9. UNCHANGED Spec1
  BY <1>1 DEF Spec1
<1>10. ChainInv'
  BY <1>1, <1>2, ReadLatestKeeps DEF SeedInv
<1>11. SeedTypes' /\ ThreadsOK' /\ UserOK' /\ WorkOK' /\ MissingOK' /\ FailedOK'
  BY <1>1, <1>9 DEF SeedInv, SeedTypes, ThreadsOK, UserOK, WorkOK, MissingOK, FailedOK
<1>12. SlotOK'
  BY <1>1, <1>3, <1>7, <1>8, <1>9 DEF SlotOK, SameLife
<1>13. AloneOK'
  BY <1>1, <1>7, <1>8, <1>9 DEF SeedInv, AloneOK, OwnInsert
<1> QED
  BY <1>10, <1>11, <1>12, <1>13 DEF SeedInv

LEMMA InsertDemoChainKeeps ==
    ASSUME SeedInv, InsertDemoChain
    PROVE  SeedInv'
<1> DEFINE c == Spec1.name
           r == chainRequest[SeedSlot]
           k == NewChain(r.by, chain[c].life)
<1>1. /\ seed.pc = "insert chain" /\ InsertChain(SeedSlot)
      /\ Goto(IF chain[c].exists THEN "failed" ELSE "versions")
      /\ UNCHANGED <<demoUser, demoThreads, largest, touched>>
  BY DEF InsertDemoChain
<1>2. SeedSlot \in ChainRequests
  BY DemoSeedAssumption
<1>3. r.chain = c
  BY <1>1 DEF SeedInv, SlotOK
<1>4. /\ c \in ChainNames /\ c \in {DemoChain, SyntheticChain}
      /\ seed.todo # << >> /\ Rest(chain, seed.scale, seed.todo)
      /\ Spec1.versions \in Nat /\ Spec1.versions >= 1
  BY <1>1, Spec1Is DEF SeedInv, Building
<1>5. SetChain(SeedSlot, IdleChainRequest)
  BY <1>1 DEF InsertChain, AnswerChain
<1>6. /\ chainRequest'[SeedSlot].pc = "idle"
      /\ \A q \in ChainRequests \ {SeedSlot} : chainRequest'[q] = chainRequest[q]
  <2>1. IdleChainRequest.pc = "idle"
    BY DEF IdleChainRequest
  <2> QED
    BY <1>5, <2>1, SlotOnly DEF SeedInv
<1>7. ChainInv' /\ Grown(chain, chain')
  BY <1>1, <1>2, InsertChainKeeps, InsertChainGrows DEF SeedInv
<1>8. CASE chain[c].exists
  <2>1. Goto("failed") /\ UNCHANGED chain
    BY <1>1, <1>3, <1>8 DEF InsertChain
  <2>2. /\ seed' \in [pc : SeedPc, runs : Nat, scale : Nat, todo : Seq(SpecRow),
                      missing : SUBSET Nat]
        /\ seed'.pc = "failed" /\ seed'.scale = seed.scale /\ seed'.todo = seed.todo
    BY <2>1, Moved DEF SeedInv, SeedPc
  <2>3. SeedTypes' /\ ThreadsOK' /\ UserOK'
    BY <1>1, <2>2, DataStays DEF Building
  <2>4. SlotOK' /\ WorkOK' /\ MissingOK'
    BY <1>6, <2>2 DEF SlotOK, WorkOK, MissingOK
  <2>5. AloneOK'
    BY <1>1, <1>6, <2>1, <2>2 DEF SeedInv, AloneOK
  <2>6. touched.chains # 0
    BY <1>1, <1>8 DEF SeedInv, AloneOK
  <2>7. FailedOK'
    <3>1. touched.chains \in Nat /\ touched.user \in Nat
      BY DEF SeedInv, SeedTypes
    <3> QED
      BY <1>1, <2>6, <3>1, SumIsPositive DEF FailedOK
  <2> QED
    BY <1>7, <2>3, <2>4, <2>5, <2>7 DEF SeedInv
<1>9. CASE ~chain[c].exists
  <2>1. Goto("versions") /\ chain' = [chain EXCEPT ![c] = k]
    BY <1>1, <1>3, <1>9 DEF InsertChain
  <2>2. /\ seed' \in [pc : SeedPc, runs : Nat, scale : Nat, todo : Seq(SpecRow),
                      missing : SUBSET Nat]
        /\ seed'.pc = "versions" /\ seed'.scale = seed.scale /\ seed'.todo = seed.todo
    BY <2>1, Moved DEF SeedInv, SeedPc
  <2>3. SeedTypes' /\ ThreadsOK' /\ UserOK'
    BY <1>1, <2>2, DataStays DEF Building
  <2>4. k.exists = TRUE /\ k.stray = FALSE /\ NumbersOf(k) = {1}
    BY DEF NewChain, NumbersOf
  <2> HIDE DEF k
  <2>5. \A d \in ChainNames : chain'[d] = IF d = c THEN k ELSE chain[d]
    BY <2>1 DEF SeedInv, ChainInv, ChainTypes
  <2>6. SlotOK' /\ MissingOK' /\ FailedOK'
    BY <1>6, <2>2 DEF SlotOK, MissingOK, FailedOK
  <2>7. UNCHANGED Spec1
    BY <2>2 DEF Spec1
  <2>8. WorkOK'
    <3>1. Rest(chain', seed.scale, seed.todo)
      BY <1>4, <1>7, RestStays DEF SeedInv, SeedTypes
    <3> QED
      BY <1>4, <2>2, <2>4, <2>5, <2>7, <3>1 DEF WorkOK
  <2>9. AloneOK'
    <3>1. 1 \in 1..DemoVersions /\ 1 \in 1..Max({2, largest})
      <4>1. largest \in Nat
        BY DEF SeedInv, SeedTypes
      <4> DEFINE n == Max({2, largest})
                 m == DemoVersions
      <4>2. n \in Nat /\ n >= 2 /\ m \in Nat /\ m >= 1
        BY <4>1, SpecsAreRows
      <4> HIDE DEF n, m
      <4>3. 1 \in 1..m /\ 1 \in 1..n
        BY <4>2
      <4> QED
        BY <4>3 DEF n, m
    <3>2. ASSUME OwnChains(chain, largest) PROVE OwnChains(chain', largest)
      BY <1>4, <2>4, <2>5, <3>1, <3>2, DemoSeedAssumption DEF OwnChains
    <3> QED
      BY <1>1, <1>6, <2>2, <3>2 DEF SeedInv, AloneOK
  <2> QED
    BY <1>7, <2>3, <2>6, <2>8, <2>9 DEF SeedInv
<1> QED
  BY <1>8, <1>9

\* The script asks for a version.
LEMMA MissingIsAsked ==
    ASSUME SeedInv, NextMissing, seed.missing # {}
    PROVE  SeedInv'
<1> DEFINE c == Spec1.name
           n == Spec1.versions
           a == Min(seed.missing)
           left == seed.missing \ {a}
           r == [IdleChainRequest EXCEPT !.pc = "read latest", !.chain = c, !.by = SeedAdmin,
                            !.named = chain[c].updatedBy, !.life = chain[c].life]
<1>1. /\ seed.pc = "add"
      /\ seed' = [seed EXCEPT !.missing = left, !.pc = "insert version"]
      /\ SetChain(SeedSlot, r)
      /\ UNCHANGED <<chain, runVars, demoUser, demoThreads, largest, touched>>
  BY DEF NextMissing
<1>2. /\ c \in ChainNames /\ chain[c].exists
      /\ seed.todo # << >> /\ Rest(chain, seed.scale, seed.todo)
      /\ n \in Nat
  BY <1>1, Spec1Is DEF SeedInv, WorkOK, Building
<1>3. /\ SeedSlot \in ChainRequests /\ SeedAdmin \in Writers
      /\ chainRequest[SeedSlot].pc = "idle"
  BY <1>1, DemoSeedAssumption DEF SeedInv, SlotOK
<1>4. /\ seed.missing \in SUBSET Nat /\ seed.missing \subseteq 1..n
      /\ AddSound(chain[c], n, seed.missing)
  BY <1>1 DEF SeedInv, SeedTypes, MissingOK
<1>5. a \in seed.missing /\ \A x \in seed.missing : a <= x
  BY <1>4, MinIsLeast
<1>6. ChainInv'
  <2>1. LoadChain(SeedSlot)
    BY <1>1, <1>2, <1>3 DEF LoadChain
  <2> QED
    BY <1>3, <2>1, LoadChainKeeps DEF SeedInv
<1>7. r.pc = "read latest" /\ r.chain = c /\ r.life = chain[c].life
  BY DEF IdleChainRequest
<1> HIDE DEF r
<1>8. /\ chainRequest'[SeedSlot] = r
      /\ \A q \in ChainRequests \ {SeedSlot} : chainRequest'[q] = chainRequest[q]
  BY <1>1, SlotOnly DEF SeedInv
<1> HIDE DEF a
<1>9. left \in SUBSET Nat /\ left \subseteq 1..n /\ left \subseteq seed.missing
  BY <1>4
<1>20. \A i : i \in left <=> i \in seed.missing /\ i # a
  OBVIOUS
<1> HIDE DEF left
<1>10. /\ seed' \in [pc : SeedPc, runs : Nat, scale : Nat, todo : Seq(SpecRow),
                     missing : SUBSET Nat]
       /\ seed'.pc = "insert version" /\ seed'.scale = seed.scale /\ seed'.todo = seed.todo
       /\ seed'.missing = left
  BY <1>1, <1>9 DEF SeedInv, SeedTypes, SeedPc
<1>11. UNCHANGED Spec1
  BY <1>10 DEF Spec1
<1>12. SeedTypes' /\ ThreadsOK' /\ UserOK'
  BY <1>1, <1>10, DataStays DEF Building
<1>13. SlotOK'
  BY <1>1, <1>7, <1>8, <1>10, <1>11 DEF SlotOK, SameLife
<1>14. WorkOK' /\ FailedOK'
  BY <1>1, <1>2, <1>10, <1>11 DEF WorkOK, FailedOK
<1> DEFINE L == Last(chain[c].versions)
           N == NumbersOf(chain[c])
<1>15. ASSUME ~chain[c].stray
       PROVE  /\ L \in Nat /\ L >= 1 /\ N = 1..L
              /\ \A i \in (1..n) \ left : i = 1 \/ i - 1 \in N
  <2>1. L \in Nat /\ L >= 1 /\ N = 1..L
    BY <1>2, <1>15, DenseChain DEF SeedInv
  <2>2. \A i \in (1..n) \ seed.missing : i \in N
    BY <1>4, <1>15 DEF AddSound
  <2> HIDE DEF L, N
  <2>3. ASSUME NEW i \in (1..n) \ left
        PROVE  i = 1 \/ i - 1 \in N
    <3>1. CASE i \in N
      BY <2>1, <3>1
    <3>2. CASE i = a
      <4>1. i \in 1..n /\ n \in Nat
        BY <1>2, <2>3
      <4>2. i = 1 \/ i - 1 \in 1..n
        BY ONLY <4>1
      <4>3. i - 1 \notin seed.missing
        BY <1>5, <3>2, <4>1
      <4> QED
        BY <2>2, <4>2, <4>3
    <3>3. CASE i \notin seed.missing
      BY <2>2, <2>3, <3>1, <3>3
    <3> QED
      BY <1>20, <2>3, <3>2, <3>3
  <2> QED
    BY <2>1, <2>3 DEF L, N
<1>16. MissingOK'
  BY <1>1, <1>9, <1>10, <1>11, <1>15 DEF MissingOK, InsertSound
<1>17. AloneOK'
  <2> SUFFICES ASSUME touched.chains = 0
               PROVE  /\ left \cap N = {} /\ OwnInsert(chain[c], n, left, r)
    BY <1>1, <1>8, <1>10, <1>11 DEF SeedInv, AloneOK
  <2>1. ~chain[c].stray /\ seed.missing \cap N = {}
    BY <1>1, <1>2 DEF SeedInv, AloneOK, OwnChains
  <2>2. left \cap N = {}
    BY <1>9, <2>1
  <2>3. L \in Nat /\ L >= 1 /\ N = 1..L /\ a \notin N
    BY <1>5, <1>15, <2>1
  <2>4. a = 1 \/ a - 1 \in N
    BY <1>4, <1>5, <1>15, <1>20, <2>1
  <2>5. a \in 1..n /\ a \notin left
    BY <1>4, <1>5, <1>20
  <2>6. L + 1 = a
    <3>1. a \in Nat /\ a >= 1
      BY <1>2, <2>5
    <3> HIDE DEF L, N
    <3> QED
      BY <2>3, <2>4, <3>1
  <2>7. L + 1 \in (1..n) \ left
    BY <2>5, <2>6
  <2> QED
    BY <1>7, <2>2, <2>7 DEF OwnInsert
<1> QED
  BY <1>6, <1>12, <1>13, <1>14, <1>16, <1>17 DEF SeedInv

LEMMA NextMissingKeeps ==
    ASSUME SeedInv, NextMissing
    PROVE  SeedInv'
<1>1. CASE seed.missing # {}
  BY <1>1, MissingIsAsked
<1>2. CASE seed.missing = {}
  <2> DEFINE rest == Tail(seed.todo)
  <2>1. /\ seed.pc = "add" /\ seed' = [seed EXCEPT !.todo = rest, !.pc = "chain"]
        /\ UNCHANGED <<chain, chainRequest, demoUser, demoThreads, largest, touched>>
    BY <1>2 DEF NextMissing
  <2>2. /\ seed.todo # << >> /\ Rest(chain, seed.scale, seed.todo) /\ seed.scale \in Nat
        /\ Spec1 = Head(seed.todo)
    BY <2>1, Spec1Is DEF SeedInv, SeedTypes, Building, Spec1
  <2>3. Covered(chain, Spec1)
    BY <1>2, <2>1 DEF SeedInv, MissingOK, AddSound, Covered, Covers
  <2>4. Rest(chain, seed.scale, rest) /\ rest \in Seq(SpecRow)
    BY <2>2, <2>3, RestHas
  <2> HIDE DEF rest
  <2>5. /\ seed' \in [pc : SeedPc, runs : Nat, scale : Nat, todo : Seq(SpecRow),
                      missing : SUBSET Nat]
        /\ seed'.pc = "chain" /\ seed'.scale = seed.scale /\ seed'.todo = rest
    BY <2>1, <2>4 DEF SeedInv, SeedTypes, SeedPc
  <2>6. SeedTypes' /\ ThreadsOK' /\ UserOK'
    BY <2>1, <2>5, DataStays DEF Building
  <2>7. ChainInv'
    BY <2>1, NothingChanges DEF SeedInv
  <2>8. SlotOK' /\ MissingOK' /\ FailedOK'
    BY <2>1, <2>5 DEF SeedInv, SlotOK, MissingOK, FailedOK
  <2>9. WorkOK'
    BY <2>1, <2>4, <2>5 DEF WorkOK
  <2>10. AloneOK'
    BY <2>1, <2>5 DEF SeedInv, AloneOK
  <2> QED
    BY <2>6, <2>7, <2>8, <2>9, <2>10 DEF SeedInv
<1> QED
  BY <1>1, <1>2

LEMMA DemoVersionRefused ==
    ASSUME SeedInv, InsertDemoVersion, Refused(chainRequest[SeedSlot])
    PROVE  SeedInv'
<1> DEFINE c == Spec1.name
           r == chainRequest[SeedSlot]
<1>1. /\ seed.pc = "insert version" /\ InsertVersion(SeedSlot) /\ Goto("failed")
      /\ UNCHANGED <<chain, demoUser, demoThreads, largest, touched>>
  BY DEF InsertDemoVersion, InsertVersion
<1>2. /\ SeedSlot \in ChainRequests /\ r.pc = "insert version" /\ r.chain = c
      /\ SetChain(SeedSlot, IdleChainRequest)
  BY <1>1, DemoSeedAssumption DEF InsertVersion, AnswerChain, SeedInv, SlotOK
<1>3. c \in ChainNames /\ chain[c].exists
  BY <1>1, Spec1Is DEF SeedInv, WorkOK, Building
<1>4. /\ chainRequest'[SeedSlot].pc = "idle"
      /\ \A q \in ChainRequests \ {SeedSlot} : chainRequest'[q] = chainRequest[q]
  <2>1. IdleChainRequest.pc = "idle"
    BY DEF IdleChainRequest
  <2> QED
    BY <1>2, <2>1, SlotOnly DEF SeedInv
<1>5. /\ seed' \in [pc : SeedPc, runs : Nat, scale : Nat, todo : Seq(SpecRow),
                    missing : SUBSET Nat]
      /\ seed'.pc = "failed" /\ seed'.scale = seed.scale /\ seed'.todo = seed.todo
  BY <1>1, Moved DEF SeedInv, SeedPc
<1>6. ChainInv'
  BY <1>1, <1>2, InsertVersionKeeps DEF SeedInv
<1>7. SeedTypes' /\ ThreadsOK' /\ UserOK'
  BY <1>1, <1>5, DataStays DEF Building
<1>8. SlotOK' /\ WorkOK' /\ MissingOK'
  BY <1>4, <1>5 DEF SlotOK, WorkOK, MissingOK
<1>9. AloneOK'
  BY <1>1, <1>4, <1>5 DEF SeedInv, AloneOK
<1>10. touched.chains # 0
  <2> SUFFICES ASSUME touched.chains = 0 PROVE FALSE
    OBVIOUS
  <2>1. r.no = Last(chain[c].versions) + 1
    BY <1>1, <1>2 DEF SeedInv, AloneOK, OwnInsert
  <2>2. r.no \in NumbersOf(chain[c])
    BY <1>2, <1>3 DEF Refused, Numbers, NumbersOf
  <2> QED
    BY <1>3, <2>1, <2>2, NextIsNew DEF SeedInv
<1>11. FailedOK'
  <2>1. touched.chains \in Nat /\ touched.user \in Nat
    BY DEF SeedInv, SeedTypes
  <2> QED
    BY <1>1, <1>10, <2>1, SumIsPositive DEF FailedOK
<1> QED
  BY <1>6, <1>7, <1>8, <1>9, <1>11 DEF SeedInv

LEMMA DemoVersionInserted ==
    ASSUME SeedInv, InsertDemoVersion, ~Refused(chainRequest[SeedSlot])
    PROVE  SeedInv'
<1> DEFINE c == Spec1.name
           n == Spec1.versions
           r == chainRequest[SeedSlot]
           k == Added(r)
<1>1. /\ seed.pc = "insert version" /\ InsertVersion(SeedSlot) /\ Goto("add")
      /\ UNCHANGED <<demoUser, demoThreads, largest, touched>>
  BY DEF InsertDemoVersion
<1>2. /\ SeedSlot \in ChainRequests /\ r.pc = "insert version" /\ r.chain = c
      /\ SetChain(SeedSlot, IdleChainRequest) /\ SameLife(r)
      /\ chain' = [chain EXCEPT ![c] = k]
  BY <1>1, DemoSeedAssumption DEF InsertVersion, AnswerChain, SeedInv, SlotOK
<1>3. /\ c \in ChainNames /\ c \in {DemoChain, SyntheticChain} /\ chain[c].exists
      /\ seed.todo # << >> /\ Rest(chain, seed.scale, seed.todo) /\ n \in Nat
      /\ chain[c] \in ChainRow
      /\ \/ Spec1 = Demo
         \/ seed.scale # 0 /\ Spec1 = Synthetic(seed.scale)
  BY <1>1, Spec1Is DEF SeedInv, WorkOK, Building, ChainInv, ChainTypes
<1>4. /\ chainRequest'[SeedSlot].pc = "idle"
      /\ \A q \in ChainRequests \ {SeedSlot} : chainRequest'[q] = chainRequest[q]
  <2>1. IdleChainRequest.pc = "idle"
    BY DEF IdleChainRequest
  <2> QED
    BY <1>2, <2>1, SlotOnly DEF SeedInv
<1>5. /\ seed' \in [pc : SeedPc, runs : Nat, scale : Nat, todo : Seq(SpecRow),
                    missing : SUBSET Nat]
      /\ seed'.pc = "add" /\ seed'.scale = seed.scale /\ seed'.todo = seed.todo
      /\ seed'.missing = seed.missing
  BY <1>1, Moved DEF SeedInv, SeedPc
<1>6. ChainInv' /\ Grown(chain, chain')
  BY <1>1, <1>2, InsertVersionKeeps, InsertVersionGrows DEF SeedInv
<1>7. SeedTypes' /\ ThreadsOK' /\ UserOK'
  BY <1>1, <1>5, DataStays DEF Building
<1>8. UNCHANGED Spec1
  BY <1>5 DEF Spec1
<1>9. /\ k.exists = TRUE /\ k.stray = chain[c].stray
      /\ NumbersOf(k) = NumbersOf(chain[c]) \cup {r.no}
  <2>1. /\ k.exists = chain[c].exists
        /\ k.stray = (chain[c].stray \/ ~SameLife(r))
        /\ k.versions = chain[c].versions \cup {[no |-> r.no, by |-> r.by]}
    BY <1>2, <1>3 DEF Added, ChainRow
  <2>2. chain[c].stray \in BOOLEAN /\ chain[c].exists = TRUE
    BY <1>3 DEF ChainRow
  <2>3. (chain[c].stray \/ ~SameLife(r)) = chain[c].stray
    BY <1>2, <2>2
  <2> DEFINE x == [no |-> r.no, by |-> r.by]
  <2>4. x.no = r.no /\ k.versions = chain[c].versions \cup {x}
    BY <2>1
  <2> HIDE DEF k, x
  <2>5. NumbersOf(k) = NumbersOf(chain[c]) \cup {r.no}
    BY <2>4 DEF NumbersOf
  <2> QED
    BY <2>1, <2>2, <2>3, <2>5
<1> HIDE DEF k
<1>10. \A d \in ChainNames : chain'[d] = IF d = c THEN k ELSE chain[d]
  BY <1>2 DEF SeedInv, ChainInv, ChainTypes
<1>11. SlotOK' /\ FailedOK'
  BY <1>4, <1>5 DEF SlotOK, FailedOK
<1>12. WorkOK'
  <2>1. Rest(chain', seed.scale, seed.todo)
    BY <1>3, <1>6, RestStays DEF SeedInv, SeedTypes
  <2> QED
    BY <1>3, <1>5, <1>8, <1>9, <1>10, <2>1 DEF WorkOK
<1> DEFINE L == Last(chain[c].versions)
           N == NumbersOf(chain[c])
<1>13. seed.missing \subseteq 1..n /\ InsertSound(chain[c], n, seed.missing)
  BY <1>1 DEF SeedInv, MissingOK
<1>14. ASSUME ~chain[c].stray
       PROVE  \A i \in (1..n) \ seed.missing : i \in NumbersOf(k)
  <2>1. L \in Nat /\ L >= 1 /\ N = 1..L
    BY <1>3, <1>14, DenseChain DEF SeedInv
  <2>2. r.no \in 1..MaxVersions /\ r.no <= L + 1
    BY <1>2, <1>3, <1>14 DEF SeedInv, ChainInv, RequestSound, ReadEarlier, SameLife
  <2>3. r.no \notin N
    BY <1>2 DEF Refused, Numbers, NumbersOf
  <2>4. r.no \in Nat /\ 1 <= r.no
    BY <2>2, VersionNumbers
  <2>5. \A i \in (1..n) \ seed.missing : i = 1 \/ i - 1 \in N
    BY <1>13, <1>14 DEF InsertSound
  <2> DEFINE no == r.no
  <2> HIDE DEF L, N, no
  <2>6. no = L + 1
    BY <2>1, <2>2, <2>3, <2>4 DEF no
  <2>7. ASSUME NEW i \in (1..n) \ seed.missing
        PROVE  i \in N \cup {no}
    <3>1. i \in Nat /\ i >= 1
      BY <1>3, <2>7
    <3>2. i = 1 \/ i - 1 \in N
      BY <2>5, <2>7
    <3> QED
      BY <2>1, <2>6, <3>1, <3>2
  <2> QED
    BY <1>9, <2>7 DEF N, no
<1>15. MissingOK'
  <2>1. AddSound(chain'[c], n, seed.missing)
    BY <1>3, <1>9, <1>10, <1>14 DEF AddSound
  <2> QED
    BY <1>5, <1>8, <1>13, <2>1 DEF MissingOK
<1>16. AloneOK'
  <2> SUFFICES ASSUME touched.chains = 0
               PROVE  AloneOK'
    BY <1>1 DEF AloneOK
  <2>1. /\ \A q \in ChainRequests \ {SeedSlot} : chainRequest[q].pc = "idle"
        /\ OwnChains(chain, largest) /\ seed.missing \cap N = {}
        /\ L + 1 \in (1..n) \ seed.missing /\ r.no = L + 1
    BY <1>1, <1>2 DEF SeedInv, AloneOK, OwnInsert
  <2>2. seed.missing \cap NumbersOf(k) = {}
    BY <1>9, <2>1
  <2>3. NumbersOf(k) \subseteq N \cup (1..n)
    BY <1>9, <2>1
  <2>4. \/ c = DemoChain /\ n = DemoVersions
        \/ c = SyntheticChain /\ 1..n \subseteq 1..Max({2, largest})
    <3>1. CASE Spec1 = Demo
      BY <3>1 DEF Demo
    <3>2. CASE Spec1 = Synthetic(seed.scale)
      <4> DEFINE m == Max({2, seed.scale})
                 o == Max({2, largest})
      <4>1. c = SyntheticChain /\ n = m
        BY <3>2 DEF Synthetic
      <4>2. seed.scale \in Nat /\ largest \in Nat /\ seed.scale <= largest
        BY DEF SeedInv, SeedTypes
      <4>3. m \in Nat /\ o \in Nat /\ m <= o
        BY <4>2, MaxOfTwo
      <4> HIDE DEF m, o
      <4>4. 1..m \subseteq 1..o
        BY <4>3
      <4> QED
        BY <4>1, <4>4 DEF o
    <3> QED
      BY <1>3, <3>1, <3>2
  <2>5. OwnChains(chain', largest)
    <3>1. DemoChain # SyntheticChain
      BY DemoSeedAssumption
    <3>2. /\ N \subseteq 1..n => NumbersOf(k) \subseteq 1..n
          /\ c = SyntheticChain => NumbersOf(k) \subseteq 1..Max({2, largest})
      BY <2>1, <2>3, <2>4, <3>1 DEF OwnChains
    <3>3. c = DemoChain => NumbersOf(k) \subseteq 1..DemoVersions
      BY <2>1, <2>3, <2>4, <3>1 DEF OwnChains
    <3>4. ~k.stray
      BY <1>3, <1>9, <2>1 DEF OwnChains
    <3> QED
      BY <1>3, <1>9, <1>10, <2>1, <3>1, <3>2, <3>3, <3>4, DemoSeedAssumption DEF OwnChains
  <2> QED
    BY <1>1, <1>3, <1>4, <1>5, <1>8, <1>10, <2>1, <2>2, <2>5 DEF AloneOK
<1> QED
  BY <1>6, <1>7, <1>11, <1>12, <1>15, <1>16 DEF SeedInv

LEMMA SeedInvInit == DemoSeedInit => SeedInv
<1> SUFFICES ASSUME DemoSeedInit PROVE SeedInv
  OBVIOUS
<1>1. /\ PromptChainsInit /\ seed = SeedOff /\ demoUser = NoUser /\ demoThreads = << >>
      /\ largest = 0 /\ touched = [chains |-> 0, user |-> 0]
  BY DEF DemoSeedInit
<1>2. ChainInv
  BY <1>1, InitIsSound
<1>3. seed.pc = "off" /\ seed.scale = 0 /\ seed.runs = 0 /\ seed.todo = << >>
      /\ seed.missing = {}
  BY <1>1 DEF SeedOff
<1>4. SeedTypes
  <2>1. seed \in [pc : SeedPc, runs : Nat, scale : Nat, todo : Seq(SpecRow),
                  missing : SUBSET Nat]
    BY <1>1 DEF SeedOff, SeedPc
  <2>2. demoUser \in [exists : BOOLEAN, asGiven : BOOLEAN, access : SUBSET Projects]
    BY <1>1 DEF NoUser
  <2>3. touched \in [chains : Nat, user : Nat]
    BY <1>1
  <2> QED
    BY <1>1, <1>3, <2>1, <2>2, <2>3 DEF SeedTypes
<1>5. ThreadsOK /\ UserOK /\ WorkOK /\ MissingOK /\ FailedOK
  BY <1>1, <1>3 DEF ThreadsOK, UserOK, WorkOK, MissingOK, FailedOK
<1>6. \A q \in ChainRequests : chainRequest[q].pc = "idle"
  BY <1>1 DEF PromptChainsInit, IdleChainRequest
<1>7. SlotOK
  BY <1>3, <1>6, DemoSeedAssumption DEF SlotOK
<1>8. AloneOK
  <2>1. \A c \in ChainNames : /\ chain[c].exists = FALSE /\ chain[c].stray = FALSE
                              /\ chain[c].versions = {}
    BY <1>1 DEF PromptChainsInit, NoChain
  <2>2. OwnChains(chain, largest)
    BY <2>1, DemoSeedAssumption DEF OwnChains, NumbersOf
  <2> QED
    BY <1>3, <1>6, <2>2 DEF AloneOK
<1> QED
  BY <1>2, <1>4, <1>5, <1>7, <1>8 DEF SeedInv

LEMMA SeedInvStutters == SeedInv /\ UNCHANGED allSeedVars => SeedInv'
<1> SUFFICES ASSUME SeedInv, UNCHANGED allSeedVars PROVE SeedInv'
  OBVIOUS
<1>1. UNCHANGED <<chain, chainRequest, seed, demoUser, demoThreads, largest, touched>>
  BY DEF allSeedVars
<1>2. ChainInv'
  BY <1>1, NothingChanges DEF SeedInv
<1>3. UNCHANGED Spec1
  BY <1>1 DEF Spec1
<1>4. SeedTypes' /\ ThreadsOK' /\ UserOK' /\ WorkOK' /\ FailedOK'
  BY <1>1, <1>3 DEF SeedInv, SeedTypes, ThreadsOK, UserOK, WorkOK, FailedOK
<1>5. SlotOK' /\ MissingOK' /\ AloneOK'
  BY <1>1, <1>3 DEF SeedInv, SlotOK, SameLife, MissingOK, AloneOK
<1> QED
  BY <1>2, <1>4, <1>5 DEF SeedInv

LEMMA SeedInvStep == SeedInv /\ [DemoSeedNext]_allSeedVars => SeedInv'
<1> SUFFICES ASSUME SeedInv, DemoSeedNext PROVE SeedInv'
  BY SeedInvStutters
<1>1. CASE StartSeed \/ ResetDatabase
  BY <1>1, StartSeedKeeps, ResetDatabaseKeeps
<1>2. CASE EnsureUser \/ EnsureAccess
  BY <1>2, EnsureUserKeeps, EnsureAccessKeeps
<1>3. CASE GetOrCreateThread \/ EnsureThreadMessages
  BY <1>3, GetOrCreateThreadKeeps, EnsureThreadMessagesKeeps
<1>4. CASE FindDemoChain \/ InsertDemoChain
  BY <1>4, FindDemoChainKeeps, InsertDemoChainKeeps
<1>5. CASE ReadVersions \/ NextMissing
  BY <1>5, ReadVersionsKeeps, NextMissingKeeps
<1>6. CASE ReadLatestOfDemo \/ InsertDemoVersion
  BY <1>6, ReadLatestOfDemoKeeps, DemoVersionRefused, DemoVersionInserted
<1>7. CASE FinishSeed \/ KillSeed
  BY <1>7, FinishSeedKeeps, KillSeedKeeps
<1>8. CASE ServerStep \/ ChangeDemoUser
  BY <1>8, ServerKeeps, ChangeDemoUserKeeps
<1> QED
  BY <1>1, <1>2, <1>3, <1>4, <1>5, <1>6, <1>7, <1>8 DEF DemoSeedNext, SeedStep

\* At the end every chain of the scale has its versions.
LEMMA DoneIsCovered ==
    ASSUME SeedInv, seed.pc = "done", NEW i \in DOMAIN ChainSpecs(seed.scale)
    PROVE  LET spec == ChainSpecs(seed.scale)[i]
           IN  /\ spec \in SpecRow /\ Covered(chain, spec)
               /\ \/ spec = Demo
                  \/ spec = Synthetic(seed.scale)
<1>1. seed.scale \in Nat /\ Rest(chain, seed.scale, seed.todo) /\ seed.todo = << >>
  BY DEF SeedInv, SeedTypes, WorkOK
<1> DEFINE d == Demo
           y == Synthetic(seed.scale)
           t == ChainSpecs(seed.scale)
<1>2. t = IF seed.scale = 0 THEN <<d>> ELSE <<d, y>>
  BY <1>1, ChainSpecsAre
<1>3. t # << >>
  BY <1>1, ChainSpecsAre
<1>4. Covered(chain, d) /\ (seed.scale # 0 => Covered(chain, y))
  <2>1. seed.todo # <<y>>
    BY <1>1
  <2> QED
    BY <1>1, <1>3, <2>1 DEF Rest
<1>5. d \in SpecRow /\ y \in SpecRow
  BY <1>1, SpecsAreRows
<1> HIDE DEF d, y
<1>6. CASE seed.scale = 0
  <2>1. t = <<d>>
    BY <1>2, <1>6
  <2>2. i = 1
    BY <2>1
  <2> QED
    BY <1>4, <1>5, <2>1, <2>2 DEF d
<1>7. CASE seed.scale # 0
  <2>1. t = <<d, y>>
    BY <1>2, <1>7
  <2>2. i = 1 \/ i = 2
    BY <2>1
  <2> QED
    BY <1>4, <1>5, <1>7, <2>1, <2>2 DEF d, y
<1> QED
  BY <1>6, <1>7

LEMMA SeedInvImplies == SeedInv => SeedIsWhole
<1> SUFFICES ASSUME SeedInv PROVE SeedIsWhole
  OBVIOUS
<1>1. seed.pc = "failed" => touched.chains + touched.user > 0
  BY DEF SeedInv, FailedOK
<1>2. ASSUME seed.pc = "done"
      PROVE  /\ demoThreads = <<TRUE>>
             /\ touched.user = 0 => demoUser = [exists |-> TRUE, asGiven |-> TRUE,
                                                access |-> DemoAccess]
  BY <1>2 DEF SeedInv, ThreadsOK, UserOK, Given
<1>3. ASSUME seed.pc = "done", NEW i \in DOMAIN ChainSpecs(seed.scale)
      PROVE  LET spec == ChainSpecs(seed.scale)[i]
             IN  /\ ~chain[spec.name].stray => 1..spec.versions \subseteq Numbers(spec.name)
                 /\ touched.chains = 0 /\ largest = seed.scale =>
                        1..spec.versions = Numbers(spec.name)
  <2> DEFINE s == ChainSpecs(seed.scale)[i]
  <2>1. /\ s \in SpecRow /\ Covered(chain, s)
        /\ \/ s = Demo
           \/ s = Synthetic(seed.scale)
    BY <1>3, DoneIsCovered
  <2> HIDE DEF s
  <2>2. s.name \in ChainNames /\ Numbers(s.name) = NumbersOf(chain[s.name])
    BY <2>1 DEF SpecRow, Numbers, NumbersOf
  <2>3. ~chain[s.name].stray => 1..s.versions \subseteq Numbers(s.name)
    BY <2>1, <2>2 DEF Covered, Covers
  <2>4. ASSUME touched.chains = 0, largest = seed.scale
        PROVE  Numbers(s.name) \subseteq 1..s.versions /\ ~chain[s.name].stray
    <3>1. OwnChains(chain, seed.scale)
      BY <2>4 DEF SeedInv, AloneOK
    <3> QED
      BY <2>1, <2>2, <3>1 DEF OwnChains, Demo, Synthetic
  <2>5. touched.chains = 0 /\ largest = seed.scale => 1..s.versions = Numbers(s.name)
    BY <2>3, <2>4
  <2> QED
    BY <2>3, <2>5 DEF s
<1> QED
  BY <1>1, <1>2, <1>3 DEF SeedIsWhole

\* However often the script is interrupted, run at other scales or with
\* --reset-db, and whatever the users of the server do to the chains and the
\* demo user meanwhile: at its end the thread, the user and the versions of the
\* chains are there, none twice, and it fails only after somebody else's change.
THEOREM SeedWhole == DemoSeedSpec => []SeedIsWhole
<1>1. DemoSeedSpec => []SeedInv
  BY SeedInvInit, SeedInvStep, PTL DEF DemoSeedSpec
<1> QED
  BY <1>1, SeedInvImplies, PTL

\* Beside the script, too, a chain names the author of its last version.
THEOREM SeedNamesAuthors == DemoSeedSpec => []ChainsNameTheirLastAuthor
<1>1. DemoSeedSpec => []SeedInv
  BY SeedInvInit, SeedInvStep, PTL DEF DemoSeedSpec
<1>2. SeedInv => ChainsNameTheirLastAuthor
  BY WholeChainsNameTheirAuthor DEF SeedInv
<1> QED
  BY <1>1, <1>2, PTL
=============================================================================
