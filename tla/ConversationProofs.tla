------------------------- MODULE ConversationProofs -------------------------
(***************************************************************************)
(* Theorems of Conversations, for every number of requests and threads,    *)
(* all batch sizes, and both kinds of database and of cache where nothing  *)
(* else is said.  The last part shows that the threads implement the logs  *)
(* of ThreadLog on a database that never gives an id twice.                *)
(***************************************************************************)
EXTENDS Conversations, FiniteSetTheorems, SequenceTheorems, WellFoundedInduction,
        TLAPS

-----------------------------------------------------------------------------
(* Bounded sets of numbers.                                                *)

\* A set of natural numbers that has a bound has a largest element: NextSeq
\* chooses one.
LEMMA LargestNumber ==
    ASSUME NEW S \in SUBSET Nat, S # {}, NEW b \in Nat, \A n \in S : n <= b
    PROVE  \E n \in S : \A m \in S : m <= n
<1> DEFINE R == OpToRel(<, Nat)
           U == {c \in Nat : \A n \in S : n <= c}
<1>1. IsWellFoundedOn(R, Nat)
    BY NatLessThanWellFounded
<1>2. b \in U
    OBVIOUS
<1>3. PICK c \in U : \A y \in U : <<y, c>> \notin R
    <2> HIDE DEF R
    <2>1. U \subseteq Nat /\ U # {}
        BY <1>2
    <2> QED BY <1>1, <2>1, WFMin
<1>4. ASSUME c \notin S PROVE FALSE
    <2> PICK n \in S : TRUE
        OBVIOUS
    <2>1. n < c /\ n \in Nat
        BY <1>4
    <2>2. c - 1 \in U
        BY <1>4, <2>1
    <2>3. <<c - 1, c>> \in R
        BY <2>1 DEF OpToRel
    <2> QED BY <2>2, <2>3, <1>3
<1> QED BY <1>4

-----------------------------------------------------------------------------
(* Types of the operators.                                                 *)

\* The sequence numbers in the table have a bound.
Bounded == \E b \in Nat : \A m \in messages : m.seq <= b

\* next_seq is one more than every number of the thread.
LEMMA NextSeqIsNext ==
    ASSUME messages \subseteq MessageRow, Bounded, NEW i \in Ids
    PROVE  /\ NextSeq(i) \in Nat \ {0}
           /\ \A m \in MessagesOf(i) : m.seq < NextSeq(i)
           /\ MessagesOf(i) = {} => NextSeq(i) = 1
           /\ MessagesOf(i) # {} =>
                \E m \in MessagesOf(i) : NextSeq(i) = m.seq + 1
<1>1. CASE MessagesOf(i) = {}
    BY <1>1 DEF NextSeq
<1>2. CASE MessagesOf(i) # {}
    <2> DEFINE S == {m.seq : m \in MessagesOf(i)}
               last == CHOOSE m \in MessagesOf(i) : \A n \in MessagesOf(i) : n.seq <= m.seq
    <2>1. S \in SUBSET Nat /\ S # {}
        BY <1>2 DEF MessagesOf, MessageRow
    <2>2. PICK b \in Nat : \A n \in S : n <= b
        BY DEF Bounded, MessagesOf
    <2>3. \E n \in S : \A m \in S : m <= n
        BY <2>1, <2>2, LargestNumber
    <2>4. \E m \in MessagesOf(i) : \A n \in MessagesOf(i) : n.seq <= m.seq
        BY <2>3
    <2>5. last \in MessagesOf(i) /\ \A n \in MessagesOf(i) : n.seq <= last.seq
        BY <2>4
    <2>6. NextSeq(i) = last.seq + 1
        BY <1>2 DEF NextSeq
    <2>7. \A m \in MessagesOf(i) : m.seq \in Nat \ {0}
        BY DEF MessagesOf, MessageRow
    <2> HIDE DEF last
    <2> QED BY <1>2, <2>5, <2>6, <2>7
<1> QED BY <1>1, <1>2

\* A key of the cache is of one of three kinds.
LEMMA KeyKinds ==
    ASSUME NEW key \in Keys
    PROVE  \/ key = <<"list", 0>>
           \/ key = <<"thread", key[2]>> /\ key[2] \in Ids
           \/ key = <<"messages", key[2]>> /\ key[2] \in Ids
BY DEF Keys

-----------------------------------------------------------------------------
(* The inductive invariant that holds for every constant.                  *)

Before == {"new", "lookup", "load", "fill", "start", "record", "recorded", "max", "commit"}

\* What a request is, by how far it is: its operation, and a thread id that has
\* been given out, the one it works on or the one it reads.
WellFormed(x, last) ==
    /\ x.op = "none" <=> x.pc = "new"
    /\ x.op = "read" => x.pc \in {"lookup", "load", "fill", "done"} /\ x.key \in Keys
                        /\ x.key[2] <= last
    /\ x.op \in {"append", "delete"} => x.id \in 1..last
    /\ x.op \in {"create", "import"} =>
            /\ x.pc \in {"start", "done"} \/ x.id \in 1..last
            /\ x.pc \notin {"lookup", "load", "fill"}
    /\ x.op = "create" => x.pc \in {"start", "refresh", "clear_list", "drop_thread",
                                    "drop_messages", "done"}
    /\ x.op = "append" => x.pc \in {"start", "max", "commit", "refresh", "clear_list",
                                    "drop_thread", "drop_messages", "done"}
    /\ x.pc = "commit" /\ x.op # "delete" => x.next # 0
    /\ x.op = "delete" => x.pc \in {"start", "commit", "clear_list", "drop_thread",
                                    "drop_messages", "done"}

Types ==
    /\ TypeOK
    /\ Bounded
    /\ \A q \in Requests : WellFormed(req[q], lastId)
    /\ \A q \in Requests : loaded[q] # Nil => req[q].pc = "fill"
    /\ \A q \in Requests : req[q].pc = "fill" => loaded[q] \in Payload(req[q].key)

Sent(q) == \E m \in messages : m.by = q

\* A message is one of those its sender brought to its thread, which is there;
\* it has been sent at the commit, together with the others of its batch.
Batches ==
    /\ \A m \in messages : Exists(m.thread) /\ m \in NewMessages(m.by)
    /\ \A q \in Requests : Sent(q) => req[q].pc \notin Before
    /\ \A q \in Requests : Sent(q) => NewMessages(q) \subseteq messages

\* uq_conversation_message_thread_seq
Unique == \A m, n \in messages : m.thread = n.thread /\ m.seq = n.seq => m = n

\* The row of an import belongs to the thread of its request; the request
\* completes it after the commit of its messages, or without having sent any.
ImportOK(q) ==
    imports[q] # Nil =>
        LET status == imports[q].status
        IN  /\ imports[q].thread = req[q].id
            /\ req[q].op = "import" /\ req[q].pc \notin {"new", "start", "record"}
            /\ req[q].pc = "complete" \/ status # "pending" =>
                    IF req[q].error THEN ~Sent(q) ELSE NewMessages(q) \subseteq messages
            /\ status # "pending" =>
                    req[q].pc \notin Before /\ (status = "failed" <=> req[q].error)

\* Only an import meets an error, and it then sends nothing.
ErrorsAreLate == \A q \in Requests : req[q].error => req[q].pc \notin Before

Imports == \A q \in Requests : ImportOK(q)

GInv == Types /\ Batches /\ Unique /\ ErrorsAreLate /\ Imports

-----------------------------------------------------------------------------
(* Types.                                                                  *)

Pcs == {"new", "lookup", "load", "fill", "start", "max", "commit", "refresh", "record",
        "recorded", "complete", "reload", "clear_list", "drop_thread", "drop_messages",
        "done"}

LEMMA InitTypes == Init => Types
<1> SUFFICES ASSUME Init PROVE Types
    OBVIOUS
<1>1. lastId \in Ids \cup {0} /\ imports \in [Requests -> ImportRow \cup {Nil}]
    BY DEF Init
<1>2. req \in [Requests -> Request]
    BY DEF Init, Request, Blank, AllOperations
<1>3. TypeOK
    BY <1>1, <1>2 DEF Init, TypeOK
<1>4. Bounded
    BY DEF Init, Bounded
<1> QED BY <1>3, <1>4 DEF Init, Types, WellFormed, Blank, Before

\* A request changes; the rest of Types is as it was.
LEMMA RequestChanges ==
    ASSUME Types, NEW q \in Requests, NEW x \in Request, req' = [req EXCEPT ![q] = x],
           lastId' \in Ids \cup {0}, lastId <= lastId', WellFormed(x, lastId')
    PROVE  /\ req' \in [Requests -> Request]
           /\ \A p \in Requests : WellFormed(req'[p], lastId')
<1>1. req' \in [Requests -> Request]
    BY DEF Types, TypeOK
<1>2. ASSUME NEW p \in Requests PROVE WellFormed(req'[p], lastId')
    <2>1. CASE p = q
        BY <2>1 DEF Types, TypeOK
    <2>2. CASE p # q
        <3>1. req'[p] = req[p] /\ WellFormed(req[p], lastId) /\ req[p] \in Request
            BY <2>2 DEF Types, TypeOK
        <3>2. lastId \in Nat /\ lastId' \in Nat
            BY ConversationAssumption DEF Types, TypeOK, Ids
        <3>3. req[p].key \in Keys => req[p].key[2] \in Nat
            BY ConversationAssumption, KeyKinds DEF Ids
        <3>4. req[p].id \in Nat
            BY <3>1, ConversationAssumption DEF Request, Ids
        <3> QED BY <3>1, <3>2, <3>3, <3>4 DEF WellFormed
    <2> QED BY <2>1, <2>2
<1> QED BY <1>1, <1>2

TablesTyped ==
    /\ threads \in [Ids -> ThreadRow \cup {Nil}]
    /\ lastId \in Ids \cup {0}
    /\ messages \subseteq MessageRow
    /\ imports \in [Requests -> ImportRow \cup {Nil}]
    /\ Bounded

\* A step of a request that is not about to store what it has loaded.
LEMMA TypesKept ==
    ASSUME Types, NEW q \in Requests, NEW x \in Request, req' = [req EXCEPT ![q] = x],
           TablesTyped', lastId <= lastId', WellFormed(x, lastId'),
           DOMAIN cache' = Keys,
           \A key \in Keys : cache'[key] = Nil \/ cache'[key] \in Entry(key),
           UNCHANGED loaded, loaded[q] = Nil, x.pc # "fill"
    PROVE  Types'
<1>1. /\ req' \in [Requests -> Request]
      /\ \A p \in Requests : WellFormed(req'[p], lastId')
    BY RequestChanges DEF TablesTyped
<1>2. \A p \in Requests : 
        /\ loaded'[p] # Nil => loaded'[p] \in Payload(req'[p].key) /\ req'[p].pc = "fill"
        /\ req'[p].pc = "fill" => loaded'[p] \in Payload(req'[p].key)
    BY DEF Types, TypeOK
<1> QED BY <1>1, <1>2 DEF Types, TypeOK, TablesTyped

\* A step of a request that changes nothing else.
LEMMA OnlyRequestTypes ==
    ASSUME Types, NEW q \in Requests, NEW x \in Request, req' = [req EXCEPT ![q] = x],
           WellFormed(x, lastId), UNCHANGED <<tables, cache, loaded>>, loaded[q] = Nil,
           x.pc # "fill"
    PROVE  Types'
<1>1. TablesTyped'
    BY DEF tables, Types, TypeOK, TablesTyped, Bounded
<1>2. lastId' = lastId /\ lastId <= lastId'
    BY ConversationAssumption DEF tables, Types, TypeOK, Ids
<1> QED BY <1>1, <1>2, TypesKept DEF Types, TypeOK

LEMMA StartTypes ==
    ASSUME Types, NEW q \in Requests, Start(q)
    PROVE  Types'
<1> USE ConversationAssumption DEF Ids
<1>0. lastId \in 0..MaxId
    BY DEF Types, TypeOK
<1>1. lastId \in 0..MaxId /\ loaded[q] = Nil
    BY <1>0 DEF Start, At, Types
<1>2. CASE \E op \in Operations \ {"read"} :
            \E i \in IF op \in {"create", "import"} THEN {0} ELSE 1..lastId,
               size \in IF op \in {"append", "import"} THEN BatchSizes ELSE {0} :
                req' = [req EXCEPT ![q] =
                            [Blank EXCEPT !.op = op, !.pc = "start", !.id = i, !.size = size]]
    <2>1. PICK op \in Operations \ {"read"} :
            \E i \in IF op \in {"create", "import"} THEN {0} ELSE 1..lastId,
               size \in IF op \in {"append", "import"} THEN BatchSizes ELSE {0} :
                req' = [req EXCEPT ![q] =
                            [Blank EXCEPT !.op = op, !.pc = "start", !.id = i, !.size = size]]
        BY <1>2
    <2>2. PICK i \in IF op \in {"create", "import"} THEN {0} ELSE 1..lastId,
               size \in IF op \in {"append", "import"} THEN BatchSizes ELSE {0} :
                req' = [req EXCEPT ![q] =
                            [Blank EXCEPT !.op = op, !.pc = "start", !.id = i, !.size = size]]
        BY <2>1
    <2> DEFINE x == [Blank EXCEPT !.op = op, !.pc = "start", !.id = i, !.size = size]
    <2>3. op \in {"create", "append", "import", "delete"}
        BY DEF AllOperations
    <2>4. i \in Ids \cup {0} /\ size \in BatchSizes \cup {0}
        BY <1>1, <2>3
    <2>5. x \in Request
        BY <2>3, <2>4 DEF Request, Blank, AllOperations
    <2>6. WellFormed(x, lastId)
        BY <2>3, <2>4 DEF WellFormed, Blank
    <2>7. req' = [req EXCEPT ![q] = x] /\ UNCHANGED <<tables, cache, loaded>>
        BY <2>2 DEF Start
    <2>8. x.pc # "fill"
        BY DEF Blank
    <2> HIDE DEF x
    <2> QED BY <1>1, <2>5, <2>6, <2>7, <2>8, OnlyRequestTypes
<1>3. CASE \E key \in Keys :
               /\ key[2] <= lastId
               /\ req' = [req EXCEPT ![q] =
                            [Blank EXCEPT !.op = "read", !.pc = "lookup", !.key = key]]
    <2>1. PICK key \in Keys :
               /\ key[2] <= lastId
               /\ req' = [req EXCEPT ![q] =
                            [Blank EXCEPT !.op = "read", !.pc = "lookup", !.key = key]]
        BY <1>3
    <2> DEFINE x == [Blank EXCEPT !.op = "read", !.pc = "lookup", !.key = key]
    <2>2. x \in Request
        BY DEF Request, Blank, AllOperations
    <2>3. WellFormed(x, lastId)
        BY <2>1 DEF WellFormed, Blank
    <2>4. req' = [req EXCEPT ![q] = x] /\ UNCHANGED <<tables, cache, loaded>>
        BY <2>1 DEF Start
    <2>5. x.pc # "fill"
        BY DEF Blank
    <2> HIDE DEF x
    <2> QED BY <1>1, <2>2, <2>3, <2>4, <2>5, OnlyRequestTypes
<1> QED BY <1>2, <1>3 DEF Start

\* What a key stores is of its type.
LEMMA StoredTypes ==
    ASSUME Types, NEW key \in Keys
    PROVE  Stored(key) \in Payload(key)
BY KeyKinds DEF Types, TypeOK, Stored, Payload, MessagesOf

LEMMA ReadTypes ==
    ASSUME Types, NEW q \in Requests, Lookup(q) \/ Load(q) \/ Fill(q)
    PROVE  Types'
<1> DEFINE key == req[q].key
<1>1. req[q] \in Request /\ WellFormed(req[q], lastId)
    BY DEF Types, TypeOK
<1>2. key \in Keys /\ req[q].op = "read" /\ req[q].pc \in {"lookup", "load", "fill"}
    BY <1>1 DEF Lookup, Load, Fill, At, WellFormed, Request, AllOperations
<1>3. CASE Lookup(q)
    <2>1. loaded[q] = Nil /\ UNCHANGED <<tables, cache, loaded>>
        BY <1>3 DEF Lookup, At, Types
    <2>2. PICK x \in {[req[q] EXCEPT !.pc = "done", !.ok = TRUE],
                      [req[q] EXCEPT !.pc = "load"]} : req' = [req EXCEPT ![q] = x]
        BY <1>3 DEF Lookup, Succeed, Goto, Types, TypeOK
    <2>3. x \in Request /\ WellFormed(x, lastId)
        BY <1>1, <1>2 DEF Request, WellFormed
    <2>4. x.pc # "fill"
        BY <1>1 DEF Request
    <2> QED BY <2>1, <2>2, <2>3, <2>4, OnlyRequestTypes
<1>4. CASE Load(q)
    <2>1. loaded[q] = Nil /\ UNCHANGED <<tables, cache>>
        BY <1>4 DEF Load, At, Types
    <2>2. PICK x \in {[req[q] EXCEPT !.pc = "done"], [req[q] EXCEPT !.pc = "fill"]} :
                /\ req' = [req EXCEPT ![q] = x]
                /\ \/ UNCHANGED loaded /\ x.pc = "done"
                   \/ loaded' = [loaded EXCEPT ![q] = Stored(key)] /\ x.pc = "fill"
        BY <1>4, <1>1 DEF Load, Fail, Goto, Types, TypeOK, Request
    <2>3. x \in Request /\ WellFormed(x, lastId) /\ x.key = key
        BY <1>1, <1>2 DEF Request, WellFormed
    <2>4. TablesTyped' /\ lastId' = lastId /\ lastId <= lastId'
        BY <2>1, ConversationAssumption DEF tables, Types, TypeOK, TablesTyped, Bounded, Ids
    <2>5. /\ req' \in [Requests -> Request]
          /\ \A p \in Requests : WellFormed(req'[p], lastId')
        BY <2>2, <2>3, <2>4, RequestChanges DEF TablesTyped
    <2>6. DOMAIN loaded' = Requests
        BY <2>2 DEF Types, TypeOK
    <2>7. \A p \in Requests : 
                /\ loaded'[p] # Nil =>
                        loaded'[p] \in Payload(req'[p].key) /\ req'[p].pc = "fill"
                /\ req'[p].pc = "fill" => loaded'[p] \in Payload(req'[p].key)
        BY <1>2, <2>1, <2>2, <2>3, StoredTypes DEF Types, TypeOK
    <2> QED BY <2>1, <2>4, <2>5, <2>6, <2>7 DEF Types, TypeOK, TablesTyped
<1>5. CASE Fill(q)
    <2> DEFINE e == [payload |-> loaded[q], current |-> loaded[q] = Stored(key)]
               x == [req[q] EXCEPT !.pc = "done", !.ok = TRUE]
    <2>1. /\ cache' = [cache EXCEPT ![key] = e] \/ UNCHANGED cache
          /\ req' = [req EXCEPT ![q] = x]
          /\ loaded' = [loaded EXCEPT ![q] = Nil]
          /\ UNCHANGED tables
        BY <1>5, <1>1 DEF Fill, Succeed, Types, TypeOK, Request
    <2>2. x \in Request /\ WellFormed(x, lastId) /\ x.key = key
        BY <1>1, <1>2 DEF Request, WellFormed
    <2>3. TablesTyped' /\ lastId' = lastId /\ lastId <= lastId'
        BY <2>1, ConversationAssumption DEF tables, Types, TypeOK, TablesTyped, Bounded, Ids
    <2>4. /\ req' \in [Requests -> Request]
          /\ \A p \in Requests : WellFormed(req'[p], lastId')
        BY <2>1, <2>2, <2>3, RequestChanges DEF TablesTyped
    <2>5. e \in Entry(key)
        BY <1>5 DEF Entry, Fill, At, Types
    <2>6. DOMAIN cache' = Keys /\ \A k \in Keys : cache'[k] = Nil \/ cache'[k] \in Entry(k)
        BY <2>1, <2>5 DEF Types, TypeOK
    <2>7. DOMAIN loaded' = Requests /\ \A p \in Requests : 
                /\ loaded'[p] # Nil =>
                        loaded'[p] \in Payload(req'[p].key) /\ req'[p].pc = "fill"
                /\ req'[p].pc = "fill" => loaded'[p] \in Payload(req'[p].key)
        BY <2>1 DEF Types, TypeOK
    <2> QED BY <2>3, <2>4, <2>6, <2>7 DEF Types, TypeOK, TablesTyped
<1> QED BY <1>3, <1>4, <1>5

LEMMA CreateThreadTypes ==
    ASSUME Types, NEW q \in Requests, CreateThread(q)
    PROVE  Types'
<1> DEFINE row == [creator |-> q, updated |-> q]
           x == [req[q] EXCEPT !.pc = IF req[q].op = "create" THEN "refresh" ELSE "record",
                               !.id = NewId, !.thread = q]
<1>1. /\ req[q].pc = "start" /\ req[q].op \in {"create", "import"} /\ NewId \in Ids
      /\ threads' = [threads EXCEPT ![NewId] = row]
      /\ lastId' = IF NewId > lastId THEN NewId ELSE lastId
      /\ req' = [req EXCEPT ![q] = x]
      /\ UNCHANGED <<messages, imports, cache, loaded>>
    BY DEF CreateThread, At, Types, TypeOK, Request
<1>2. req[q] \in Request /\ lastId \in Nat /\ NewId \in Nat
    BY <1>1, ConversationAssumption DEF Types, TypeOK, Ids
<1> HIDE DEF NewId
<1>3. x \in Request
    BY <1>1, <1>2 DEF Request
<1>4. lastId' \in Ids \cup {0} /\ lastId <= lastId' /\ NewId <= lastId'
    BY <1>1, <1>2 DEF Types, TypeOK
<1>5. WellFormed(x, lastId')
    <2>1. x.id = NewId /\ x.op = req[q].op
          /\ x.pc = IF req[q].op = "create" THEN "refresh" ELSE "record"
        BY <1>2 DEF Request
    <2>2. x.id \in 1..lastId'
        BY <1>1, <1>2, <1>4, <2>1, ConversationAssumption DEF Ids
    <2> HIDE DEF x
    <2> QED BY <1>1, <2>1, <2>2 DEF WellFormed
<1>6. TablesTyped'
    BY <1>1, <1>4 DEF Types, TypeOK, TablesTyped, ThreadRow, Bounded
<1>7. loaded[q] = Nil /\ x.pc # "fill"
    BY <1>1, <1>2 DEF Types, Request
<1> HIDE DEF x
<1> QED BY <1>1, <1>3, <1>4, <1>5, <1>6, <1>7, TypesKept DEF Types, TypeOK

\* A request goes to pc, and changes a table or not.
LEMMA GotoTypes ==
    ASSUME Types, NEW q \in Requests, NEW pc \in Pcs, NEW x, req' = [req EXCEPT ![q] = x],
           x = [req[q] EXCEPT !.pc = pc] \/ x = [req[q] EXCEPT !.pc = pc, !.ok = TRUE],
           WellFormed([req[q] EXCEPT !.pc = pc], lastId),
           req[q].pc # "fill", pc # "fill",
           UNCHANGED <<lastId, cache, loaded>>, TablesTyped'
    PROVE  Types'
<1>1. req[q] \in Request
    BY DEF Types, TypeOK
<1>2. x \in Request /\ x.pc = pc
    <2>1. pc \in {"new", "lookup", "load", "fill", "start", "max", "commit",
                  "refresh", "record", "recorded", "complete", "reload",
                  "clear_list", "drop_thread", "drop_messages", "done"}
        BY DEF Pcs
    <2>2. CASE x = [req[q] EXCEPT !.pc = pc]
        BY <1>1, <2>1, <2>2 DEF Request
    <2>3. CASE x = [req[q] EXCEPT !.pc = pc, !.ok = TRUE]
        BY <1>1, <2>1, <2>3 DEF Request
    <2> QED BY <2>2, <2>3
<1>3. WellFormed(x, lastId)
    BY <1>1, <1>2 DEF Request, WellFormed
<1>4. lastId <= lastId' /\ WellFormed(x, lastId')
    BY <1>3, ConversationAssumption DEF Types, TypeOK, Ids
<1>5. loaded[q] = Nil
    BY DEF Types
<1> QED BY <1>2, <1>4, <1>5, TypesKept DEF Types, TypeOK

LEMMA TablesUnchanged == ASSUME Types, UNCHANGED tables PROVE TablesTyped'
BY DEF tables, Types, TypeOK, TablesTyped, Bounded

LEMMA CreateImportTypes ==
    ASSUME Types, NEW q \in Requests, CreateImport(q)
    PROVE  Types'
<1>1. req[q].pc = "record" /\ req[q] \in Request /\ WellFormed(req[q], lastId)
    BY DEF CreateImport, At, Types, TypeOK
<1>2. req[q].op = "import" /\ req[q].id \in Ids
    BY <1>1, ConversationAssumption DEF WellFormed, Request, AllOperations, Types, TypeOK, Ids
<1>3. PICK pc \in {"recorded", "done"} : req' = [req EXCEPT ![q] = [req[q] EXCEPT !.pc = pc]]
    BY DEF CreateImport, Goto, Fail, Types, TypeOK
<1>4. TablesTyped'
    <2> DEFINE row == [thread |-> req[q].id, status |-> "pending"]
    <2>1. row \in ImportRow
        BY <1>2 DEF ImportRow
    <2>2. imports' = [imports EXCEPT ![q] = row] \/ imports' = imports
        BY DEF CreateImport
    <2>3. imports' \in [Requests -> ImportRow \cup {Nil}]
        BY <2>1, <2>2 DEF Types, TypeOK
    <2> QED BY <2>3 DEF CreateImport, Types, TypeOK, TablesTyped, Bounded
<1>5. WellFormed([req[q] EXCEPT !.pc = pc], lastId)
    BY <1>1, <1>2 DEF WellFormed, Request
<1> QED BY <1>1, <1>3, <1>4, <1>5, GotoTypes DEF CreateImport, Pcs

LEMMA ParseImportTypes ==
    ASSUME Types, NEW q \in Requests, ParseImport(q)
    PROVE  Types'
<1>1. /\ req[q].pc = "recorded" /\ req[q] \in Request /\ WellFormed(req[q], lastId)
      /\ loaded[q] = Nil /\ UNCHANGED <<tables, cache, loaded>>
    BY DEF ParseImport, At, Types, TypeOK
<1>2. PICK x \in {[req[q] EXCEPT !.pc = "max"], [req[q] EXCEPT !.pc = "done"],
                  [req[q] EXCEPT !.pc = "complete", !.error = TRUE]} :
            req' = [req EXCEPT ![q] = x]
    BY <1>1 DEF ParseImport, Goto, Fail, Types, TypeOK
<1>3. x \in Request /\ WellFormed(x, lastId) /\ x.pc # "fill"
    BY <1>1 DEF WellFormed, Request, AllOperations
<1> QED BY <1>1, <1>2, <1>3, OnlyRequestTypes

LEMMA FindThreadTypes ==
    ASSUME Types, NEW q \in Requests, FindThread(q)
    PROVE  Types'
<1> DEFINE y == [req[q] EXCEPT !.thread = threads[req[q].id].creator,
                               !.pc = IF req[q].op = "append" THEN "max" ELSE "commit"]
<1>1. /\ req[q].pc = "start" /\ req[q] \in Request /\ WellFormed(req[q], lastId)
      /\ req[q].op \in {"append", "delete"}
      /\ loaded[q] = Nil /\ UNCHANGED <<tables, cache, loaded>>
    BY DEF FindThread, At, Types, TypeOK
<1>2. req[q].id \in Ids
    BY <1>1, ConversationAssumption DEF WellFormed, Types, TypeOK, Ids
<1>3. CASE Exists(req[q].id)
    <2>1. threads[req[q].id].creator \in Requests
        BY <1>2, <1>3 DEF Exists, Types, TypeOK, ThreadRow
    <2>2. req' = [req EXCEPT ![q] = y]
        BY <1>3 DEF FindThread
    <2>3. y \in Request /\ WellFormed(y, lastId) /\ y.pc # "fill"
        BY <1>1, <2>1 DEF WellFormed, Request, AllOperations
    <2> HIDE DEF y
    <2> QED BY <1>1, <2>2, <2>3, OnlyRequestTypes
<1>4. CASE ~Exists(req[q].id)
    <2> DEFINE x == [req[q] EXCEPT !.pc = "done"]
    <2>1. req' = [req EXCEPT ![q] = x]
        BY <1>4 DEF FindThread, Fail, Goto
    <2>2. x \in Request /\ WellFormed(x, lastId) /\ x.pc # "fill"
        BY <1>1 DEF WellFormed, Request, AllOperations
    <2> HIDE DEF x
    <2> QED BY <1>1, <2>1, <2>2, OnlyRequestTypes
<1> QED BY <1>3, <1>4

LEMMA ReadMaxSeqTypes ==
    ASSUME Types, NEW q \in Requests, ReadMaxSeq(q)
    PROVE  Types'
<1> DEFINE x == [req[q] EXCEPT !.pc = "commit", !.next = NextSeq(req[q].id)]
<1>1. /\ req[q].pc = "max" /\ req[q] \in Request /\ WellFormed(req[q], lastId)
      /\ loaded[q] = Nil /\ UNCHANGED <<tables, cache, loaded>>
    BY DEF ReadMaxSeq, At, Types, TypeOK
<1>2. req[q].id \in Ids
    BY <1>1, ConversationAssumption DEF WellFormed, Request, AllOperations, Types, TypeOK, Ids
<1>3. NextSeq(req[q].id) \in Nat \ {0}
    BY <1>2, NextSeqIsNext DEF Types, TypeOK
<1>4. x \in Request /\ WellFormed(x, lastId) /\ x.pc # "fill"
    BY <1>1, <1>3 DEF WellFormed, Request, AllOperations
<1>5. req' = [req EXCEPT ![q] = x]
    BY DEF ReadMaxSeq
<1> HIDE DEF x
<1> QED BY <1>1, <1>4, <1>5, OnlyRequestTypes

\* The numbers of a request.
LEMMA Numbers ==
    ASSUME Types, NEW q \in Requests
    PROVE  req[q].size \in Nat /\ req[q].next \in Nat
<1>1. req[q] \in Request
    BY DEF Types, TypeOK
<1>2. req[q].next \in Nat /\ req[q].size \in BatchSizes \cup {0}
    BY <1>1 DEF Request
<1>3. req[q].size \in Nat
    BY <1>2, ConversationAssumption
<1> QED BY <1>2, <1>3

LEMMA NewMessagesTyped ==
    ASSUME Types, NEW q \in Requests, req[q].id \in Ids, req[q].next # 0
    PROVE  /\ NewMessages(q) \subseteq MessageRow
           /\ \A m \in NewMessages(q) : m.seq <= req[q].next + req[q].size
                                        /\ m.thread = req[q].id /\ m.by = q
           /\ req[q].next + req[q].size \in Nat
BY Numbers DEF NewMessages, MessageRow

LEMMA CommitMessagesTypes ==
    ASSUME Types, NEW q \in Requests, CommitMessages(q)
    PROVE  Types'
<1>1. /\ req[q].pc = "commit" /\ req[q].op \in {"append", "import"}
      /\ req[q] \in Request /\ WellFormed(req[q], lastId)
    BY DEF CommitMessages, At, Types, TypeOK
<1>2. req[q].id \in Ids /\ req[q].next # 0
    BY <1>1, ConversationAssumption DEF WellFormed, Types, TypeOK, Ids
<1>3. CASE FlushSucceeds(q)
    <2> DEFINE pc == IF req[q].op = "append" THEN "refresh" ELSE "complete"
    <2>1. /\ threads' = [threads EXCEPT ![req[q].id].updated = q]
          /\ messages' = messages \cup NewMessages(q)
          /\ req' = [req EXCEPT ![q] = [req[q] EXCEPT !.pc = pc]]
          /\ UNCHANGED <<lastId, imports, cache, loaded>>
        BY <1>3 DEF CommitMessages, Goto
    <2>2. WellFormed([req[q] EXCEPT !.pc = pc], lastId)
        BY <1>1 DEF WellFormed, Request
    <2>3. threads' \in [Ids -> ThreadRow \cup {Nil}]
        BY <1>2, <1>3, <2>1 DEF FlushSucceeds, Exists, Types, TypeOK, ThreadRow
    <2>4. messages' \subseteq MessageRow
        BY <1>2, <2>1, NewMessagesTyped DEF Types, TypeOK
    <2>5. Bounded'
        <3>1. PICK b \in Nat : \A m \in messages : m.seq <= b
            BY DEF Types, Bounded
        <3> DEFINE c == req[q].next + req[q].size
                   d == IF b <= c THEN c ELSE b
        <3>2. c \in Nat /\ \A m \in NewMessages(q) : m.seq <= c
            BY <1>2, NewMessagesTyped
        <3> HIDE DEF c
        <3>3. d \in Nat /\ b <= d /\ c <= d
            BY <3>2
        <3> HIDE DEF d
        <3>4. \A m \in messages' : m.seq \in Nat
            BY <2>4 DEF MessageRow
        <3>5. \A m \in messages' : m.seq <= d
            BY <2>1, <3>1, <3>2, <3>3, <3>4
        <3> QED BY <3>3, <3>5 DEF Bounded
    <2>6. TablesTyped'
        BY <2>1, <2>3, <2>4, <2>5 DEF TablesTyped, Types, TypeOK
    <2>7. pc \in Pcs /\ pc # "fill"
        BY DEF Pcs
    <2> HIDE DEF pc
    <2> QED BY <1>1, <2>1, <2>2, <2>6, <2>7, GotoTypes
<1>4. CASE ~FlushSucceeds(q)
    <2>1. /\ req' = [req EXCEPT ![q] = [req[q] EXCEPT !.pc = "done"]]
          /\ UNCHANGED <<tables, cache, loaded>>
        BY <1>4 DEF CommitMessages, Fail, Goto, tables
    <2>2. WellFormed([req[q] EXCEPT !.pc = "done"], lastId)
        BY <1>1 DEF WellFormed, Request
    <2>3. TablesTyped'
        BY <2>1, TablesUnchanged
    <2> QED BY <1>1, <2>1, <2>2, <2>3, GotoTypes DEF Pcs, tables
<1> QED BY <1>3, <1>4

LEMMA CompleteImportTypes ==
    ASSUME Types, NEW q \in Requests, CompleteImport(q)
    PROVE  Types'
<1>1. req[q].pc = "complete" /\ req[q] \in Request /\ WellFormed(req[q], lastId)
    BY DEF CompleteImport, At, Types, TypeOK
<1>2. req[q].op = "import"
    BY <1>1 DEF WellFormed, Request, AllOperations
<1>3. PICK pc \in {"refresh", "done"} : req' = [req EXCEPT ![q] = [req[q] EXCEPT !.pc = pc]]
    BY DEF CompleteImport, Goto, Fail, Types, TypeOK
<1>4. imports' \in [Requests -> ImportRow \cup {Nil}]
    BY DEF CompleteImport, Types, TypeOK, ImportRow, Status
<1>5. TablesTyped'
    BY <1>4 DEF CompleteImport, Types, TypeOK, TablesTyped, Bounded
<1>6. WellFormed([req[q] EXCEPT !.pc = pc], lastId)
    BY <1>1, <1>2 DEF WellFormed, Request
<1> QED BY <1>1, <1>3, <1>5, <1>6, GotoTypes DEF CompleteImport, Pcs

LEMMA RefreshTypes ==
    ASSUME Types, NEW q \in Requests, Refresh(q) \/ ReloadThread(q)
    PROVE  Types'
<1>1. /\ req[q].pc \in {"refresh", "reload"} /\ req[q] \in Request
      /\ WellFormed(req[q], lastId) /\ UNCHANGED <<tables, cache, loaded>>
    BY DEF Refresh, ReloadThread, At, Types, TypeOK
<1>2. PICK pc \in {"reload", "clear_list", "done"} :
            /\ req' = [req EXCEPT ![q] = [req[q] EXCEPT !.pc = pc]]
            /\ pc = "reload" => req[q].op = "import"
    BY DEF Refresh, ReloadThread, Goto, Fail
<1>3. WellFormed([req[q] EXCEPT !.pc = pc], lastId)
    BY <1>1, <1>2 DEF WellFormed, Request, AllOperations
<1> QED BY <1>1, <1>2, <1>3, TablesUnchanged, GotoTypes DEF Pcs, tables

LEMMA DeleteThreadTypes ==
    ASSUME Types, NEW q \in Requests, DeleteThread(q)
    PROVE  Types'
<1>1. /\ req[q].pc = "commit" /\ req[q].op = "delete"
      /\ req[q] \in Request /\ WellFormed(req[q], lastId)
      /\ UNCHANGED <<lastId, cache, loaded>>
      /\ req' = [req EXCEPT ![q] = [req[q] EXCEPT !.pc = "clear_list"]]
    BY DEF DeleteThread, At, Goto, Types, TypeOK
<1>2. WellFormed([req[q] EXCEPT !.pc = "clear_list"], lastId)
    BY <1>1 DEF WellFormed, Request
<1>3. TablesTyped'
    BY <1>1 DEF DeleteThread, Types, TypeOK, TablesTyped, Bounded, MessagesOf
<1> QED BY <1>1, <1>2, <1>3, GotoTypes DEF Pcs

LEMMA CommitRaisesTypes ==
    ASSUME Types, NEW q \in Requests, CommitRaises(q)
    PROVE  Types'
<1>1. /\ req[q].pc \in {"start", "record", "commit", "complete"}
      /\ req[q] \in Request /\ WellFormed(req[q], lastId)
      /\ UNCHANGED <<tables, cache, loaded>>
      /\ req' = [req EXCEPT ![q] = [req[q] EXCEPT !.pc = "done"]]
    BY DEF CommitRaises, Fail, Goto, Types, TypeOK
<1>2. WellFormed([req[q] EXCEPT !.pc = "done"], lastId)
    BY <1>1 DEF WellFormed, Request
<1> QED BY <1>1, <1>2, TablesUnchanged, GotoTypes DEF Pcs, tables

\* A change of the cache that keeps its types.
CacheTyped ==
    /\ DOMAIN cache = Keys
    /\ \A key \in Keys : cache[key] = Nil \/ cache[key] \in Entry(key)

LEMMA DropTypes ==
    ASSUME CacheTyped, NEW key \in Keys, Drop(key)
    PROVE  CacheTyped'
<1>1. CASE cache' = [cache EXCEPT ![key] = Nil]
    BY <1>1 DEF CacheTyped
<1>2. CASE cache[key] # Nil /\ cache' = [cache EXCEPT ![key].current = FALSE]
    BY <1>2 DEF CacheTyped, Entry
<1> QED BY <1>1, <1>2 DEF Drop

LEMMA InvalidateTypes ==
    ASSUME Types, NEW q \in Requests, Invalidate(q)
    PROVE  Types'
<1>1. /\ req[q].pc \in {"clear_list", "drop_thread", "drop_messages"}
      /\ req[q] \in Request /\ WellFormed(req[q], lastId)
      /\ UNCHANGED <<tables, loaded>>
    BY DEF Invalidate, At, Types, TypeOK
<1>2. req[q].id \in Ids
    BY <1>1, ConversationAssumption DEF WellFormed, Request, AllOperations, Types, TypeOK, Ids
<1>3. CacheTyped'
    BY <1>2, DropTypes DEF Invalidate, Types, TypeOK, CacheTyped, Keys
<1>4. PICK x \in {[req[q] EXCEPT !.pc = "drop_thread"], [req[q] EXCEPT !.pc = "drop_messages"],
                  [req[q] EXCEPT !.pc = "done", !.ok = TRUE]} :
            req' = [req EXCEPT ![q] = x]
    BY DEF Invalidate, Goto, Succeed
<1>5. x \in Request /\ x.pc # "fill" /\ WellFormed(x, lastId)
    <2>1. x \in Request /\ x.pc \in {"drop_thread", "drop_messages", "done"}
          /\ x.op = req[q].op /\ x.id = req[q].id
        BY <1>1, <1>4 DEF Request
    <2>2. req[q].op \in {"create", "append", "import", "delete"}
        BY <1>1 DEF WellFormed, Request, AllOperations
    <2> QED BY <1>1, <2>1, <2>2 DEF WellFormed
<1>6. loaded[q] = Nil
    BY <1>1 DEF Types
<1>7. lastId' = lastId /\ lastId <= lastId'
    BY <1>1, ConversationAssumption DEF tables, Types, TypeOK, Ids
<1> QED BY <1>1, <1>3, <1>4, <1>5, <1>6, <1>7, TablesUnchanged, TypesKept DEF CacheTyped

LEMMA TypesStep == Types /\ [Next]_vars => Types'
<1> SUFFICES ASSUME Types, [Next]_vars PROVE Types'
    OBVIOUS
<1>1. ASSUME NEW q \in Requests, Start(q) \/ Step(q) PROVE Types'
    BY <1>1, StartTypes, ReadTypes, CreateThreadTypes, CreateImportTypes, ParseImportTypes,
       FindThreadTypes, ReadMaxSeqTypes, CommitMessagesTypes, CompleteImportTypes,
       RefreshTypes, DeleteThreadTypes, CommitRaisesTypes, InvalidateTypes DEF Step
<1>2. ASSUME NEW key \in Keys, Expire(key) PROVE Types'
    BY <1>2 DEF Expire, tables, Types, TypeOK, Bounded
<1>3. CASE UNCHANGED vars
    BY <1>3 DEF vars, tables, Types, TypeOK, Bounded
<1> QED BY <1>1, <1>2, <1>3 DEF Next

\* Every state the requests can reach, under all interleavings, has its types.
THEOREM TypeCorrect == Spec => []TypeOK
<1>1. Types => TypeOK
    BY DEF Types
<1> QED BY <1>1, InitTypes, TypesStep, PTL DEF Spec

-----------------------------------------------------------------------------
(* Batches and imports.                                                    *)

LEMMA BatchMembers ==
    ASSUME NEW q \in Requests, NEW m \in NewMessages(q)
    PROVE  /\ m.thread = req[q].id /\ m.by = q
           /\ m.seq \in req[q].next .. req[q].next + req[q].size - 1
BY DEF NewMessages

\* What was going to be sent does not change with the other fields of a request.
LEMMA SameBatch ==
    ASSUME NEW q \in Requests, req'[q].id = req[q].id, req'[q].next = req[q].next,
           req'[q].size = req[q].size
    PROVE  NewMessages(q)' = NewMessages(q)
BY DEF NewMessages

\* A step of request q that sends and deletes nothing.
Quiet(q) ==
    /\ \A p \in Requests \ {q} : req'[p] = req[p] /\ imports'[p] = imports[p]
    /\ UNCHANGED messages
    /\ \A i \in Ids : Exists(i) => Exists(i)'
    /\ req[q].pc \notin Before =>
            /\ req'[q].pc \notin Before
            /\ req'[q].id = req[q].id /\ req'[q].op = req[q].op
            /\ req'[q].next = req[q].next /\ req'[q].size = req[q].size
            /\ req'[q].error = req[q].error

\* The steps that are quiet.
QuietStep(q) ==
    \/ Start(q) \/ Lookup(q) \/ Load(q) \/ Fill(q)
    \/ CreateThread(q) \/ CreateImport(q) \/ ParseImport(q)
    \/ FindThread(q) \/ ReadMaxSeq(q) \/ (CommitMessages(q) /\ ~FlushSucceeds(q))
    \/ CompleteImport(q) \/ Refresh(q) \/ ReloadThread(q)
    \/ CommitRaises(q) \/ Invalidate(q)

LEMMA StepKinds ==
    ASSUME NEW q \in Requests, Start(q) \/ Step(q)
    PROVE  \/ QuietStep(q) \/ DeleteThread(q) \/ (CommitMessages(q) /\ FlushSucceeds(q))
BY DEF Step, QuietStep

LEMMA QuietStepsAreQuiet ==
    ASSUME Types, NEW q \in Requests, QuietStep(q)
    PROVE  Quiet(q)
<1>0. /\ req[q] \in Request /\ req \in [Requests -> Request]
      /\ imports \in [Requests -> ImportRow \cup {Nil}]
      /\ threads \in [Ids -> ThreadRow \cup {Nil}]
    BY DEF Types, TypeOK
<1>1. CASE Start(q)
    BY <1>0, <1>1 DEF Start, At, Quiet, Before, tables, Exists
<1>2. CASE Lookup(q) \/ Load(q) \/ Fill(q)
    BY <1>0, <1>2 DEF Lookup, Load, Fill, At, Succeed, Fail, Goto, Quiet, Before, tables, Exists
<1>3. CASE CreateThread(q)
    <2>1. /\ req[q].pc = "start" /\ UNCHANGED <<messages, imports>> /\ NewId \in Ids
          /\ \E x : req' = [req EXCEPT ![q] = x]
          /\ threads' = [threads EXCEPT ![NewId] = [creator |-> q, updated |-> q]]
        BY <1>3 DEF CreateThread, At
    <2>2. [creator |-> q, updated |-> q] # Nil
        BY NoRowAssumption DEF ThreadRow
    <2> HIDE DEF NewId
    <2>3. \A i \in Ids : Exists(i) => Exists(i)'
        BY <1>0, <2>1, <2>2 DEF Exists
    <2> QED BY <1>0, <2>1, <2>3 DEF Quiet, Before
<1>4. CASE CreateImport(q) \/ ParseImport(q)
    BY <1>0, <1>4 DEF CreateImport, ParseImport, At, Goto, Fail, Quiet, Before, tables, Exists
<1>5. CASE FindThread(q)
    BY <1>0, <1>5 DEF FindThread, At, Goto, Fail, Quiet, Before, tables, Exists
<1>6. CASE ReadMaxSeq(q)
    <2>1. /\ req[q].pc = "max" /\ UNCHANGED <<messages, imports, threads>>
          /\ \E x : req' = [req EXCEPT ![q] = x]
        BY <1>6 DEF ReadMaxSeq, At, tables
    <2> QED BY <1>0, <2>1 DEF Quiet, Before, Exists
<1>7. CASE CommitMessages(q) /\ ~FlushSucceeds(q)
    BY <1>0, <1>7 DEF CommitMessages, At, Goto, Fail, Quiet, Before, Exists
<1>8. CASE CompleteImport(q)
    BY <1>0, <1>8 DEF CompleteImport, At, Goto, Fail, Quiet, Before, Exists, Request
<1>9. CASE Refresh(q) \/ ReloadThread(q) \/ CommitRaises(q)
    <2>1. UNCHANGED <<messages, imports, threads>>
        BY <1>9 DEF Refresh, ReloadThread, CommitRaises, tables
    <2>2. PICK pc \in {"reload", "clear_list", "done"} :
                req' = [req EXCEPT ![q] = [req[q] EXCEPT !.pc = pc]]
        BY <1>9 DEF Refresh, ReloadThread, CommitRaises, Goto, Fail
    <2>3. /\ req'[q].pc = pc /\ req'[q].id = req[q].id /\ req'[q].op = req[q].op
          /\ req'[q].next = req[q].next /\ req'[q].size = req[q].size
          /\ req'[q].error = req[q].error
        BY <1>0, <2>2 DEF Request
    <2>4. \A p \in Requests \ {q} : req'[p] = req[p]
        BY <1>0, <2>2
    <2> QED BY <2>1, <2>3, <2>4 DEF Quiet, Before, Exists
<1>10. CASE Invalidate(q)
    <2>1. UNCHANGED <<messages, imports, threads>>
        BY <1>10 DEF Invalidate, tables
    <2>2. PICK x \in {[req[q] EXCEPT !.pc = "drop_thread"],
                      [req[q] EXCEPT !.pc = "drop_messages"],
                      [req[q] EXCEPT !.pc = "done", !.ok = TRUE]} :
                req' = [req EXCEPT ![q] = x]
        BY <1>10 DEF Invalidate, Goto, Succeed
    <2>3. /\ x.pc \in {"drop_thread", "drop_messages", "done"}
          /\ x.id = req[q].id /\ x.op = req[q].op
          /\ x.next = req[q].next /\ x.size = req[q].size
          /\ x.error = req[q].error
        BY <1>0, <2>2 DEF Request
    <2>4. req'[q] = x /\ \A p \in Requests \ {q} : req'[p] = req[p]
        BY <1>0, <2>2
    <2> QED BY <2>1, <2>3, <2>4 DEF Quiet, Before, Exists
<1> QED BY <1>1, <1>2, <1>3, <1>4, <1>5, <1>6, <1>7, <1>8, <1>9, <1>10 DEF QuietStep

LEMMA QuietBatches ==
    ASSUME Types, Batches, Unique, NEW q \in Requests, Quiet(q)
    PROVE  /\ Batches' /\ Unique'
           /\ \A p \in Requests : Sent(p)' = Sent(p)
           /\ \A p \in Requests : p # q \/ Sent(q) => NewMessages(p)' = NewMessages(p)
<1>1. \A p \in Requests : Sent(p)' = Sent(p)
    BY DEF Quiet, Sent
<1>2. ASSUME NEW p \in Requests, p # q \/ Sent(q)
      PROVE  NewMessages(p)' = NewMessages(p)
    BY <1>2, SameBatch DEF Quiet, Batches
<1>3. \A m \in messages : m.thread \in Ids /\ m.by \in Requests
    BY DEF Types, TypeOK, MessageRow
<1>4. \A m \in messages' : Exists(m.thread)' /\ m \in NewMessages(m.by)'
    BY <1>2, <1>3 DEF Quiet, Batches, Sent
<1>5. \A p \in Requests : Sent(p)' => req'[p].pc \notin Before
    BY <1>1 DEF Quiet, Batches
<1>6. \A p \in Requests : Sent(p)' => NewMessages(p)' \subseteq messages'
    BY <1>1, <1>2 DEF Quiet, Batches
<1>7. Batches'
    BY <1>4, <1>5, <1>6 DEF Batches
<1>8. Unique'
    BY DEF Quiet, Unique
<1> QED BY <1>1, <1>2, <1>7, <1>8

\* The batch of q is stored, whole and with numbers that are free.
LEMMA SendBatches ==
    ASSUME Types, Batches, Unique, NEW q \in Requests, CommitMessages(q), FlushSucceeds(q)
    PROVE  /\ Batches' /\ Unique'
           /\ \A p \in Requests : NewMessages(p)' = NewMessages(p)
           /\ \A p \in Requests : p # q => Sent(p)' = Sent(p)
           /\ req[q].pc \in Before /\ req[q].id \in Ids /\ Exists(req[q].id)
           /\ messages' = messages \cup NewMessages(q)
           /\ \A p \in Requests \ {q} : req'[p] = req[p]
           /\ req'[q] = [req[q] EXCEPT !.pc =
                    IF req[q].op = "append" THEN "refresh" ELSE "complete"]
           /\ \A i \in Ids : Exists(i)' = Exists(i)
           /\ ~Sent(q)
           /\ UNCHANGED imports
<1>1. /\ req[q].pc = "commit" /\ req[q].op \in {"append", "import"} /\ Exists(req[q].id)
      /\ threads' = [threads EXCEPT ![req[q].id].updated = q]
      /\ messages' = messages \cup NewMessages(q)
      /\ req' = [req EXCEPT ![q] = [req[q] EXCEPT !.pc =
                    IF req[q].op = "append" THEN "refresh" ELSE "complete"]]
      /\ UNCHANGED imports
    BY DEF CommitMessages, FlushSucceeds, At, Goto
<1>2. /\ req \in [Requests -> Request] /\ req[q] \in Request
      /\ threads \in [Ids -> ThreadRow \cup {Nil}] /\ WellFormed(req[q], lastId)
      /\ messages \subseteq MessageRow
    BY DEF Types, TypeOK
<1>3. req[q].id \in Ids /\ req[q].next # 0
    BY <1>1, <1>2, ConversationAssumption DEF WellFormed, Types, TypeOK, Ids
<1>4. /\ \A p \in Requests \ {q} : req'[p] = req[p]
      /\ req'[q] = [req[q] EXCEPT !.pc =
                    IF req[q].op = "append" THEN "refresh" ELSE "complete"]
    BY <1>1, <1>2
<1>5. \A i \in Ids : Exists(i)' = Exists(i)
    BY <1>1, <1>2, <1>3, NoRowAssumption DEF Exists, ThreadRow
<1>6. \A p \in Requests : NewMessages(p)' = NewMessages(p)
    BY <1>2, <1>4, SameBatch DEF Request
<1>7. ~Sent(q) /\ req[q].pc \in Before
    BY <1>1 DEF Batches, Before
<1>8. \A m \in NewMessages(q) : m \in MessageRow /\ m.thread = req[q].id /\ m.by = q
    BY <1>3, NewMessagesTyped
<1>9. \A p \in Requests : p # q => Sent(p)' = Sent(p)
    BY <1>1, <1>8 DEF Sent
<1>10. \A m \in messages : m.thread \in Ids /\ m.by \in Requests
    BY <1>2 DEF MessageRow
<1>11. \A m \in messages' : Exists(m.thread)' /\ m \in NewMessages(m.by)'
    BY <1>1, <1>3, <1>5, <1>6, <1>8, <1>10 DEF Batches
<1>12. \A p \in Requests : Sent(p)' => req'[p].pc \notin Before
    BY <1>2, <1>4, <1>9 DEF Batches, Before, Request
<1>13. \A p \in Requests : Sent(p)' => NewMessages(p)' \subseteq messages'
    BY <1>1, <1>6, <1>9 DEF Batches
<1>14. \A m \in NewMessages(q), n \in NewMessages(q) : m.seq = n.seq => m = n
    BY DEF NewMessages
<1>15. \A m \in messages, n \in NewMessages(q) : m.thread = n.thread => m.seq # n.seq
    BY <1>8 DEF FlushSucceeds, MessagesOf
<1>16. Unique'
    BY <1>1, <1>14, <1>15 DEF Unique
<1> QED BY <1>1, <1>3, <1>4, <1>5, <1>6, <1>7, <1>9, <1>11, <1>12, <1>13, <1>16 DEF Batches

\* The messages of a thread go together, and with them the imports into it.
LEMMA DeleteBatches ==
    ASSUME Types, Batches, Unique, NEW q \in Requests, DeleteThread(q)
    PROVE  /\ Batches' /\ Unique'
           /\ \A p \in Requests : NewMessages(p)' = NewMessages(p)
           /\ \A p \in Requests : Sent(p)' <=> Sent(p) /\ req[p].id # req[q].id
           /\ messages' = {m \in messages : m.thread # req[q].id}
           /\ \A p \in Requests : p # q => req'[p] = req[p]
           /\ req'[q] = [req[q] EXCEPT !.pc = "clear_list"]
           /\ req[q].id \in Ids /\ req[q].pc = "commit" /\ req[q].op = "delete"
           /\ ~Exists(req[q].id)'
           /\ \A i \in Ids : i # req[q].id => threads'[i] = threads[i]
           /\ \A p \in Requests : imports'[p] = IF imports[p] # Nil /\ imports[p].thread = req[q].id
                                                THEN Nil ELSE imports[p]
<1>1. /\ req[q].pc = "commit" /\ req[q].op = "delete"
      /\ threads' = [threads EXCEPT ![req[q].id] = Nil]
      /\ messages' = messages \ MessagesOf(req[q].id)
      /\ req' = [req EXCEPT ![q] = [req[q] EXCEPT !.pc = "clear_list"]]
      /\ \A p \in Requests : imports'[p] = IF imports[p] # Nil /\ imports[p].thread = req[q].id
                                           THEN Nil ELSE imports[p]
    BY DEF DeleteThread, At, Goto
<1>2. /\ req \in [Requests -> Request] /\ req[q] \in Request
      /\ threads \in [Ids -> ThreadRow \cup {Nil}] /\ WellFormed(req[q], lastId)
      /\ messages \subseteq MessageRow
    BY DEF Types, TypeOK
<1>3. req[q].id \in Ids
    BY <1>1, <1>2, ConversationAssumption DEF WellFormed, Types, TypeOK, Ids
<1>4. /\ \A p \in Requests : p # q => req'[p] = req[p]
      /\ req'[q] = [req[q] EXCEPT !.pc = "clear_list"]
    BY <1>1, <1>2
<1>5. ~Exists(req[q].id)' /\ \A i \in Ids : i # req[q].id => threads'[i] = threads[i]
    BY <1>1, <1>2, <1>3 DEF Exists
<1>6. \A p \in Requests : NewMessages(p)' = NewMessages(p)
    BY <1>2, <1>4, SameBatch DEF Request
<1>7. messages' = {m \in messages : m.thread # req[q].id}
    BY <1>1 DEF MessagesOf
<1>8. \A m \in messages : m.thread \in Ids /\ m.by \in Requests /\ m.thread = req[m.by].id
    BY <1>2, BatchMembers DEF MessageRow, Batches
<1>9. \A p \in Requests : Sent(p)' <=> Sent(p) /\ req[p].id # req[q].id
    BY <1>7, <1>8 DEF Sent
<1>10. \A m \in messages' : Exists(m.thread)' /\ m \in NewMessages(m.by)'
    BY <1>5, <1>6, <1>7, <1>8 DEF Batches, Exists
<1>11. \A p \in Requests : Sent(p)' => req'[p].pc \notin Before
    BY <1>1, <1>2, <1>4, <1>9 DEF Batches, Before, Request
<1>12. ASSUME NEW p \in Requests, Sent(p)' PROVE NewMessages(p)' \subseteq messages'
    BY <1>6, <1>7, <1>9, <1>12, BatchMembers DEF Batches
<1>13. Unique'
    BY <1>7 DEF Unique
<1> QED BY <1>1, <1>3, <1>4, <1>5, <1>6, <1>7, <1>9, <1>10, <1>11, <1>12, <1>13 DEF Batches

\* The row of another request's import is not touched by a quiet step.
LEMMA OtherImports ==
    ASSUME Types, Batches, Unique, Imports, NEW q \in Requests, Quiet(q),
           NEW p \in Requests, p # q
    PROVE  ImportOK(p)'
<1>1. Sent(p)' = Sent(p) /\ NewMessages(p)' = NewMessages(p)
    BY QuietBatches
<1>2. req'[p] = req[p] /\ imports'[p] = imports[p] /\ messages' = messages
    BY DEF Quiet
<1> QED BY <1>1, <1>2 DEF Imports, ImportOK

\* A request goes on, and not to the completion of its import.
LEMMA ImportGoesOn ==
    ASSUME Types, Batches, Unique, Imports, NEW q \in Requests, Quiet(q),
           imports'[q] = imports[q],
           imports[q] # Nil => /\ req'[q].pc \notin {"new", "start", "record", "complete"}
                               /\ req'[q].id = req[q].id /\ req'[q].op = req[q].op
    PROVE  ImportOK(q)'
<1>1. CASE imports[q] = Nil
    BY <1>1 DEF ImportOK
<1>2. CASE imports[q] # Nil /\ imports[q].status = "pending"
    BY <1>2 DEF Imports, ImportOK
<1>3. CASE imports[q] # Nil /\ imports[q].status # "pending"
    <2>1. req[q].pc \notin Before
        BY <1>3 DEF Imports, ImportOK
    <2>2. NewMessages(q)' = NewMessages(q) /\ Sent(q)' = Sent(q) /\ messages' = messages
        BY <2>1, SameBatch, QuietBatches DEF Quiet
    <2>3. req'[q].error = req[q].error /\ req'[q].pc \notin Before
        BY <2>1 DEF Quiet
    <2> QED BY <1>3, <2>2, <2>3 DEF Imports, ImportOK
<1> QED BY <1>1, <1>2, <1>3

LEMMA OwnImport ==
    ASSUME Types, Batches, Unique, Imports, NEW q \in Requests, QuietStep(q)
    PROVE  ImportOK(q)'
<1>0. /\ Quiet(q) /\ req[q] \in Request /\ req \in [Requests -> Request]
      /\ imports \in [Requests -> ImportRow \cup {Nil}] /\ WellFormed(req[q], lastId)
      /\ ImportOK(q)
    BY QuietStepsAreQuiet DEF Types, TypeOK, Imports
<1>1. CASE Start(q) \/ Lookup(q) \/ Load(q) \/ Fill(q) \/ CreateThread(q) \/ FindThread(q)
    <2>1. req[q].pc \in {"new", "start"} \/ req[q].op = "read"
        BY <1>0, <1>1 DEF Start, Lookup, Load, Fill, CreateThread, FindThread, At,
           WellFormed, Request, AllOperations
    <2>2. imports[q] = Nil
        BY <1>0, <2>1 DEF ImportOK
    <2>3. imports' = imports
        BY <1>1 DEF Start, Lookup, Load, Fill, CreateThread, FindThread, tables
    <2> QED BY <1>0, <2>2, <2>3, ImportGoesOn
<1>2. CASE CreateImport(q)
    <2>1. imports[q] = Nil /\ req[q].op = "import"
        BY <1>0, <1>2 DEF CreateImport, At, ImportOK, WellFormed, Request, AllOperations
    <2>2. CASE Exists(req[q].id)
        <3>1. /\ imports'[q] = [thread |-> req[q].id, status |-> "pending"]
              /\ req'[q] = [req[q] EXCEPT !.pc = "recorded"]
            BY <1>0, <1>2, <2>2 DEF CreateImport, Goto
        <3> QED BY <1>0, <2>1, <3>1 DEF ImportOK, Request
    <2>3. CASE ~Exists(req[q].id)
        BY <1>0, <1>2, <2>1, <2>3, ImportGoesOn DEF CreateImport
    <2> QED BY <2>2, <2>3
<1>3. CASE ParseImport(q)
    <2>1. req[q].pc = "recorded" /\ imports' = imports /\ ~Sent(q)
        BY <1>3 DEF ParseImport, At, tables, Batches, Before
    <2>2. imports[q] # Nil => imports[q].status = "pending"
        BY <1>0, <2>1 DEF ImportOK, Before
    <2>3. CASE req' = [req EXCEPT ![q].pc = "complete", ![q].error = TRUE]
        <3>1. /\ req'[q].pc = "complete" /\ req'[q].error
              /\ req'[q].id = req[q].id /\ req'[q].op = req[q].op
            BY <1>0, <2>3 DEF Request
        <3>2. ~Sent(q)'
            BY <1>0, <2>1 DEF Quiet, Sent
        <3> QED BY <1>0, <2>1, <2>2, <3>1, <3>2 DEF ImportOK
    <2>4. CASE Goto(q, "max") \/ Fail(q)
        <3>1. /\ req'[q].pc \in {"max", "done"}
              /\ req'[q].id = req[q].id /\ req'[q].op = req[q].op
            BY <1>0, <2>4 DEF Request, Goto, Fail
        <3> QED BY <1>0, <2>1, <3>1, ImportGoesOn
    <2> QED BY <1>3, <2>3, <2>4 DEF ParseImport
<1>4. CASE ReadMaxSeq(q)
    <2>1. /\ imports' = imports
          /\ \E k : req' = [req EXCEPT ![q] = [req[q] EXCEPT !.pc = "commit", !.next = k]]
        BY <1>4 DEF ReadMaxSeq, tables
    <2>2. req'[q].pc = "commit" /\ req'[q].id = req[q].id /\ req'[q].op = req[q].op
        BY <1>0, <2>1 DEF Request
    <2> QED BY <1>0, <2>1, <2>2, ImportGoesOn
<1>5. CASE CompleteImport(q)
    <2>1. CASE imports[q] = Nil
        BY <1>0, <1>5, <2>1, ImportGoesOn DEF CompleteImport
    <2>2. CASE imports[q] # Nil
        <3>1. /\ imports' = [imports EXCEPT ![q].status = Status(q)]
              /\ req' = [req EXCEPT ![q] = [req[q] EXCEPT !.pc = "refresh"]]
              /\ req[q].pc = "complete"
            BY <1>5, <2>2 DEF CompleteImport, Goto, At
        <3>2. /\ req'[q].pc = "refresh" /\ req'[q].id = req[q].id /\ req'[q].op = req[q].op
              /\ req'[q].error = req[q].error
              /\ req'[q].next = req[q].next /\ req'[q].size = req[q].size
            BY <1>0, <3>1 DEF Request
        <3>3. imports'[q].thread = imports[q].thread /\ imports'[q].status = Status(q)
            BY <1>0, <2>2, <3>1 DEF ImportRow
        <3>4. NewMessages(q)' = NewMessages(q) /\ Sent(q)' = Sent(q) /\ messages' = messages
            BY <1>0, <3>2, SameBatch, QuietBatches DEF Quiet
        <3>5. /\ imports[q].thread = req[q].id /\ req[q].op = "import"
              /\ IF req[q].error THEN ~Sent(q) ELSE NewMessages(q) \subseteq messages
            BY <1>0, <2>2, <3>1 DEF ImportOK
        <3> QED BY <3>2, <3>3, <3>4, <3>5 DEF ImportOK, Status, Before
    <2> QED BY <2>1, <2>2
<1>6. CASE \/ CommitMessages(q) /\ ~FlushSucceeds(q)
           \/ Refresh(q) \/ ReloadThread(q) \/ CommitRaises(q) \/ Invalidate(q)
    <2>1. imports' = imports
        BY <1>6 DEF CommitMessages, Refresh, ReloadThread, CommitRaises, Invalidate, tables
    <2>2. PICK x \in {[req[q] EXCEPT !.pc = "reload"], [req[q] EXCEPT !.pc = "clear_list"],
                      [req[q] EXCEPT !.pc = "done"], [req[q] EXCEPT !.pc = "drop_thread"],
                      [req[q] EXCEPT !.pc = "drop_messages"],
                      [req[q] EXCEPT !.pc = "done", !.ok = TRUE]} :
                req' = [req EXCEPT ![q] = x]
        BY <1>6 DEF CommitMessages, Refresh, ReloadThread, CommitRaises, Invalidate, Goto,
           Fail, Succeed
    <2>3. /\ x.pc \in {"reload", "clear_list", "drop_thread", "drop_messages", "done"}
          /\ x.id = req[q].id /\ x.op = req[q].op
        BY <1>0, <2>2 DEF Request
    <2>4. req'[q] = x
        BY <1>0, <2>2
    <2> QED BY <1>0, <2>1, <2>3, <2>4, ImportGoesOn
<1> QED BY <1>1, <1>2, <1>3, <1>4, <1>5, <1>6 DEF QuietStep

LEMMA ErrorsStep ==
    ASSUME Types, ErrorsAreLate, NEW q \in Requests, Start(q) \/ Step(q)
    PROVE  ErrorsAreLate'
<1>0. req[q] \in Request /\ req \in [Requests -> Request] /\ WellFormed(req[q], lastId)
    BY DEF Types, TypeOK
<1>1. /\ \A p \in Requests \ {q} : req'[p] = req[p]
      /\ req'[q].error => req'[q].pc \notin Before
    <2>1. CASE Start(q)
        <3>1. CASE "read" \in Operations /\ \E key \in Keys :
                        req' = [req EXCEPT ![q] = [Blank EXCEPT !.op = "read",
                                                               !.pc = "lookup", !.key = key]]
            BY <1>0, <3>1 DEF Blank
        <3>2. CASE \E op \in Operations \ {"read"} :
                    \E i \in IF op \in {"create", "import"} THEN {0} ELSE 1..lastId,
                       size \in IF op \in {"append", "import"} THEN BatchSizes ELSE {0} :
                        req' = [req EXCEPT ![q] =
                            [Blank EXCEPT !.op = op, !.pc = "start", !.id = i, !.size = size]]
            BY <1>0, <3>2 DEF Blank
        <3> QED BY <2>1, <3>1, <3>2 DEF Start
    <2>2. CASE Lookup(q)
        BY <1>0, <2>2 DEF Lookup, At, Succeed, Goto, ErrorsAreLate, Before, Request
    <2>3. CASE Load(q)
        BY <1>0, <2>3 DEF Load, At, Fail, Goto, ErrorsAreLate, Before, Request
    <2>4. CASE Fill(q)
        <3>1. req' = [req EXCEPT ![q] = [req[q] EXCEPT !.pc = "done", !.ok = TRUE]]
            BY <2>4 DEF Fill, Succeed
        <3>2. req'[q].pc = "done"
            BY <1>0, <3>1 DEF Request
        <3> QED BY <1>0, <3>1, <3>2 DEF Before
    <2>5. CASE CreateThread(q)
        <3>1. /\ req[q].pc = "start"
              /\ \E pc, i : req' = [req EXCEPT ![q] =
                                [req[q] EXCEPT !.pc = pc, !.id = i, !.thread = q]]
            BY <2>5 DEF CreateThread, At
        <3>2. ~req[q].error
            BY <3>1 DEF ErrorsAreLate, Before
        <3>3. ~req'[q].error
            BY <1>0, <3>1, <3>2 DEF Request
        <3> QED BY <1>0, <3>1, <3>3
    <2>6. CASE CreateImport(q) \/ CompleteImport(q)
        BY <1>0, <2>6 DEF CreateImport, CompleteImport, At, Goto, Fail, ErrorsAreLate,
           Before, Request
    <2>7. CASE ParseImport(q)
        BY <1>0, <2>7 DEF ParseImport, At, Goto, Fail, ErrorsAreLate, Before, Request
    <2>8. CASE FindThread(q)
        BY <1>0, <2>8 DEF FindThread, At, Goto, Fail, ErrorsAreLate, Before, Request
    <2>9. CASE ReadMaxSeq(q)
        <3>1. /\ req[q].pc = "max"
              /\ \E k : req' = [req EXCEPT ![q] = [req[q] EXCEPT !.pc = "commit", !.next = k]]
            BY <2>9 DEF ReadMaxSeq, At
        <3>2. ~req[q].error
            BY <3>1 DEF ErrorsAreLate, Before
        <3>3. ~req'[q].error
            BY <1>0, <3>1, <3>2 DEF Request
        <3> QED BY <1>0, <3>1, <3>3
    <2>10. CASE CommitMessages(q) \/ DeleteThread(q)
        BY <1>0, <2>10 DEF CommitMessages, DeleteThread, At, Goto, Fail, ErrorsAreLate,
           Before, Request
    <2>11. CASE Refresh(q) \/ ReloadThread(q) \/ CommitRaises(q)
        <3>1. PICK pc \in {"reload", "clear_list", "done"} :
                    req' = [req EXCEPT ![q] = [req[q] EXCEPT !.pc = pc]]
            BY <2>11 DEF Refresh, ReloadThread, CommitRaises, Goto, Fail
        <3>2. req'[q].pc = pc
            BY <1>0, <3>1 DEF Request
        <3> QED BY <1>0, <3>1, <3>2 DEF Before
    <2>12. CASE Invalidate(q)
        BY <1>0, <2>12 DEF Invalidate, At, Goto, Succeed, ErrorsAreLate, Before, Request
    <2> QED BY <2>1, <2>2, <2>3, <2>4, <2>5, <2>6, <2>7, <2>8, <2>9, <2>10, <2>11, <2>12
            DEF Step
<1> QED BY <1>0, <1>1 DEF ErrorsAreLate

LEMMA SendImports ==
    ASSUME Types, Batches, Unique, ErrorsAreLate, Imports, NEW q \in Requests,
           CommitMessages(q), FlushSucceeds(q)
    PROVE  Imports'
<1>0. imports' = imports /\ req[q] \in Request /\ req[q].pc = "commit"
    BY SendBatches DEF Types, TypeOK, CommitMessages, At
<1>1. ASSUME NEW p \in Requests, p # q PROVE ImportOK(p)'
    <2>1. Sent(p)' = Sent(p) /\ NewMessages(p)' = NewMessages(p) /\ req'[p] = req[p]
          /\ messages \subseteq messages'
        BY <1>1, SendBatches
    <2> QED BY <1>0, <2>1 DEF Imports, ImportOK
<1>2. ImportOK(q)'
    <2>1. /\ req'[q] = [req[q] EXCEPT !.pc =
                    IF req[q].op = "append" THEN "refresh" ELSE "complete"]
          /\ NewMessages(q)' = NewMessages(q) /\ NewMessages(q) \subseteq messages'
        BY SendBatches
    <2>2. /\ req'[q].id = req[q].id /\ req'[q].op = req[q].op
          /\ req'[q].error = req[q].error
          /\ req'[q].pc \in {"refresh", "complete"}
        BY <1>0, <2>1 DEF Request
    <2>3. imports[q] # Nil => imports[q].status = "pending"
        BY <1>0 DEF Imports, ImportOK, Before
    <2>4. ~req[q].error
        BY <1>0 DEF ErrorsAreLate, Before
    <2> QED BY <1>0, <2>1, <2>2, <2>3, <2>4 DEF Imports, ImportOK
<1> QED BY <1>1, <1>2 DEF Imports

LEMMA DeleteImports ==
    ASSUME Types, Batches, Unique, Imports, NEW q \in Requests, DeleteThread(q)
    PROVE  Imports'
<1> SUFFICES ASSUME NEW p \in Requests PROVE ImportOK(p)'
    BY DEF Imports
<1>a. \A x \in Requests : Sent(x)' <=> Sent(x) /\ req[x].id # req[q].id
    BY DeleteBatches
<1>c. \A x \in Requests : NewMessages(x)' = NewMessages(x)
    BY DeleteBatches
<1>d. messages' = {m \in messages : m.thread # req[q].id}
    BY DeleteBatches
<1>e. \A x \in Requests : x # q => req'[x] = req[x]
    BY DeleteBatches
<1>f. req[q].op = "delete"
    BY DEF DeleteThread
<1>b. imports'[p] = IF imports[p] # Nil /\ imports[p].thread = req[q].id
                    THEN Nil ELSE imports[p]
    BY DEF DeleteThread
<1>2. /\ Sent(p)' <=> Sent(p) /\ req[p].id # req[q].id
      /\ NewMessages(p)' = NewMessages(p)
      /\ messages' = {m \in messages : m.thread # req[q].id}
      /\ imports'[p] = IF imports[p] # Nil /\ imports[p].thread = req[q].id
                       THEN Nil ELSE imports[p]
      /\ p # q => req'[p] = req[p]
      /\ req[q].op = "delete"
    BY <1>a, <1>b, <1>c, <1>d, <1>e, <1>f
<1>3. CASE imports'[p] = Nil
    BY <1>3 DEF ImportOK
<1>4. CASE imports'[p] # Nil
    <2>1. imports'[p] = imports[p] /\ imports[p] # Nil /\ imports[p].thread # req[q].id
        BY <1>2, <1>4
    <2>2. p # q /\ req'[p] = req[p] /\ req[p].id # req[q].id
        BY <1>2, <2>1 DEF Imports, ImportOK
    <2>3. \A m \in NewMessages(p) : m.thread # req[q].id
        BY <2>2, BatchMembers
    <2>4. NewMessages(p) \subseteq messages => NewMessages(p) \subseteq messages'
        BY <1>2, <2>3
    <2> QED BY <1>2, <2>1, <2>2, <2>4 DEF Imports, ImportOK
<1> QED BY <1>3, <1>4

LEMMA InitGInv == Init => GInv
<1> SUFFICES ASSUME Init PROVE GInv
    OBVIOUS
<1>1. Types
    BY InitTypes
<1>2. Batches /\ Unique
    BY DEF Init, Batches, Unique, Sent
<1>3. Imports /\ ErrorsAreLate
    BY DEF Init, Imports, ImportOK, ErrorsAreLate, Blank
<1> QED BY <1>1, <1>2, <1>3 DEF GInv

LEMMA GInvStep == GInv /\ [Next]_vars => GInv'
<1> SUFFICES ASSUME GInv, [Next]_vars PROVE GInv'
    OBVIOUS
<1> USE DEF GInv
<1>0. Types'
    BY TypesStep
<1>1. ASSUME NEW q \in Requests, Start(q) \/ Step(q) PROVE GInv'
    <2>1. CASE QuietStep(q)
        <3>1. Quiet(q)
            BY <2>1, QuietStepsAreQuiet
        <3>2. Imports'
            BY <2>1, <3>1, OtherImports, OwnImport DEF Imports
        <3> QED BY <1>0, <1>1, <3>1, <3>2, QuietBatches, ErrorsStep
    <2>2. CASE DeleteThread(q)
        BY <1>0, <1>1, <2>2, DeleteBatches, DeleteImports, ErrorsStep
    <2>3. CASE CommitMessages(q) /\ FlushSucceeds(q)
        BY <1>0, <1>1, <2>3, SendBatches, SendImports, ErrorsStep
    <2> QED BY <1>1, <2>1, <2>2, <2>3, StepKinds
<1>2. ASSUME UNCHANGED <<tables, req>> PROVE GInv'
    <2>1. \A q \in Requests : NewMessages(q)' = NewMessages(q) /\ Sent(q)' = Sent(q)
        BY <1>2, SameBatch DEF tables, Sent
    <2>2. Batches' /\ Unique' /\ ErrorsAreLate'
        BY <1>2, <2>1 DEF tables, Batches, Unique, ErrorsAreLate, Exists, Types, TypeOK,
           MessageRow
    <2>3. Imports'
        BY <1>2, <2>1 DEF tables, Imports, ImportOK
    <2> QED BY <1>0, <2>2, <2>3
<1>3. ASSUME NEW key \in Keys, Expire(key) PROVE GInv'
    BY <1>2, <1>3 DEF Expire
<1>4. CASE UNCHANGED vars
    BY <1>2, <1>4 DEF vars
<1> QED BY <1>1, <1>3, <1>4 DEF Next

LEMMA GInvHolds == Spec => []GInv
BY InitGInv, GInvStep, PTL DEF Spec

\* The status of an import tells what became of its messages, whatever other
\* requests append, import and delete in the same thread, and whichever commit
\* raises: no import is "completed" with a part of its messages, none "failed"
\* with some of them stored.
THEOREM ImportStatus == Spec => []ImportStatusIsTrue
<1>1. GInv => ImportStatusIsTrue
    <2> SUFFICES ASSUME GInv, NEW q \in Requests, imports[q] # Nil
                 PROVE  LET mine == {m \in messages : m.by = q}
                        IN  /\ imports[q].status = "completed" => mine = NewMessages(q)
                            /\ imports[q].status = "failed" => mine = {}
        BY DEF ImportStatusIsTrue
    <2>1. ImportOK(q)
        BY DEF GInv, Imports
    <2>2. {m \in messages : m.by = q} \subseteq NewMessages(q)
        BY DEF GInv, Batches
    <2>3. \A m \in NewMessages(q) : m.by = q
        BY BatchMembers
    <2> QED BY <2>1, <2>2, <2>3 DEF ImportOK, Sent
<1> QED BY <1>1, GInvHolds, PTL

-----------------------------------------------------------------------------
(* The inductive invariant for a database that never gives an id twice.     *)

\* Only threads whose id has been given out are there, or in the cache.
GivenOut ==
    \A i \in Ids : Exists(i) \/ cache[<<"messages", i>>] # Nil => i <= lastId

\* The thread a request has looked up is the one its id still stands for.
SameThread(q) ==
    /\ req[q].pc \in {"record", "recorded", "max", "commit"} \/ Sent(q) =>
            req[q].thread # Nil
    /\ req[q].thread # Nil => req[q].id \in 1..lastId
    /\ req[q].thread # Nil /\ Exists(req[q].id) =>
            threads[req[q].id].creator = req[q].thread

\* The messages before number n of thread i are all there.
FilledUpTo(i, n) == \A k \in Nat \ {0} : k < n => \E m \in MessagesOf(i) : m.seq = k

\* The messages before the first that a request is about to commit are there.
Filled(q) ==
    req[q].pc = "commit" /\ req[q].op \in {"append", "import"} /\ Exists(req[q].id) =>
        FilledUpTo(req[q].id, req[q].next)

Dense == \A m \in messages : FilledUpTo(m.thread, m.seq)

\* The answer to an append tells that its messages are there.
Appended(q) ==
    /\ req[q].op = "append" /\ Exists(req[q].id)
    /\ req[q].pc \in {"refresh", "clear_list", "drop_thread", "drop_messages"} \/ req[q].ok
    => NewMessages(q) \subseteq messages

OkIsLate == \A q \in Requests : req[q].ok => req[q].pc = "done"

\* S is a beginning of the messages M.
IsBeginning(S, M) == S \subseteq M /\ \A m \in S, n \in M : n.seq < m.seq => n \in S

Beginning(S, i) == Exists(i) => IsBeginning(S, MessagesOf(i))

Prefixes ==
    /\ \A i \in Ids :
            cache[<<"messages", i>>] # Nil => Beginning(cache[<<"messages", i>>].payload, i)
    /\ \A q \in Requests :
            req[q].pc = "fill" /\ req[q].key[1] = "messages" =>
                Beginning(loaded[q], req[q].key[2])

LInv ==
    /\ GivenOut /\ Dense /\ OkIsLate /\ Prefixes
    /\ \A q \in Requests : SameThread(q) /\ Filled(q) /\ Appended(q)

\* A thread only grows, and only at its end, until it is deleted.
Grows(i) ==
    Exists(i)' =>
        /\ Exists(i) /\ threads'[i].creator = threads[i].creator
        /\ MessagesOf(i) \subseteq MessagesOf(i)'
        /\ \A m \in MessagesOf(i), n \in MessagesOf(i)' \ MessagesOf(i) : m.seq < n.seq

LEMMA QuietTables ==
    ASSUME Types, NEW q \in Requests, QuietStep(q)
    PROVE  /\ messages' = messages
           /\ \/ threads' = threads /\ lastId' = lastId
              \/ CreateThread(q)
<1>1. CASE Start(q) \/ Lookup(q) \/ Load(q) \/ Fill(q) \/ ParseImport(q) \/ FindThread(q)
           \/ ReadMaxSeq(q) \/ Refresh(q) \/ ReloadThread(q) \/ CommitRaises(q)
           \/ Invalidate(q)
    BY <1>1 DEF Start, Lookup, Load, Fill, ParseImport, FindThread, ReadMaxSeq, Refresh,
       ReloadThread, CommitRaises, Invalidate, tables
<1>2. CASE CreateThread(q)
    BY <1>2 DEF CreateThread
<1>3. CASE CreateImport(q) \/ CompleteImport(q) \/ (CommitMessages(q) /\ ~FlushSucceeds(q))
    BY <1>3 DEF CreateImport, CompleteImport, CommitMessages
<1> QED BY <1>1, <1>2, <1>3 DEF QuietStep

LEMMA SendGrows ==
    ASSUME GInv, LInv, NEW q \in Requests, CommitMessages(q), FlushSucceeds(q), NEW i \in Ids
    PROVE  Grows(i)
<1>0. Types /\ Batches /\ Unique
    BY DEF GInv
<1>1. /\ threads' = [threads EXCEPT ![req[q].id].updated = q]
      /\ messages' = messages \cup NewMessages(q)
      /\ req[q].pc = "commit" /\ req[q].op \in {"append", "import"}
    BY DEF CommitMessages, At
<1>2. req[q].id \in Ids /\ Exists(req[q].id) /\ Exists(i)' = Exists(i)
    BY <1>0, SendBatches
<1>3. /\ req[q] \in Request /\ threads \in [Ids -> ThreadRow \cup {Nil}]
      /\ messages \subseteq MessageRow
    BY <1>0 DEF Types, TypeOK
<1>4. req[q].next \in Nat \ {0} /\ req[q].size \in Nat
    BY <1>0, <1>1, <1>3, ConversationAssumption DEF Request, Types, WellFormed
<1>5. Exists(i) => threads'[i].creator = threads[i].creator
    BY <1>1, <1>2, <1>3 DEF Exists, ThreadRow
<1>6. MessagesOf(i) \subseteq MessagesOf(i)'
    BY <1>1 DEF MessagesOf
<1>7. ASSUME NEW m \in MessagesOf(i), NEW n \in MessagesOf(i)' \ MessagesOf(i)
      PROVE  m.seq < n.seq
    <2>1. n \in NewMessages(q) /\ n.thread = i
        BY <1>1, <1>7 DEF MessagesOf
    <2>2. i = req[q].id /\ n.seq \in req[q].next .. req[q].next + req[q].size - 1
        BY <2>1, BatchMembers
    <2>3. m \in messages /\ m.thread = i /\ m.seq \in Nat \ {0}
        BY <1>3, <1>7 DEF MessagesOf, MessageRow
    <2>4. n.seq \in Nat /\ req[q].next <= n.seq /\ req[q].size # 0
        BY <1>4, <2>2
    <2>5. ASSUME req[q].next <= m.seq PROVE FALSE
        <3> DEFINE first == [thread |-> req[q].id, seq |-> req[q].next, by |-> q]
        <3>1. first \in NewMessages(q) /\ first.seq = req[q].next
            BY <1>4, <2>4 DEF NewMessages
        <3>2. \A x \in MessagesOf(i) : x.seq # req[q].next
            BY <2>2, <3>1 DEF FlushSucceeds
        <3>3. FilledUpTo(i, m.seq)
            BY <2>3 DEF LInv, Dense
        <3>4. m.seq # req[q].next
            BY <1>7, <3>2
        <3>5. req[q].next < m.seq
            BY <1>4, <2>3, <2>5, <3>4
        <3> QED BY <1>4, <3>2, <3>3, <3>5 DEF FilledUpTo
    <2> QED BY <1>4, <2>3, <2>4, <2>5
<1> QED BY <1>2, <1>5, <1>6, <1>7 DEF Grows

LEMMA ThreadsGrow ==
    ASSUME ReuseIds = FALSE, GInv, LInv, [Next]_vars, NEW i \in 1..lastId
    PROVE  Grows(i)
<1>0. /\ Types /\ Batches /\ Unique /\ lastId \in Ids \cup {0}
      /\ threads \in [Ids -> ThreadRow \cup {Nil}]
    BY DEF GInv, Types, TypeOK
<1>1. i \in Ids
    BY <1>0, ConversationAssumption DEF Ids
<1>2. ASSUME UNCHANGED <<threads, messages>> PROVE Grows(i)
    BY <1>2 DEF Grows, MessagesOf, Exists
<1>3. ASSUME NEW q \in Requests, Start(q) \/ Step(q) PROVE Grows(i)
    <2>1. CASE QuietStep(q) /\ ~CreateThread(q)
        BY <1>0, <1>2, <2>1, QuietTables
    <2>2. CASE CreateThread(q)
        <3>1. /\ threads' = [threads EXCEPT ![lastId + 1] = [creator |-> q, updated |-> q]]
              /\ messages' = messages
            BY <2>2 DEF CreateThread, NewId
        <3>2. i # lastId + 1
            BY <1>0, ConversationAssumption DEF Ids
        <3>3. threads'[i] = threads[i]
            BY <1>0, <1>1, <3>1, <3>2
        <3> QED BY <3>1, <3>3 DEF Grows, MessagesOf, Exists
    <2>3. CASE DeleteThread(q)
        <3>1. /\ ~Exists(req[q].id)' /\ \A j \in Ids : j # req[q].id => threads'[j] = threads[j]
              /\ messages' = {m \in messages : m.thread # req[q].id}
            BY <1>0, <2>3, DeleteBatches
        <3>2. CASE i = req[q].id
            <4>1. req'[q].id = req[q].id
                BY <1>0, <2>3 DEF Types, TypeOK, DeleteThread, Goto, Request
            <4> QED BY <3>1, <3>2, <4>1 DEF Grows, Exists
        <3>3. CASE i # req[q].id
            <4>1. threads'[i] = threads[i] /\ MessagesOf(i)' = MessagesOf(i)
                BY <1>1, <3>1, <3>3 DEF MessagesOf
            <4> QED BY <4>1 DEF Grows, Exists
        <3> QED BY <3>2, <3>3
    <2>4. CASE CommitMessages(q) /\ FlushSucceeds(q)
        BY <1>1, <2>4, SendGrows
    <2> QED BY <1>3, <2>1, <2>2, <2>3, <2>4, StepKinds
<1>4. ASSUME NEW key \in Keys, Expire(key) PROVE Grows(i)
    BY <1>2, <1>4 DEF Expire, tables
<1>5. CASE UNCHANGED vars
    BY <1>2, <1>5 DEF vars, tables
<1> QED BY <1>3, <1>4, <1>5 DEF Next

LEMMA FilledKept ==
    ASSUME NEW i, NEW n, Grows(i), Exists(i)', FilledUpTo(i, n)
    PROVE  FilledUpTo(i, n)'
BY DEF Grows, FilledUpTo

\* What was a beginning of a thread is one after it has grown.
LEMMA BeginningKept ==
    ASSUME Types, Types', NEW i \in Ids, NEW S \in SUBSET MessageRow, Grows(i),
           Beginning(S, i), threads'[i] # Nil
    PROVE  IsBeginning(S, {m \in messages' : m.thread = i})
<1> DEFINE M == {m \in messages' : m.thread = i}
<1>0. /\ Exists(i)' /\ MessagesOf(i)' = M
      /\ IsBeginning(S, MessagesOf(i))
    BY DEF Exists, MessagesOf, Grows, Beginning
<1>1. S \subseteq MessagesOf(i) /\ S \subseteq M
    BY <1>0 DEF Grows, IsBeginning
<1>2. ASSUME NEW m \in S, NEW n \in M, n.seq < m.seq PROVE n \in S
    <2>1. CASE n \in MessagesOf(i)
        BY <1>0, <1>2, <2>1 DEF IsBeginning
    <2>2. CASE n \notin MessagesOf(i)
        <3>1. m.seq < n.seq
            BY <1>0, <1>1, <1>2, <2>2 DEF Grows
        <3>2. m.seq \in Nat /\ n.seq \in Nat
            BY <1>1, <1>2 DEF MessagesOf, Types, TypeOK, MessageRow
        <3> QED BY <1>2, <3>1, <3>2
    <2> QED BY <2>1, <2>2
<1> QED BY <1>1, <1>2 DEF IsBeginning

LEMMA MessagesKey ==
    ASSUME NEW i \in Ids
    PROVE  /\ <<"messages", i>> \in Keys
           /\ Payload(<<"messages", i>>) = SUBSET MessageRow
           /\ Stored(<<"messages", i>>) = MessagesOf(i)
BY DEF Keys, Payload, Stored

\* An entry for the messages of a thread has been there, or a reader puts there
\* what it has loaded.
LEMMA EntryOrigin ==
    ASSUME Types, [Next]_vars, NEW i \in Ids, cache'[<<"messages", i>>] # Nil
    PROVE  \/ /\ cache[<<"messages", i>>] # Nil
              /\ cache'[<<"messages", i>>].payload = cache[<<"messages", i>>].payload
           \/ \E q \in Requests : /\ req[q].pc = "fill" /\ req[q].key = <<"messages", i>>
                                  /\ cache'[<<"messages", i>>].payload = loaded[q]
<1> DEFINE k == <<"messages", i>>
<1>0. k \in Keys /\ CacheTyped
    BY MessagesKey DEF Types, TypeOK, CacheTyped
<1>1. ASSUME UNCHANGED cache PROVE cache[k] # Nil /\ cache'[k].payload = cache[k].payload
    BY <1>1
<1>2. ASSUME NEW key \in Keys, Drop(key)
      PROVE  cache[k] # Nil /\ cache'[k].payload = cache[k].payload
    <2>1. CASE cache' = [cache EXCEPT ![key] = Nil]
        BY <1>0, <2>1 DEF CacheTyped
    <2>2. CASE cache[key] # Nil /\ cache' = [cache EXCEPT ![key].current = FALSE]
        BY <1>0, <2>2 DEF CacheTyped, Entry
    <2> QED BY <1>2, <2>1, <2>2 DEF Drop
<1>3. ASSUME NEW q \in Requests, Fill(q)
      PROVE  \/ cache[k] # Nil /\ cache'[k].payload = cache[k].payload
             \/ /\ req[q].pc = "fill" /\ req[q].key = k
                /\ cache'[k].payload = loaded[q]
    BY <1>0, <1>3 DEF Fill, At, CacheTyped
<1>4. ASSUME NEW q \in Requests, Invalidate(q)
      PROVE  cache[k] # Nil /\ cache'[k].payload = cache[k].payload
    <2>1. req[q].id \in Ids
        <3>1. req[q] \in Request /\ WellFormed(req[q], lastId)
              /\ req[q].pc \in {"clear_list", "drop_thread", "drop_messages"}
            BY <1>4 DEF Types, TypeOK, Invalidate, At
        <3> QED BY <3>1, ConversationAssumption
                DEF WellFormed, Request, AllOperations, Types, TypeOK, Ids
    <2>2. <<"list", 0>> \in Keys /\ <<"thread", req[q].id>> \in Keys
          /\ <<"messages", req[q].id>> \in Keys
        BY <2>1 DEF Keys
    <2> QED BY <1>2, <1>4, <2>2 DEF Invalidate
<1>5. ASSUME NEW key \in Keys, Expire(key)
      PROVE  cache[k] # Nil /\ cache'[k].payload = cache[k].payload
    BY <1>2, <1>5 DEF Expire, Drop
<1>6. ASSUME NEW q \in Requests, Start(q) \/ Step(q)
      PROVE  UNCHANGED cache \/ Fill(q) \/ Invalidate(q)
    BY <1>6 DEF Step, Start, Lookup, Load, CreateThread, CreateImport, ParseImport,
       FindThread, ReadMaxSeq, CommitMessages, CompleteImport, Refresh, ReloadThread,
       DeleteThread, CommitRaises
<1> HIDE DEF k
<1>7. CASE UNCHANGED vars
    BY <1>1, <1>7 DEF vars
<1>8. CASE \E key \in Keys : Expire(key)
    BY <1>5, <1>8 DEF k
<1>9. CASE \E q \in Requests : Start(q) \/ Step(q)
    <2> PICK q \in Requests : Start(q) \/ Step(q)
        BY <1>9
    <2>1. UNCHANGED cache \/ Fill(q) \/ Invalidate(q)
        BY <1>6
    <2> QED BY <1>1, <1>3, <1>4, <2>1 DEF k
<1> QED BY <1>7, <1>8, <1>9 DEF Next, k

LEMMA LastIdGrows ==
    ASSUME Types, [Next]_vars
    PROVE  /\ lastId <= lastId'
           /\ \A i \in Ids : Exists(i)' => Exists(i) \/ i <= lastId'
<1>0. lastId \in Nat /\ lastId <= lastId /\ threads \in [Ids -> ThreadRow \cup {Nil}]
    BY ConversationAssumption DEF Types, TypeOK, Ids
<1>1. ASSUME NEW q \in Requests, CreateThread(q)
      PROVE  /\ lastId <= lastId'
             /\ \A i \in Ids : Exists(i)' => Exists(i) \/ i <= lastId'
    <2>1. /\ lastId' = IF NewId > lastId THEN NewId ELSE lastId
          /\ threads' = [threads EXCEPT ![NewId] = [creator |-> q, updated |-> q]]
          /\ NewId \in Nat
        BY <1>1, ConversationAssumption DEF CreateThread, Ids
    <2> HIDE DEF NewId
    <2>2. lastId <= lastId' /\ NewId <= lastId'
        BY <1>0, <2>1
    <2>3. \A i \in Ids : i # NewId => threads'[i] = threads[i]
        BY <1>0, <2>1
    <2> QED BY <2>2, <2>3 DEF Exists
<1>2. ASSUME NEW q \in Requests, QuietStep(q) /\ ~CreateThread(q)
      PROVE  UNCHANGED <<threads, lastId>>
    BY <1>2, QuietTables
<1>3. ASSUME NEW q \in Requests, CommitMessages(q)
      PROVE  lastId' = lastId /\ \A i \in Ids : Exists(i)' => Exists(i)
    <2>1. /\ lastId' = lastId
          /\ \/ threads' = threads
             \/ Exists(req[q].id) /\ threads' = [threads EXCEPT ![req[q].id].updated = q]
        BY <1>3 DEF CommitMessages, FlushSucceeds
    <2>2. \A i \in Ids : i # req[q].id => threads'[i] = threads[i]
        BY <1>0, <2>1
    <2> QED BY <2>1, <2>2 DEF Exists
<1>4. ASSUME NEW q \in Requests, DeleteThread(q)
      PROVE  lastId' = lastId /\ \A i \in Ids : Exists(i)' => Exists(i)
    BY <1>0, <1>4 DEF DeleteThread, Exists
<1>5. ASSUME UNCHANGED <<threads, lastId>>
      PROVE  lastId' = lastId /\ \A i \in Ids : Exists(i)' => Exists(i)
    BY <1>5 DEF Exists
<1>6. CASE \E q \in Requests : Start(q) \/ Step(q)
    BY <1>0, <1>1, <1>2, <1>3, <1>4, <1>5, <1>6, StepKinds
<1>7. CASE UNCHANGED vars \/ \E key \in Keys : Expire(key)
    BY <1>0, <1>5, <1>7 DEF vars, Expire, tables
<1> QED BY <1>6, <1>7 DEF Next

LEMMA GivenOutStep ==
    ASSUME Types, Types', GivenOut, [Next]_vars
    PROVE  GivenOut'
<1>0. lastId \in Nat /\ lastId' \in Nat /\ lastId <= lastId'
    BY LastIdGrows, ConversationAssumption DEF Types, TypeOK, Ids
<1>1. ASSUME NEW i \in Ids, Exists(i)' PROVE i <= lastId'
    <2>1. Exists(i) \/ i <= lastId'
        BY <1>1, LastIdGrows
    <2>2. Exists(i) => i <= lastId
        BY DEF GivenOut
    <2>3. i \in Nat
        BY ConversationAssumption DEF Ids
    <2> QED BY <1>0, <2>1, <2>2, <2>3
<1>2. ASSUME NEW i \in Ids, cache'[<<"messages", i>>] # Nil PROVE i <= lastId'
    <2>1. CASE cache[<<"messages", i>>] # Nil
        BY <1>0, <2>1, ConversationAssumption DEF GivenOut, Ids
    <2>2. ASSUME NEW q \in Requests, req[q].pc = "fill", req[q].key = <<"messages", i>>
          PROVE  i <= lastId'
        <3>1. WellFormed(req[q], lastId) /\ req[q] \in Request
            BY DEF Types, TypeOK
        <3>2. req[q].op = "read"
            BY <2>2, <3>1 DEF WellFormed, Request, AllOperations
        <3>3. i <= lastId
            BY <2>2, <3>1, <3>2 DEF WellFormed
        <3> QED BY <1>0, <3>3, ConversationAssumption DEF Ids
    <2> QED BY <1>2, <2>1, <2>2, EntryOrigin
<1> QED BY <1>1, <1>2 DEF GivenOut

LEMMA DenseStep ==
    ASSUME ReuseIds = FALSE, GInv, GInv', LInv, [Next]_vars
    PROVE  Dense'
<1>0. Types /\ Batches /\ Batches' /\ Unique /\ Types'
    BY DEF GInv
<1>1. ASSUME NEW m \in messages', m \in messages PROVE FilledUpTo(m.thread, m.seq)'
    <2>1. m.thread \in Ids /\ Exists(m.thread) /\ Exists(m.thread)'
        BY <1>0, <1>1 DEF Batches, Types, TypeOK, MessageRow
    <2>2. m.thread \in 1..lastId
        <3>1. m.thread <= lastId
            BY <2>1 DEF LInv, GivenOut
        <3>2. m.thread \in Nat \ {0} /\ lastId \in Nat
            BY <1>0, <2>1, ConversationAssumption DEF Ids, Types, TypeOK
        <3> QED BY <3>1, <3>2
    <2>3. FilledUpTo(m.thread, m.seq)
        BY <1>1 DEF LInv, Dense
    <2> QED BY <2>1, <2>2, <2>3, ThreadsGrow, FilledKept
<1>2. ASSUME NEW q \in Requests, CommitMessages(q), FlushSucceeds(q),
             NEW m \in NewMessages(q)
      PROVE  FilledUpTo(m.thread, m.seq)'
    <2>1. /\ req[q].pc = "commit" /\ req[q].op \in {"append", "import"}
          /\ Exists(req[q].id) /\ req[q].id \in Ids /\ messages' = messages \cup NewMessages(q)
        BY <1>0, <1>2, SendBatches DEF CommitMessages, At
    <2>2. FilledUpTo(req[q].id, req[q].next)
        BY <2>1 DEF LInv, Filled
    <2>3. m.thread = req[q].id /\ m.seq \in req[q].next .. req[q].next + req[q].size - 1
        BY BatchMembers
    <2>4. req[q].next \in Nat /\ req[q].size \in Nat
        BY <1>0, Numbers
    <2>5. ASSUME NEW k \in Nat \ {0}, k < m.seq
          PROVE  \E n \in MessagesOf(m.thread)' : n.seq = k
        <3>1. CASE k < req[q].next
            BY <2>1, <2>2, <2>3, <3>1 DEF FilledUpTo, MessagesOf
        <3>2. CASE req[q].next <= k
            <4> DEFINE n == [thread |-> req[q].id, seq |-> k, by |-> q]
            <4>1. n \in NewMessages(q)
                BY <2>3, <2>4, <2>5, <3>2 DEF NewMessages
            <4> QED BY <2>1, <2>3, <4>1 DEF MessagesOf
        <3> QED BY <2>4, <2>5, <3>1, <3>2
    <2> QED BY <2>5 DEF FilledUpTo
<1>3. ASSUME NEW q \in Requests, Start(q) \/ Step(q) PROVE Dense'
    <2>1. CASE QuietStep(q)
        BY <1>0, <1>1, <2>1, QuietTables DEF Dense
    <2>2. CASE DeleteThread(q)
        BY <1>0, <1>1, <2>2, DeleteBatches DEF Dense
    <2>3. CASE CommitMessages(q) /\ FlushSucceeds(q)
        BY <1>0, <1>1, <1>2, <2>3, SendBatches DEF Dense
    <2> QED BY <1>3, <2>1, <2>2, <2>3, StepKinds
<1>4. CASE UNCHANGED vars \/ \E key \in Keys : Expire(key)
    BY <1>1, <1>4 DEF Dense, vars, Expire, tables
<1> QED BY <1>3, <1>4 DEF Next

\* What a reader of messages is about to store is of a thread it may read.
LEMMA LoadedTypes ==
    ASSUME Types, NEW q \in Requests, req[q].pc = "fill", req[q].key[1] = "messages"
    PROVE  /\ req[q].key[2] \in Ids /\ req[q].key = <<"messages", req[q].key[2]>>
           /\ req[q].key[2] <= lastId
           /\ loaded[q] \subseteq MessageRow
<1>1. WellFormed(req[q], lastId) /\ req[q] \in Request
    BY DEF Types, TypeOK
<1>2. req[q].key \in Keys /\ req[q].key[2] <= lastId
    BY <1>1 DEF WellFormed, Request, AllOperations
<1>3. req[q].key = <<"messages", req[q].key[2]>> /\ req[q].key[2] \in Ids
    BY <1>2, KeyKinds
<1>4. loaded[q] \in Payload(req[q].key)
    BY DEF Types
<1> QED BY <1>2, <1>3, <1>4, MessagesKey

\* The steps that change what a reader has loaded, or which key it reads.
LEMMA LoadedOrigin ==
    ASSUME Types, [Next]_vars, NEW q \in Requests, req'[q].pc = "fill"
    PROVE  \/ req[q].pc = "fill" /\ req'[q].key = req[q].key /\ loaded'[q] = loaded[q]
           \/ Load(q) /\ req'[q].key = req[q].key /\ loaded'[q] = Stored(req[q].key)
<1>0. req \in [Requests -> Request] /\ DOMAIN loaded = Requests /\ req[q] \in Request
    BY DEF Types, TypeOK
<1>1. CASE UNCHANGED vars \/ \E key \in Keys : Expire(key)
    BY <1>1 DEF vars, Expire
<1>2. ASSUME NEW p \in Requests, Start(p) \/ Step(p), p # q
      PROVE  req'[q] = req[q] /\ loaded'[q] = loaded[q]
    <2>1. req'[q] = req[q]
        <3>1. CASE QuietStep(p)
            BY <1>2, <3>1, QuietStepsAreQuiet DEF Quiet
        <3>2. CASE DeleteThread(p) \/ CommitMessages(p)
            BY <1>0, <1>2, <3>2 DEF DeleteThread, CommitMessages, Goto, Fail
        <3> QED BY <1>2, <3>1, <3>2, StepKinds
    <2>2. loaded'[q] = loaded[q]
        BY <1>0, <1>2 DEF Step, Start, Lookup, Load, Fill, CreateThread, CreateImport,
           ParseImport, FindThread, ReadMaxSeq, CommitMessages, CompleteImport, Refresh,
           ReloadThread, DeleteThread, CommitRaises, Invalidate
    <2> QED BY <2>1, <2>2
<1>3. CASE Load(q)
    BY <1>0, <1>3 DEF Load, Fail, Goto, Request
<1>4. ASSUME Start(q) \/ Step(q), ~Load(q) PROVE FALSE
    <2>1. Start(q) => FALSE
        BY <1>0 DEF Start, Blank
    <2>2. Lookup(q) \/ Fill(q) \/ CreateThread(q) => FALSE
        BY <1>0 DEF Lookup, Fill, CreateThread, Succeed, Goto, Request
    <2>3. CreateImport(q) \/ ParseImport(q) \/ FindThread(q) => FALSE
        BY <1>0 DEF CreateImport, ParseImport, FindThread, Fail, Goto, Request
    <2>4. ReadMaxSeq(q) \/ CommitMessages(q) \/ CompleteImport(q) => FALSE
        BY <1>0 DEF ReadMaxSeq, CommitMessages, CompleteImport, Fail, Goto, Request
    <2>5. Refresh(q) \/ ReloadThread(q) \/ DeleteThread(q) \/ CommitRaises(q) => FALSE
        <3>1. Refresh(q) \/ ReloadThread(q) \/ DeleteThread(q) \/ CommitRaises(q) =>
                    \E pc \in {"reload", "clear_list", "done"} :
                        req' = [req EXCEPT ![q] = [req[q] EXCEPT !.pc = pc]]
            BY DEF Refresh, ReloadThread, DeleteThread, CommitRaises, Fail, Goto
        <3> QED BY <1>0, <3>1 DEF Request
    <2>6. Invalidate(q) => FALSE
        BY <1>0 DEF Invalidate, Succeed, Goto, Request
    <2> QED BY <1>4, <2>1, <2>2, <2>3, <2>4, <2>5, <2>6 DEF Step
<1> QED BY <1>1, <1>2, <1>3, <1>4 DEF Next, Step

LEMMA PrefixesStep ==
    ASSUME ReuseIds = FALSE, GInv, GInv', LInv, [Next]_vars
    PROVE  Prefixes'
<1>0. Types /\ Types'
    BY DEF GInv
<1>1. ASSUME NEW i \in Ids, NEW S \in SUBSET MessageRow, i <= lastId, Beginning(S, i),
             threads'[i] # Nil
      PROVE  IsBeginning(S, {m \in messages' : m.thread = i})
    <2>1. i \in 1..lastId
        BY <1>0, <1>1, ConversationAssumption DEF Types, TypeOK, Ids
    <2>2. Grows(i)
        BY <2>1, ThreadsGrow
    <2> QED BY <1>0, <1>1, <2>2, BeginningKept
<1>2. ASSUME NEW i \in Ids, cache[<<"messages", i>>] # Nil, threads'[i] # Nil
      PROVE  IsBeginning(cache[<<"messages", i>>].payload, {m \in messages' : m.thread = i})
    <2> DEFINE e == cache[<<"messages", i>>]
    <2>1. e \in Entry(<<"messages", i>>)
        BY <1>0, <1>2, MessagesKey DEF Types, TypeOK
    <2>2. e.payload \subseteq MessageRow
        BY <2>1, MessagesKey DEF Entry
    <2>3. i <= lastId /\ Beginning(e.payload, i)
        BY <1>2 DEF LInv, GivenOut, Prefixes
    <2> HIDE DEF e
    <2>4. IsBeginning(e.payload, {m \in messages' : m.thread = i})
        BY <1>1, <1>2, <2>2, <2>3
    <2> QED BY <2>4 DEF e
<1>3. ASSUME NEW q \in Requests, req[q].pc = "fill", NEW i \in Ids,
             req[q].key = <<"messages", i>>, threads'[i] # Nil
      PROVE  IsBeginning(loaded[q], {m \in messages' : m.thread = i})
    <2>1. i <= lastId /\ loaded[q] \subseteq MessageRow
        BY <1>0, <1>3, LoadedTypes
    <2>2. Beginning(loaded[q], i)
        BY <1>3 DEF LInv, Prefixes
    <2> QED BY <1>1, <1>3, <2>1, <2>2
<1>4. ASSUME NEW i \in Ids, cache'[<<"messages", i>>] # Nil, threads'[i] # Nil
      PROVE  IsBeginning(cache'[<<"messages", i>>].payload, {m \in messages' : m.thread = i})
    BY <1>0, <1>2, <1>3, <1>4, EntryOrigin
<1>5. ASSUME NEW q \in Requests, req'[q].pc = "fill", req'[q].key[1] = "messages",
             NEW i, i = req'[q].key[2], threads'[i] # Nil
      PROVE  IsBeginning(loaded'[q], {m \in messages' : m.thread = i})
    <2>1. CASE req[q].pc = "fill" /\ req'[q].key = req[q].key /\ loaded'[q] = loaded[q]
        <3>1. i \in Ids /\ req[q].key = <<"messages", i>>
            BY <1>0, <1>5, <2>1, LoadedTypes
        <3> QED BY <1>3, <1>5, <2>1, <3>1
    <2>2. CASE Load(q) /\ req'[q].key = req[q].key /\ loaded'[q] = Stored(req[q].key)
        <3>1. WellFormed(req[q], lastId) /\ req[q] \in Request /\ req[q].pc = "load"
            BY <1>0, <2>2 DEF Types, TypeOK, Load, At
        <3>2. req[q].key \in Keys
            BY <3>1 DEF WellFormed, Request, AllOperations
        <3>3. i \in Ids /\ req[q].key = <<"messages", i>>
            BY <1>5, <2>2, <3>2, KeyKinds
        <3>4. loaded'[q] = MessagesOf(i) /\ messages' = messages
            BY <2>2, <3>3, MessagesKey DEF Load, tables
        <3> QED BY <3>4 DEF IsBeginning, MessagesOf
    <2> QED BY <1>0, <1>5, <2>1, <2>2, LoadedOrigin
<1>6. \A i \in Ids : cache'[<<"messages", i>>] # Nil =>
                Beginning(cache[<<"messages", i>>].payload, i)'
    BY <1>4 DEF Beginning, Exists, MessagesOf
<1>7. ASSUME NEW q \in Requests, req'[q].pc = "fill", req'[q].key[1] = "messages"
      PROVE  Beginning(loaded[q], req[q].key[2])'
    BY <1>5, <1>7 DEF Beginning, Exists, MessagesOf
<1> QED BY <1>6, <1>7 DEF Prefixes

\* How a request goes on after it has found its thread.
Onward(q) ==
    /\ req'[q].op = req[q].op /\ req'[q].id = req[q].id /\ req'[q].thread = req[q].thread
    /\ req'[q].size = req[q].size
    /\ req'[q].next = req[q].next \/ req[q].pc = "max"
    /\ req'[q].pc \in {"record", "recorded", "max", "commit"} =>
            req[q].pc \in {"record", "recorded", "max"}
    /\ req'[q].pc = "commit" => req[q].pc = "max"
    /\ req'[q].pc \in {"refresh", "clear_list", "drop_thread", "drop_messages"} =>
            req[q].pc \in {"refresh", "reload", "commit", "complete", "clear_list", "drop_thread"}
    /\ req'[q].ok => req'[q].pc = "done" /\ req[q].pc \in {"lookup", "fill", "drop_messages"}

LEMMA RequestsGoOnward ==
    ASSUME Types, OkIsLate, NEW q \in Requests, Step(q)
    PROVE  Onward(q) \/ CreateThread(q) \/ FindThread(q)
<1>0. /\ req[q] \in Request /\ req \in [Requests -> Request]
      /\ req[q].ok => req[q].pc = "done"
    BY DEF Types, TypeOK, OkIsLate
<1>1. CASE Lookup(q)
    <2>1. /\ req[q].pc = "lookup"
          /\ \/ req' = [req EXCEPT ![q] = [req[q] EXCEPT !.pc = "done", !.ok = TRUE]]
             \/ req' = [req EXCEPT ![q] = [req[q] EXCEPT !.pc = "load"]]
        BY <1>1 DEF Lookup, At, Succeed, Goto
    <2>2. CASE req' = [req EXCEPT ![q] = [req[q] EXCEPT !.pc = "done", !.ok = TRUE]]
        BY <1>0, <2>1, <2>2 DEF Onward, Request
    <2>3. CASE req' = [req EXCEPT ![q] = [req[q] EXCEPT !.pc = "load"]]
        BY <1>0, <2>1, <2>3 DEF Onward, Request
    <2> QED BY <2>1, <2>2, <2>3
<1>2. CASE Load(q)
    <2>1. /\ req[q].pc = "load"
          /\ \/ req' = [req EXCEPT ![q] = [req[q] EXCEPT !.pc = "done"]]
             \/ req' = [req EXCEPT ![q] = [req[q] EXCEPT !.pc = "fill"]]
        BY <1>2 DEF Load, At, Fail, Goto
    <2> QED BY <1>0, <2>1 DEF Onward, Request
<1>3. CASE Fill(q)
    <2>1. /\ req[q].pc = "fill"
          /\ req' = [req EXCEPT ![q] = [req[q] EXCEPT !.pc = "done", !.ok = TRUE]]
        BY <1>3 DEF Fill, At, Succeed
    <2> QED BY <1>0, <2>1 DEF Onward, Request
<1>4. CASE CreateImport(q)
    <2>1. /\ req[q].pc = "record"
          /\ \/ req' = [req EXCEPT ![q] = [req[q] EXCEPT !.pc = "done"]]
             \/ req' = [req EXCEPT ![q] = [req[q] EXCEPT !.pc = "recorded"]]
        BY <1>4 DEF CreateImport, At, Fail, Goto
    <2> QED BY <1>0, <2>1 DEF Onward, Request
<1>5. CASE ParseImport(q)
    <2>1. /\ req[q].pc = "recorded"
          /\ \/ req' = [req EXCEPT ![q] = [req[q] EXCEPT !.pc = "done"]]
             \/ req' = [req EXCEPT ![q] = [req[q] EXCEPT !.pc = "max"]]
             \/ req' = [req EXCEPT ![q] = [req[q] EXCEPT !.pc = "complete", !.error = TRUE]]
        BY <1>5 DEF ParseImport, At, Fail, Goto
    <2>2. CASE \/ req' = [req EXCEPT ![q] = [req[q] EXCEPT !.pc = "done"]]
               \/ req' = [req EXCEPT ![q] = [req[q] EXCEPT !.pc = "max"]]
        BY <1>0, <2>1, <2>2 DEF Onward, Request
    <2>3. CASE req' = [req EXCEPT ![q] = [req[q] EXCEPT !.pc = "complete", !.error = TRUE]]
        BY <1>0, <2>1, <2>3 DEF Onward, Request
    <2> QED BY <2>1, <2>2, <2>3
<1>6. CASE ReadMaxSeq(q)
    <2>1. PICK k : /\ req[q].pc = "max"
                   /\ req' = [req EXCEPT ![q] = [req[q] EXCEPT !.pc = "commit", !.next = k]]
        BY <1>6 DEF ReadMaxSeq, At
    <2> QED BY <1>0, <2>1 DEF Onward, Request
<1>7. CASE CommitMessages(q)
    <2>1. /\ req[q].pc = "commit"
          /\ \/ req' = [req EXCEPT ![q] = [req[q] EXCEPT !.pc = "done"]]
             \/ req' = [req EXCEPT ![q] = [req[q] EXCEPT !.pc = "refresh"]]
             \/ req' = [req EXCEPT ![q] = [req[q] EXCEPT !.pc = "complete"]]
        BY <1>7 DEF CommitMessages, At, Fail, Goto
    <2> QED BY <1>0, <2>1 DEF Onward, Request
<1>8. CASE CompleteImport(q) \/ Refresh(q) \/ ReloadThread(q) \/ CommitRaises(q)
           \/ DeleteThread(q)
    <2>1. \/ req' = [req EXCEPT ![q] = [req[q] EXCEPT !.pc = "done"]]
          \/ /\ req' = [req EXCEPT ![q] = [req[q] EXCEPT !.pc = "refresh"]]
             /\ req[q].pc = "complete"
          \/ /\ req' = [req EXCEPT ![q] = [req[q] EXCEPT !.pc = "reload"]]
             /\ req[q].pc = "refresh"
          \/ /\ req' = [req EXCEPT ![q] = [req[q] EXCEPT !.pc = "clear_list"]]
             /\ req[q].pc \in {"refresh", "reload", "commit"}
        BY <1>8 DEF CompleteImport, Refresh, ReloadThread, CommitRaises, DeleteThread, At,
           Fail, Goto
    <2>2. req[q].pc # "done"
        BY <1>8 DEF CompleteImport, Refresh, ReloadThread, CommitRaises, DeleteThread, At
    <2> QED BY <1>0, <2>1, <2>2 DEF Onward, Request
<1>9. CASE Invalidate(q)
    <2>1. \/ /\ req' = [req EXCEPT ![q] = [req[q] EXCEPT !.pc = "drop_thread"]]
             /\ req[q].pc = "clear_list"
          \/ /\ req' = [req EXCEPT ![q] = [req[q] EXCEPT !.pc = "drop_messages"]]
             /\ req[q].pc = "drop_thread"
          \/ /\ req' = [req EXCEPT ![q] = [req[q] EXCEPT !.pc = "done", !.ok = TRUE]]
             /\ req[q].pc = "drop_messages"
        BY <1>9 DEF Invalidate, At, Succeed, Goto
    <2>2. CASE req' = [req EXCEPT ![q] = [req[q] EXCEPT !.pc = "done", !.ok = TRUE]]
               /\ req[q].pc = "drop_messages"
        BY <1>0, <2>2 DEF Onward, Request
    <2>3. CASE \/ /\ req' = [req EXCEPT ![q] = [req[q] EXCEPT !.pc = "drop_thread"]]
                  /\ req[q].pc = "clear_list"
               \/ /\ req' = [req EXCEPT ![q] = [req[q] EXCEPT !.pc = "drop_messages"]]
                  /\ req[q].pc = "drop_thread"
        BY <1>0, <2>3 DEF Onward, Request
    <2> QED BY <2>1, <2>2, <2>3
<1> QED BY <1>1, <1>2, <1>3, <1>4, <1>5, <1>6, <1>7, <1>8, <1>9 DEF Step

\* The other requests.
LEMMA OthersStay ==
    ASSUME GInv, NEW q \in Requests, Start(q) \/ Step(q), NEW p \in Requests, p # q
    PROVE  req'[p] = req[p] /\ (Sent(p)' => Sent(p))
<1>0. Types /\ Batches /\ Unique
    BY DEF GInv
<1>1. CASE QuietStep(q)
    <2>1. Quiet(q)
        BY <1>0, <1>1, QuietStepsAreQuiet
    <2> QED BY <1>0, <2>1, QuietBatches DEF Quiet
<1>2. CASE DeleteThread(q)
    <2>1. \A x \in Requests : Sent(x)' <=> Sent(x) /\ req[x].id # req[q].id
        BY <1>0, <1>2, DeleteBatches
    <2>2. \A x \in Requests : x # q => req'[x] = req[x]
        BY <1>0, <1>2, DeleteBatches
    <2> QED BY <2>1, <2>2
<1>3. CASE CommitMessages(q) /\ FlushSucceeds(q)
    BY <1>0, <1>3, SendBatches
<1> QED BY <1>1, <1>2, <1>3, StepKinds

LEMMA ThreadKept ==
    ASSUME ReuseIds = FALSE, GInv, GInv', LInv, [Next]_vars, NEW p \in Requests,
           req'[p].thread = req[p].thread, req'[p].id = req[p].id,
           req'[p].pc \in {"record", "recorded", "max", "commit"} \/ Sent(p)' =>
                req[p].pc \in {"record", "recorded", "max", "commit"} \/ Sent(p)
    PROVE  SameThread(p)'
<1>0. SameThread(p) /\ Types /\ Types'
    BY DEF LInv, GInv
<1>1. CASE req[p].thread = Nil
    BY <1>0, <1>1 DEF SameThread
<1>2. ASSUME req[p].thread # Nil, NEW i, i = req[p].id PROVE SameThread(p)'
    <2>1. i \in 1..lastId /\ i \in 1..lastId'
        <3>1. i \in 1..lastId
            BY <1>0, <1>2 DEF SameThread
        <3>2. lastId <= lastId' /\ lastId \in Nat /\ lastId' \in Nat
            BY <1>0, LastIdGrows, ConversationAssumption DEF Types, TypeOK, Ids
        <3> QED BY <3>1, <3>2
    <2>2. Grows(i)
        BY <2>1, ThreadsGrow
    <2>3. threads'[i] # Nil => threads'[i].creator = req[p].thread
        BY <1>0, <1>2, <2>2 DEF SameThread, Grows, Exists
    <2> QED BY <1>0, <1>2, <2>1, <2>3 DEF SameThread, Exists
<1> QED BY <1>1, <1>2

LEMMA FilledStays ==
    ASSUME ReuseIds = FALSE, GInv, LInv, [Next]_vars, NEW p \in Requests,
           req'[p].id = req[p].id, req'[p].next = req[p].next, req'[p].op = req[p].op,
           req'[p].pc = "commit" => req[p].pc = "commit"
    PROVE  Filled(p)'
<1> SUFFICES ASSUME req[p].pc = "commit", req[p].op \in {"append", "import"},
                    NEW i, i = req[p].id, NEW n, n = req[p].next, threads'[i] # Nil
             PROVE  FilledUpTo(i, n)'
    BY DEF Filled, FilledUpTo, Exists, MessagesOf
<1>1. i \in 1..lastId
    BY DEF GInv, Types, WellFormed
<1>2. Grows(i)
    BY <1>1, ThreadsGrow
<1>3. FilledUpTo(i, n)
    BY <1>2 DEF LInv, Filled, Grows, Exists
<1> QED BY <1>2, <1>3, FilledKept DEF Exists

LEMMA AppendedStays ==
    ASSUME ReuseIds = FALSE, GInv, LInv, [Next]_vars, NEW p \in Requests,
           req'[p].id = req[p].id, req'[p].next = req[p].next, req'[p].op = req[p].op,
           req'[p].size = req[p].size,
           \/ req'[p].pc \in {"refresh", "clear_list", "drop_thread", "drop_messages"}
           \/ req'[p].ok
           => \/ req[p].pc \in {"refresh", "clear_list", "drop_thread", "drop_messages"}
              \/ req[p].ok
    PROVE  Appended(p)'
<1> SUFFICES ASSUME req[p].op = "append", NEW i, i = req[p].id, threads'[i] # Nil,
                    \/ req[p].pc \in {"refresh", "clear_list", "drop_thread", "drop_messages"}
                    \/ req[p].ok
             PROVE  NewMessages(p)' \subseteq messages'
    BY DEF Appended, Exists
<1>1. i \in 1..lastId
    BY DEF GInv, Types, WellFormed
<1>2. Grows(i)
    BY <1>1, ThreadsGrow
<1>3. NewMessages(p) \subseteq messages
    BY <1>2 DEF LInv, Appended, Grows, Exists
<1>4. NewMessages(p)' = NewMessages(p)
    BY SameBatch
<1>5. \A m \in NewMessages(p) : m \in MessagesOf(i)
    BY <1>3, BatchMembers DEF MessagesOf
<1> QED BY <1>2, <1>4, <1>5 DEF Grows, Exists, MessagesOf

LEMMA OwnSent ==
    ASSUME GInv, NEW q \in Requests, Start(q) \/ Step(q), Sent(q)'
    PROVE  Sent(q) \/ req[q].pc = "commit"
<1>0. Types /\ Batches /\ Unique
    BY DEF GInv
<1>1. CASE QuietStep(q)
    BY <1>0, <1>1, QuietStepsAreQuiet, QuietBatches
<1>2. CASE DeleteThread(q) \/ CommitMessages(q)
    BY <1>2 DEF DeleteThread, CommitMessages, At
<1> QED BY <1>1, <1>2, StepKinds

Own(q) == /\ SameThread(q)' /\ Filled(q)' /\ Appended(q)'
          /\ req'[q].ok => req'[q].pc = "done"

LEMMA StartOwn ==
    ASSUME GInv, NEW q \in Requests, Start(q)
    PROVE  Own(q)
<1>0. req \in [Requests -> Request] /\ req[q].pc = "new"
    BY DEF GInv, Types, TypeOK, Start, At
<1>1. /\ req'[q].thread = Nil /\ req'[q].pc \in {"start", "lookup"} /\ ~req'[q].ok
    <2>1. CASE \E key \in Keys :
                req' = [req EXCEPT ![q] = [Blank EXCEPT !.op = "read", !.pc = "lookup",
                                                       !.key = key]]
        BY <1>0, <2>1 DEF Blank
    <2>2. CASE \E op \in Operations \ {"read"} :
                \E i \in IF op \in {"create", "import"} THEN {0} ELSE 1..lastId,
                   size \in IF op \in {"append", "import"} THEN BatchSizes ELSE {0} :
                    req' = [req EXCEPT ![q] =
                        [Blank EXCEPT !.op = op, !.pc = "start", !.id = i, !.size = size]]
        BY <1>0, <2>2 DEF Blank
    <2> QED BY <2>1, <2>2 DEF Start
<1>2. ~Sent(q)
    BY <1>0 DEF GInv, Batches, Before
<1>3. ~Sent(q)'
    BY <1>0, <1>2, OwnSent
<1> QED BY <1>1, <1>3 DEF Own, SameThread, Filled, Appended

LEMMA CreateOwn ==
    ASSUME ReuseIds = FALSE, GInv, GInv', LInv, NEW q \in Requests, CreateThread(q)
    PROVE  Own(q)
<1>0. /\ req \in [Requests -> Request] /\ req[q] \in Request /\ req[q].pc = "start"
      /\ threads \in [Ids -> ThreadRow \cup {Nil}] /\ lastId \in Nat
      /\ Types /\ Types'
    BY ConversationAssumption DEF GInv, Types, TypeOK, CreateThread, At, Ids
<1>1. /\ lastId + 1 \in Ids /\ lastId' = lastId + 1
      /\ threads' = [threads EXCEPT ![lastId + 1] = [creator |-> q, updated |-> q]]
      /\ req[q].op \in {"create", "import"}
      /\ req' = [req EXCEPT ![q] =
                    [req[q] EXCEPT !.pc = IF req[q].op = "create" THEN "refresh" ELSE "record",
                                   !.id = lastId + 1, !.thread = q]]
    <2>1. NewId = lastId + 1
        BY DEF NewId
    <2> HIDE DEF NewId
    <2>2. IF NewId > lastId THEN NewId = NewId ELSE FALSE
        BY <1>0, <2>1
    <2> QED BY <2>1, <2>2 DEF CreateThread
<1>2. /\ req'[q].id = lastId + 1 /\ req'[q].thread = q /\ req'[q].op = req[q].op
      /\ req'[q].pc # "commit" /\ ~req'[q].ok
    BY <1>0, <1>1 DEF Request, LInv, OkIsLate
<1>3. threads'[lastId + 1] = [creator |-> q, updated |-> q]
    BY <1>0, <1>1
<1>4. q # Nil
    BY ConversationAssumption
<1>5. lastId + 1 \in 1..lastId'
    BY <1>0, <1>1
<1>6. SameThread(q)'
    BY <1>1, <1>2, <1>3, <1>4, <1>5 DEF SameThread
<1> QED BY <1>1, <1>2, <1>6 DEF Own, Filled, Appended

LEMMA FindOwn ==
    ASSUME ReuseIds = FALSE, GInv, GInv', LInv, [Next]_vars, NEW q \in Requests, FindThread(q)
    PROVE  Own(q)
<1>0. /\ req \in [Requests -> Request] /\ req[q] \in Request /\ req[q].pc = "start"
      /\ WellFormed(req[q], lastId) /\ threads' = threads /\ lastId' = lastId
      /\ req[q].op \in {"append", "delete"} /\ ~req[q].ok
    BY DEF GInv, Types, TypeOK, FindThread, At, LInv, OkIsLate, tables
<1>1. ~Sent(q)'
    <2>1. ~Sent(q)
        BY <1>0 DEF GInv, Batches, Before
    <2> QED BY <1>0, <2>1, OwnSent DEF Step
<1>2. CASE Exists(req[q].id)
    <2>1. req' = [req EXCEPT ![q] =
                    [req[q] EXCEPT !.thread = threads[req[q].id].creator,
                                   !.pc = IF req[q].op = "append" THEN "max" ELSE "commit"]]
        BY <1>2 DEF FindThread
    <2>2. /\ req'[q].id = req[q].id /\ req'[q].thread = threads[req[q].id].creator
          /\ req'[q].op = req[q].op /\ ~req'[q].ok
          /\ req'[q].pc = IF req[q].op = "append" THEN "max" ELSE "commit"
        BY <1>0, <2>1 DEF Request
    <2>3. req[q].id \in 1..lastId /\ req[q].id \in Ids
        BY <1>0, ConversationAssumption DEF WellFormed, GInv, Types, TypeOK, Ids
    <2>4. threads[req[q].id].creator \in Requests
        BY <1>2, <2>3 DEF Exists, GInv, Types, TypeOK, ThreadRow
    <2>5. SameThread(q)'
        BY <1>0, <2>2, <2>3, <2>4, ConversationAssumption DEF SameThread
    <2> QED BY <1>0, <2>2, <2>5 DEF Own, Filled, Appended
<1>3. CASE ~Exists(req[q].id)
    <2>1. req' = [req EXCEPT ![q] = [req[q] EXCEPT !.pc = "done"]]
        BY <1>3 DEF FindThread, Fail, Goto
    <2>2. /\ req'[q].id = req[q].id /\ req'[q].thread = req[q].thread
          /\ ~req'[q].ok /\ req'[q].pc = "done"
        BY <1>0, <2>1 DEF Request
    <2>3. SameThread(q)'
        BY <1>1, <2>2, ThreadKept
    <2> QED BY <2>2, <2>3 DEF Own, Filled, Appended
<1> QED BY <1>2, <1>3

LEMMA OnwardOwn ==
    ASSUME ReuseIds = FALSE, GInv, GInv', LInv, [Next]_vars, NEW q \in Requests, Step(q),
           Onward(q)
    PROVE  Own(q)
<1>0. /\ req \in [Requests -> Request] /\ req[q] \in Request /\ WellFormed(req[q], lastId)
      /\ Types /\ Batches /\ Unique
    BY DEF GInv, Types, TypeOK
<1>1. SameThread(q)'
    BY OwnSent, ThreadKept DEF Onward
<1>2. CASE req[q].pc = "max"
    <2>1. ReadMaxSeq(q)
        BY <1>2 DEF Step, Lookup, Load, Fill, CreateThread, CreateImport, ParseImport,
           FindThread, CommitMessages, CompleteImport, Refresh, ReloadThread,
           DeleteThread, CommitRaises, Invalidate, At
    <2>2. /\ req' = [req EXCEPT ![q] = [req[q] EXCEPT !.pc = "commit",
                                                     !.next = NextSeq(req[q].id)]]
          /\ messages' = messages
        BY <2>1 DEF ReadMaxSeq, tables
    <2> HIDE DEF NextSeq
    <2>3. req'[q].pc = "commit" /\ req'[q].next = NextSeq(req[q].id)
          /\ req'[q].id = req[q].id /\ ~req'[q].ok
        BY <1>0, <2>2 DEF Request, Onward
    <2>4. ASSUME NEW i, i = req[q].id PROVE FilledUpTo(i, NextSeq(i))
        <3>1. i \in Ids
            BY <1>0, <1>2, <2>4, ConversationAssumption
               DEF WellFormed, Request, AllOperations, Types, TypeOK, Ids
        <3>2. /\ MessagesOf(i) = {} => NextSeq(i) = 1
              /\ MessagesOf(i) # {} => \E m \in MessagesOf(i) : NextSeq(i) = m.seq + 1
            BY <1>0, <3>1, NextSeqIsNext DEF Types, TypeOK
        <3>3. CASE MessagesOf(i) = {}
            BY <3>2, <3>3 DEF FilledUpTo
        <3>4. CASE MessagesOf(i) # {}
            <4>1. PICK m \in MessagesOf(i) : NextSeq(i) = m.seq + 1
                BY <3>2, <3>4
            <4>2. FilledUpTo(i, m.seq) /\ m.seq \in Nat
                BY <1>0 DEF LInv, Dense, MessagesOf, Types, TypeOK, MessageRow
            <4>3. ASSUME NEW k \in Nat \ {0}, k < m.seq + 1
                  PROVE  \E n \in MessagesOf(i) : n.seq = k
                BY <4>2, <4>3 DEF FilledUpTo
            <4> QED BY <4>1, <4>3 DEF FilledUpTo
        <3> QED BY <3>3, <3>4
    <2>5. Filled(q)'
        BY <2>2, <2>3, <2>4 DEF Filled, FilledUpTo, MessagesOf
    <2> QED BY <1>1, <2>3, <2>5 DEF Own, Appended
<1>3. CASE req[q].pc # "max" /\ ~(CommitMessages(q) /\ FlushSucceeds(q))
    <2>1. Filled(q)'
        BY <1>3, FilledStays DEF Onward
    <2>2. CASE req[q].op # "append"
        BY <1>1, <2>1, <2>2 DEF Own, Appended, Onward
    <2>3. CASE req[q].op = "append" /\ req[q].pc = "commit"
        <3>1. req' = [req EXCEPT ![q] = [req[q] EXCEPT !.pc = "done"]]
            BY <1>3, <2>3 DEF Step, Lookup, Load, Fill, CreateThread, CreateImport, ParseImport,
               FindThread, ReadMaxSeq, CommitMessages, CompleteImport, Refresh, ReloadThread,
               DeleteThread, CommitRaises, Invalidate, At, Fail, Goto
        <3>2. req'[q].pc = "done" /\ ~req'[q].ok
            BY <1>0, <2>3, <3>1 DEF Request, Onward
        <3> QED BY <1>1, <2>1, <3>2 DEF Own, Appended
    <2>4. CASE req[q].op = "append" /\ req[q].pc # "commit"
        BY <1>0, <1>1, <1>3, <2>1, <2>4, AppendedStays DEF Onward, Own, WellFormed
    <2> QED BY <2>2, <2>3, <2>4
<1>4. CASE CommitMessages(q) /\ FlushSucceeds(q)
    <2>1. messages' = messages \cup NewMessages(q) /\ NewMessages(q)' = NewMessages(q)
        BY <1>0, <1>4, SendBatches
    <2>2. req'[q].pc # "commit" /\ ~req'[q].ok
        BY <1>4 DEF Onward, CommitMessages, At
    <2> QED BY <1>1, <2>1, <2>2 DEF Own, Filled, Appended
<1> QED BY <1>2, <1>3, <1>4

LEMMA InitLInv == Init => LInv
<1> SUFFICES ASSUME Init PROVE LInv
    OBVIOUS
<1>1. GivenOut /\ Prefixes
    BY MessagesKey DEF Init, GivenOut, Prefixes, Exists, Blank
<1>2. Dense /\ OkIsLate
    BY DEF Init, Dense, OkIsLate, Blank
<1>3. ASSUME NEW q \in Requests PROVE SameThread(q) /\ Filled(q) /\ Appended(q)
    BY DEF Init, SameThread, Filled, Appended, Blank, Sent
<1> QED BY <1>1, <1>2, <1>3 DEF LInv

LEMMA LInvStep ==
    ASSUME ReuseIds = FALSE, GInv, GInv', LInv, [Next]_vars
    PROVE  LInv'
<1>1. GivenOut' /\ Dense' /\ Prefixes'
    BY GivenOutStep, DenseStep, PrefixesStep DEF GInv, LInv
<1>2. ASSUME NEW p \in Requests, req'[p] = req[p], Sent(p)' => Sent(p)
      PROVE  Own(p)
    BY <1>2, ThreadKept, FilledStays, AppendedStays DEF Own, LInv, OkIsLate
<1>3. ASSUME NEW q \in Requests, Start(q) \/ Step(q)
      PROVE  Own(q)
    <2>1. CASE Start(q)
        BY <2>1, StartOwn
    <2>2. CASE Step(q)
        <3>1. Onward(q) \/ CreateThread(q) \/ FindThread(q)
            BY <2>2, RequestsGoOnward DEF GInv, LInv
        <3> QED BY <2>2, <3>1, OnwardOwn, CreateOwn, FindOwn
    <2> QED BY <1>3, <2>1, <2>2
<1>4. ASSUME NEW p \in Requests PROVE Own(p)
    <2>1. CASE \E q \in Requests : Start(q) \/ Step(q)
        <3> PICK q \in Requests : Start(q) \/ Step(q)
            BY <2>1
        <3>1. CASE p = q
            BY <1>3, <3>1
        <3>2. CASE p # q
            BY <1>2, <3>2, OthersStay
        <3> QED BY <3>1, <3>2
    <2>2. CASE UNCHANGED <<messages, req>>
        BY <1>2, <2>2 DEF Sent
    <2> QED BY <2>1, <2>2 DEF Next, Expire, vars, tables
<1>5. OkIsLate'
    BY <1>4 DEF Own, OkIsLate
<1> QED BY <1>1, <1>4, <1>5 DEF LInv, Own

LEMMA LInvHolds == ASSUME ReuseIds = FALSE PROVE Spec => [](GInv /\ LInv)
<1>1. Init => GInv /\ LInv
    BY InitGInv, InitLInv
<1>2. GInv /\ LInv /\ [Next]_vars => (GInv /\ LInv)'
    BY GInvStep, LInvStep
<1> QED BY <1>1, <1>2, PTL DEF Spec

-----------------------------------------------------------------------------
(* Theorems.                                                               *)

\* On a database that never gives an id twice, the messages of a thread are
\* numbered 1, 2, 3, ... however many requests append, import and delete at the
\* same time: the constraint on (thread_id, seq_no) turns a race for the same
\* numbers into a failure of the request that comes second.
THEOREM Numbering == ASSUME ReuseIds = FALSE PROVE Spec => []SeqNosAreDense
<1>1. GInv /\ LInv => SeqNosAreDense
    <2> SUFFICES ASSUME GInv, LInv PROVE SeqNosAreDense
        OBVIOUS
    <2>1. ASSUME NEW m \in messages, NEW k \in 1 .. m.seq
          PROVE  \E n \in messages : n.thread = m.thread /\ n.seq = k
        <3>1. m.seq \in Nat /\ FilledUpTo(m.thread, m.seq)
            BY DEF GInv, Types, TypeOK, MessageRow, LInv, Dense
        <3>2. CASE k = m.seq
            BY <3>2
        <3>3. CASE k # m.seq
            BY <3>1, <3>3 DEF FilledUpTo, MessagesOf
        <3> QED BY <3>2, <3>3
    <2> QED BY <2>1 DEF SeqNosAreDense, GInv, Unique
<1> QED BY <1>1, LInvHolds, PTL

\* The messages of a request are stored together or not at all, and a request
\* whose answer says so has stored them all, unless their thread is gone.
THEOREM WholeBatches == ASSUME ReuseIds = FALSE PROVE Spec => []BatchesAreWhole
<1>1. GInv /\ LInv => BatchesAreWhole
    <2> SUFFICES ASSUME GInv, LInv, NEW q \in Requests
                 PROVE  LET mine == {m \in messages : m.by = q}
                        IN  /\ mine \in {{}, NewMessages(q)}
                            /\ req[q].ok /\ req[q].op = "append" /\ Exists(req[q].id) =>
                                    mine = NewMessages(q)
        BY DEF BatchesAreWhole
    <2> DEFINE mine == {m \in messages : m.by = q}
    <2>1. mine \subseteq NewMessages(q)
        BY DEF GInv, Batches
    <2>2. \A m \in NewMessages(q) : m.by = q
        BY BatchMembers
    <2>3. mine # {} => NewMessages(q) \subseteq mine
        BY <2>2 DEF GInv, Batches, Sent
    <2>4. req[q].ok /\ req[q].op = "append" /\ Exists(req[q].id) => NewMessages(q) \subseteq mine
        BY <2>2 DEF LInv, Appended
    <2> QED BY <2>1, <2>3, <2>4
<1> QED BY <1>1, LInvHolds, PTL

\* Between the request that looked a thread up and its commit others may delete
\* threads and create new ones: its messages never land in one of those.
THEOREM MessagesArrive == ASSUME ReuseIds = FALSE PROVE Spec => []MessagesReachTheirThread
<1>1. GInv /\ LInv => MessagesReachTheirThread
    <2> SUFFICES ASSUME GInv, LInv, NEW m \in messages
                 PROVE  Exists(m.thread) /\ threads[m.thread].creator = req[m.by].thread
        BY DEF MessagesReachTheirThread
    <2>1. m.by \in Requests /\ Exists(m.thread) /\ m \in NewMessages(m.by) /\ Sent(m.by)
        BY DEF GInv, Types, TypeOK, MessageRow, Batches, Sent
    <2>2. m.thread = req[m.by].id
        BY <2>1, BatchMembers
    <2> QED BY <2>1, <2>2 DEF LInv, SameThread
<1> QED BY <1>1, LInvHolds, PTL

\* Whatever readers had loaded before others appended, deleted and invalidated,
\* and whichever drop of an entry was lost, a cached list of messages is a
\* beginning of its thread.
THEOREM CachedPrefixes == ASSUME ReuseIds = FALSE PROVE Spec => []CachedMessagesAreAPrefix
<1>1. LInv => CachedMessagesAreAPrefix
    BY DEF LInv, Prefixes, Beginning, IsBeginning, CachedMessagesAreAPrefix
<1> QED BY <1>1, LInvHolds, PTL

-----------------------------------------------------------------------------
(* The inductive invariant behind TrueEntriesAreDropped, where there are no *)
(* imports.                                                                *)

NoImport == \A q \in Requests : req[q].op # "import"

\* Request q will drop the key: it is past its refresh, or its rows are still
\* there so that the refresh will not raise.
WillDrop(q, key) ==
    /\ key[1] = "list" \/ req[q].id = key[2]
    /\ \/ req[q].pc = "clear_list"
       \/ req[q].pc = "drop_thread" /\ key[1] # "list"
       \/ req[q].pc = "drop_messages" /\ key[1] = "messages"
       \/ req[q].pc = "refresh" /\ req[q].op = "create" /\ Exists(req[q].id)
       \/ req[q].pc = "refresh" /\ req[q].op = "append" /\ NewMessages(q) \subseteq messages

Stale(key) == cache[key] # Nil /\ cache[key].current /\ cache[key].payload # Stored(key)

Covered(key) == Stale(key) => \E q \in Requests : WillDrop(q, key)

DInv == NoImport /\ \A key \in Keys : Covered(key)

\* What the search for a thread leaves as it is.
LEMMA FindKeeps ==
    ASSUME Types, NEW q \in Requests, FindThread(q)
    PROVE  req'[q].op = req[q].op /\ req'[q].ok = req[q].ok
<1>0. req \in [Requests -> Request] /\ req[q] \in Request
    BY DEF Types, TypeOK
<1>1. PICK thread, pc : \/ req' = [req EXCEPT ![q] = [req[q] EXCEPT !.pc = "done"]]
                        \/ req' = [req EXCEPT ![q] =
                                        [req[q] EXCEPT !.thread = thread, !.pc = pc]]
    BY DEF FindThread, Fail, Goto
<1> DEFINE x == [req[q] EXCEPT !.pc = "done"]
           y == [req[q] EXCEPT !.thread = thread, !.pc = pc]
<1>2. req'[q] = x \/ req'[q] = y
    BY <1>0, <1>1
<1>3. x.op = req[q].op /\ x.ok = req[q].ok
    BY <1>0 DEF Request
<1>4. y.op = req[q].op /\ y.ok = req[q].ok
    BY <1>0 DEF Request
<1> QED BY <1>2, <1>3, <1>4

\* Requests are for operations that are requested.
LEMMA NoImportStep ==
    ASSUME "import" \notin Operations, Types, OkIsLate, NoImport, [Next]_vars
    PROVE  NoImport'
<1>0. req \in [Requests -> Request] /\ \A q \in Requests : req[q] \in Request
    BY DEF Types, TypeOK
<1>1. ASSUME NEW q \in Requests, Start(q) PROVE NoImport'
    <2>1. CASE \E key \in Keys :
                req' = [req EXCEPT ![q] = [Blank EXCEPT !.op = "read", !.pc = "lookup",
                                                       !.key = key]]
        BY <1>0, <2>1 DEF Blank, NoImport
    <2>2. CASE \E op \in Operations \ {"read"} :
                \E i \in IF op \in {"create", "import"} THEN {0} ELSE 1..lastId,
                   size \in IF op \in {"append", "import"} THEN BatchSizes ELSE {0} :
                    req' = [req EXCEPT ![q] =
                        [Blank EXCEPT !.op = op, !.pc = "start", !.id = i, !.size = size]]
        BY <1>0, <2>2 DEF Blank, NoImport
    <2> QED BY <1>1, <2>1, <2>2 DEF Start
<1>2. ASSUME NEW q \in Requests, Step(q) PROVE req'[q].op = req[q].op
    <2>1. Onward(q) \/ CreateThread(q) \/ FindThread(q)
        BY <1>2, RequestsGoOnward
    <2>2. CASE CreateThread(q)
        <3>1. PICK pc, i : req' = [req EXCEPT ![q] =
                                [req[q] EXCEPT !.pc = pc, !.id = i, !.thread = q]]
            BY <2>2 DEF CreateThread
        <3> DEFINE x == [req[q] EXCEPT !.pc = pc, !.id = i, !.thread = q]
        <3>2. x.op = req[q].op
            BY <1>0 DEF Request
        <3>3. req'[q] = x
            BY <1>0, <3>1
        <3> QED BY <3>2, <3>3
    <2>3. CASE FindThread(q)
        BY <1>0, <2>3, FindKeeps
    <2> QED BY <2>1, <2>2, <2>3 DEF Onward
<1>3. ASSUME NEW q \in Requests, Step(q), NEW p \in Requests, p # q PROVE req'[p] = req[p]
    <2>1. CASE QuietStep(q)
        BY <1>3, <2>1, QuietStepsAreQuiet DEF Quiet
    <2>2. CASE DeleteThread(q) \/ CommitMessages(q)
        BY <1>0, <1>3, <2>2 DEF DeleteThread, CommitMessages, Goto, Fail
    <2> QED BY <1>3, <2>1, <2>2, StepKinds
<1>4. CASE UNCHANGED vars \/ \E key \in Keys : Expire(key)
    BY <1>4 DEF vars, Expire, NoImport
<1> QED BY <1>1, <1>2, <1>3, <1>4 DEF Next, NoImport

\* The thread of a request that works on one.
LEMMA WriterId ==
    ASSUME Types, NEW q \in Requests,
           req[q].pc \in {"commit", "refresh", "clear_list", "drop_thread", "drop_messages"}
    PROVE  /\ req[q].id \in Ids
           /\ req[q].op \in {"create", "append", "import", "delete"}
           /\ req[q].pc = "refresh" => req[q].op # "delete"
<1>1. req[q] \in Request /\ WellFormed(req[q], lastId) /\ lastId \in Ids \cup {0}
    BY DEF Types, TypeOK
<1>2. req[q].op \in {"create", "append", "import", "delete"}
    BY <1>1 DEF WellFormed, Request, AllOperations
<1>3. req[q].id \in 1..lastId
    BY <1>1, <1>2 DEF WellFormed
<1> QED BY <1>1, <1>2, <1>3, ConversationAssumption DEF WellFormed, Ids

\* A request that will drop a key will do so, unless its thread is deleted.
LEMMA WillDropStays ==
    ASSUME Types, NEW key \in Keys, NEW p \in Requests, WillDrop(p, key),
           req'[p] = req[p], threads[req[p].id] # Nil => threads'[req[p].id] # Nil,
           messages \subseteq messages'
    PROVE  WillDrop(p, key)'
<1>1. NewMessages(p)' = NewMessages(p)
    BY SameBatch
<1> QED BY <1>1 DEF WillDrop, Exists

\* A step that changes neither the tables nor the cache, of a request that has
\* written nothing to announce.
LEMMA SilentStep ==
    ASSUME Types, NEW q \in Requests,
           UNCHANGED <<threads, messages, cache>>,
           \A p \in Requests : p # q => req'[p] = req[p],
           NEW key \in Keys, Covered(key),
           WillDrop(q, key) => WillDrop(q, key)'
    PROVE  Covered(key)'
<1>1. SUFFICES ASSUME Stale(key)' PROVE \E p \in Requests : WillDrop(p, key)'
    BY DEF Covered
<1>2. Stale(key)
    BY <1>1 DEF Stale, Stored, MessagesOf
<1>3. PICK p \in Requests : WillDrop(p, key)
    BY <1>2 DEF Covered
<1> QED BY <1>3, WillDropStays

\* A reader stores what is true when it stores it, or an entry that is known
\* not to be.
LEMMA FillCovers ==
    ASSUME Types, NEW q \in Requests, Fill(q), NEW key \in Keys, Covered(key)
    PROVE  Covered(key)'
<1>0. /\ req \in [Requests -> Request] /\ req[q] \in Request /\ req[q].pc = "fill"
      /\ WellFormed(req[q], lastId) /\ DOMAIN cache = Keys
      /\ UNCHANGED <<threads, messages>>
      /\ req' = [req EXCEPT ![q] = [req[q] EXCEPT !.pc = "done", !.ok = TRUE]]
    BY DEF Types, TypeOK, Fill, At, Succeed, tables
<1>1. CASE cache'[key] = cache[key]
    <2> SUFFICES ASSUME Stale(key)' PROVE \E p \in Requests : WillDrop(p, key)'
        BY DEF Covered
    <2>1. Stale(key)
        BY <1>0, <1>1 DEF Stale, Stored, MessagesOf
    <2>2. PICK p \in Requests : WillDrop(p, key)
        BY <2>1 DEF Covered
    <2>3. p # q
        BY <1>0, <2>2 DEF WillDrop
    <2> QED BY <1>0, <2>2, <2>3, WillDropStays
<1>2. CASE cache'[key] # cache[key]
    <2> DEFINE entry == [payload |-> loaded[q], current |-> loaded[q] = Stored(key)]
    <2>1. req[q].key = key /\ cache' = [cache EXCEPT ![key] = entry]
        BY <1>0, <1>2 DEF Fill
    <2>2. cache'[key].payload = loaded[q] /\ cache'[key].current = (loaded[q] = Stored(key))
        BY <1>0, <2>1
    <2>3. Stored(key)' = Stored(key)
        BY <1>0 DEF Stored, MessagesOf
    <2> QED BY <2>2, <2>3 DEF Covered, Stale
<1> QED BY <1>1, <1>2

\* An entry that is dropped is gone, or known not to be true.
LEMMA DropCovers ==
    ASSUME CacheTyped, NEW k \in Keys, Drop(k), NEW key \in Keys,
           UNCHANGED <<threads, messages>>
    PROVE  \/ Covered(key)' /\ key = k
           \/ cache'[key] = cache[key] /\ key # k
<1>1. CASE key = k
    <2>1. cache'[key] = Nil \/ cache'[key].current = FALSE
        BY <1>1 DEF Drop, CacheTyped, Entry
    <2> QED BY <1>1, <2>1 DEF Covered, Stale
<1>2. CASE key # k
    BY <1>2 DEF Drop, CacheTyped
<1> QED BY <1>1, <1>2

LEMMA InvalidateCovers ==
    ASSUME Types, NEW q \in Requests, Invalidate(q), NEW key \in Keys, Covered(key)
    PROVE  Covered(key)'
<1>0. /\ req \in [Requests -> Request] /\ req[q] \in Request /\ CacheTyped
      /\ req[q].pc \in {"clear_list", "drop_thread", "drop_messages"}
      /\ UNCHANGED <<threads, messages>>
    BY DEF Types, TypeOK, CacheTyped, Invalidate, At, tables
<1>1. req[q].id \in Ids
    BY <1>0, WriterId
<1>2. PICK k \in Keys, x \in {[req[q] EXCEPT !.pc = "drop_thread"],
                              [req[q] EXCEPT !.pc = "drop_messages"],
                              [req[q] EXCEPT !.pc = "done", !.ok = TRUE]} :
            /\ Drop(k) /\ req' = [req EXCEPT ![q] = x]
            /\ WillDrop(q, key) => k = key \/ (x.pc # "done" /\ WillDrop(q, key)')
    <2>1. CASE At(q, "clear_list") /\ Drop(<<"list", 0>>) /\ Goto(q, "drop_thread")
        <3>1. req' = [req EXCEPT ![q] = [req[q] EXCEPT !.pc = "drop_thread"]]
            BY <2>1 DEF Goto
        <3>2. req'[q].pc = "drop_thread" /\ req'[q].id = req[q].id
            BY <1>0, <3>1 DEF Request
        <3>3. WillDrop(q, key) => key = <<"list", 0>> \/ WillDrop(q, key)'
            BY <3>2, KeyKinds DEF WillDrop
        <3>4. [req[q] EXCEPT !.pc = "drop_thread"].pc = "drop_thread"
            BY <1>0 DEF Request
        <3>5. <<"list", 0>> \in Keys
            BY DEF Keys
        <3> QED BY <2>1, <3>1, <3>3, <3>4, <3>5
    <2>2. CASE At(q, "drop_thread") /\ Drop(<<"thread", req[q].id>>) /\ Goto(q, "drop_messages")
        <3>1. req' = [req EXCEPT ![q] = [req[q] EXCEPT !.pc = "drop_messages"]]
            BY <2>2 DEF Goto
        <3>2. req'[q].pc = "drop_messages" /\ req'[q].id = req[q].id
            BY <1>0, <3>1 DEF Request
        <3>3. WillDrop(q, key) => key = <<"thread", req[q].id>> \/ WillDrop(q, key)'
            BY <2>2, <3>2, KeyKinds DEF WillDrop, At
        <3>4. [req[q] EXCEPT !.pc = "drop_messages"].pc = "drop_messages"
            BY <1>0 DEF Request
        <3>5. <<"thread", req[q].id>> \in Keys
            BY <1>1 DEF Keys
        <3> QED BY <2>2, <3>1, <3>3, <3>4, <3>5
    <2>3. CASE At(q, "drop_messages") /\ Drop(<<"messages", req[q].id>>) /\ Succeed(q)
        <3>1. req' = [req EXCEPT ![q] = [req[q] EXCEPT !.pc = "done", !.ok = TRUE]]
            BY <2>3 DEF Succeed
        <3>2. WillDrop(q, key) => key = <<"messages", req[q].id>>
            BY <2>3, KeyKinds DEF WillDrop, At
        <3>3. <<"messages", req[q].id>> \in Keys
            BY <1>1 DEF Keys
        <3> QED BY <2>3, <3>1, <3>2, <3>3
    <2> QED BY <2>1, <2>2, <2>3 DEF Invalidate
<1>3. CASE cache'[key] = cache[key] /\ key # k
    <2> SUFFICES ASSUME Stale(key)' PROVE \E p \in Requests : WillDrop(p, key)'
        BY DEF Covered
    <2>1. Stale(key)
        BY <1>0, <1>3 DEF Stale, Stored, MessagesOf
    <2>2. PICK p \in Requests : WillDrop(p, key)
        BY <2>1 DEF Covered
    <2>3. CASE p = q
        BY <1>2, <1>3, <2>2, <2>3
    <2>4. CASE p # q
        BY <1>0, <1>2, <2>2, <2>4, WillDropStays
    <2> QED BY <2>3, <2>4
<1> QED BY <1>0, <1>2, <1>3, DropCovers

LEMMA CreateCovers ==
    ASSUME Types, Batches, NEW q \in Requests, CreateThread(q), req[q].op = "create",
           NEW key \in Keys, Covered(key)
    PROVE  Covered(key)'
<1>0. /\ req \in [Requests -> Request] /\ req[q] \in Request /\ req[q].pc = "start"
      /\ threads \in [Ids -> ThreadRow \cup {Nil}]
    BY DEF Types, TypeOK, CreateThread, At
<1>1. PICK i \in Ids :
        /\ threads' = [threads EXCEPT ![i] = [creator |-> q, updated |-> q]]
        /\ req' = [req EXCEPT ![q] =
                    [req[q] EXCEPT !.pc = "refresh", !.id = i, !.thread = q]]
        /\ UNCHANGED <<messages, cache>>
    BY DEF CreateThread
<1>2. req'[q].pc = "refresh" /\ req'[q].id = i /\ req'[q].op = "create"
    BY <1>0, <1>1 DEF Request
<1>3. threads'[i] # Nil /\ \A j \in Ids : j # i => threads'[j] = threads[j]
    BY <1>0, <1>1, NoRowAssumption DEF ThreadRow
<1>4. CASE key[1] = "list" \/ key[2] = i
    BY <1>2, <1>3, <1>4 DEF Covered, WillDrop, Exists
<1>5. CASE key[1] # "list" /\ key[2] # i
    <2> SUFFICES ASSUME Stale(key)' PROVE \E p \in Requests : WillDrop(p, key)'
        BY DEF Covered
    <2>1. Stale(key)
        BY <1>1, <1>3, <1>5, KeyKinds DEF Stale, Stored, MessagesOf
    <2>2. PICK p \in Requests : WillDrop(p, key)
        BY <2>1 DEF Covered
    <2>3. p # q /\ req[p].id \in Ids
        BY <1>0, <2>2, WriterId DEF WillDrop
    <2> QED BY <1>0, <1>1, <1>3, <2>2, <2>3, WillDropStays
<1> QED BY <1>4, <1>5

LEMMA SendCovers ==
    ASSUME Types, Batches, Unique, NEW q \in Requests, CommitMessages(q), FlushSucceeds(q),
           req[q].op = "append", NEW key \in Keys, Covered(key)
    PROVE  Covered(key)'
<1>0. /\ req \in [Requests -> Request] /\ req[q] \in Request /\ req[q].pc = "commit"
      /\ threads \in [Ids -> ThreadRow \cup {Nil}]
      /\ threads' = [threads EXCEPT ![req[q].id].updated = q] /\ UNCHANGED cache
    BY DEF Types, TypeOK, CommitMessages, At
<1>1. /\ messages' = messages \cup NewMessages(q) /\ NewMessages(q)' = NewMessages(q)
      /\ \A i \in Ids : Exists(i)' = Exists(i)
      /\ req'[q] = [req[q] EXCEPT !.pc = "refresh"]
      /\ \A p \in Requests \ {q} : req'[p] = req[p]
      /\ req[q].id \in Ids
    BY SendBatches
<1>2. req'[q].pc = "refresh" /\ req'[q].id = req[q].id /\ req'[q].op = "append"
    BY <1>0, <1>1 DEF Request
<1>3. CASE key[1] = "list" \/ key[2] = req[q].id
    BY <1>1, <1>2, <1>3 DEF Covered, WillDrop
<1>4. CASE key[1] # "list" /\ key[2] # req[q].id
    <2> SUFFICES ASSUME Stale(key)' PROVE \E p \in Requests : WillDrop(p, key)'
        BY DEF Covered
    <2>1. threads'[key[2]] = threads[key[2]]
        BY <1>0, <1>4, KeyKinds
    <2>2. MessagesOf(key[2])' = MessagesOf(key[2])
        BY <1>1, <1>4, BatchMembers DEF MessagesOf
    <2>3. Stored(key)' = Stored(key)
        BY <1>4, <2>1, <2>2, KeyKinds DEF Stored
    <2>4. Stale(key)
        BY <1>0, <2>3 DEF Stale
    <2>5. PICK p \in Requests : WillDrop(p, key)
        BY <2>4 DEF Covered
    <2>6. p # q /\ req[p].id \in Ids
        BY <1>0, <2>5, WriterId DEF WillDrop
    <2>7. threads[req[p].id] # Nil => threads'[req[p].id] # Nil
        BY <1>1, <2>6 DEF Exists
    <2> QED BY <1>1, <2>5, <2>6, <2>7, WillDropStays
<1> QED BY <1>3, <1>4

LEMMA DeleteCovers ==
    ASSUME Types, Batches, Unique, NEW q \in Requests, DeleteThread(q),
           NEW key \in Keys, Covered(key)
    PROVE  Covered(key)'
<1>0. /\ req \in [Requests -> Request] /\ req[q] \in Request /\ req[q].pc = "commit"
      /\ threads \in [Ids -> ThreadRow \cup {Nil}]
      /\ threads' = [threads EXCEPT ![req[q].id] = Nil] /\ UNCHANGED cache
      /\ req' = [req EXCEPT ![q] = [req[q] EXCEPT !.pc = "clear_list"]]
    BY DEF Types, TypeOK, DeleteThread, At, Goto
<1>1. messages' = {m \in messages : m.thread # req[q].id}
    BY DEF DeleteThread, MessagesOf
<1>2. req'[q].pc = "clear_list" /\ req'[q].id = req[q].id
    BY <1>0 DEF Request
<1>3. CASE key[1] = "list" \/ key[2] = req[q].id
    BY <1>2, <1>3 DEF Covered, WillDrop
<1>4. CASE key[1] # "list" /\ key[2] # req[q].id
    <2> SUFFICES ASSUME Stale(key)' PROVE \E p \in Requests : WillDrop(p, key)'
        BY DEF Covered
    <2>1. threads'[key[2]] = threads[key[2]]
        BY <1>0, <1>4, KeyKinds
    <2>2. MessagesOf(key[2])' = MessagesOf(key[2])
        BY <1>1, <1>4 DEF MessagesOf
    <2>3. Stored(key)' = Stored(key)
        BY <1>4, <2>1, <2>2, KeyKinds DEF Stored
    <2>4. Stale(key)
        BY <1>0, <2>3 DEF Stale
    <2>5. PICK p \in Requests : WillDrop(p, key)
        BY <2>4 DEF Covered
    <2>6. p # q /\ req[p].id = key[2]
        BY <1>0, <1>4, <2>5 DEF WillDrop
    <2>7. req'[p] = req[p] /\ NewMessages(p)' = NewMessages(p)
        BY <1>0, <2>6, SameBatch
    <2>8. NewMessages(p) \subseteq messages => NewMessages(p) \subseteq messages'
        BY <1>1, <1>4, <2>6, BatchMembers
    <2>9. Exists(req[p].id) => Exists(req[p].id)'
        BY <2>1, <2>6, <2>7 DEF Exists
    <2> QED BY <2>5, <2>7, <2>8, <2>9 DEF WillDrop
<1> QED BY <1>3, <1>4

LEMMA RefreshCovers ==
    ASSUME Types, NoImport, NEW q \in Requests, Refresh(q), NEW key \in Keys, Covered(key)
    PROVE  Covered(key)'
<1>0. /\ req \in [Requests -> Request] /\ req[q] \in Request /\ req[q].pc = "refresh"
      /\ UNCHANGED <<threads, messages, cache>>
    BY DEF Types, TypeOK, Refresh, At, tables
<1>1. ASSUME WillDrop(q, key) PROVE WillDrop(q, key)'
    <2>1. req' = [req EXCEPT ![q] = [req[q] EXCEPT !.pc = "clear_list"]]
        BY <1>0, <1>1 DEF WillDrop, Refresh, Goto, NoImport
    <2>2. req'[q].pc = "clear_list" /\ req'[q].id = req[q].id
        BY <1>0, <2>1 DEF Request
    <2> QED BY <1>1, <2>2 DEF WillDrop
<1>2. \A p \in Requests : p # q => req'[p] = req[p]
    BY <1>0 DEF Refresh, Goto, Fail
<1> QED BY <1>0, <1>1, <1>2, SilentStep

LEMMA DInvStep ==
    ASSUME "import" \notin Operations, GInv, OkIsLate, DInv, [Next]_vars
    PROVE  DInv'
<1>0. Types /\ Batches /\ Unique
    BY DEF GInv
<1>1. NoImport'
    BY <1>0, NoImportStep DEF DInv
<1>2. ASSUME NEW q \in Requests, Start(q) \/ Step(q), NEW key \in Keys PROVE Covered(key)'
    <2>1. Covered(key) /\ NoImport /\ req[q].op # "import"
        BY DEF DInv, NoImport
    <2>2. CASE Fill(q)
        BY <1>0, <2>1, <2>2, FillCovers
    <2>3. CASE Invalidate(q)
        BY <1>0, <2>1, <2>3, InvalidateCovers
    <2>4. CASE Refresh(q)
        BY <1>0, <2>1, <2>4, RefreshCovers
    <2>5. CASE CreateThread(q)
        BY <1>0, <2>1, <2>5, CreateCovers DEF CreateThread
    <2>6. CASE DeleteThread(q)
        BY <1>0, <2>1, <2>6, DeleteCovers
    <2>7. CASE CommitMessages(q) /\ FlushSucceeds(q)
        BY <1>0, <2>1, <2>7, SendCovers DEF CommitMessages
    <2>8. CASE \/ Start(q) \/ Lookup(q) \/ Load(q) \/ CreateImport(q) \/ ParseImport(q)
               \/ FindThread(q) \/ ReadMaxSeq(q) \/ (CommitMessages(q) /\ ~FlushSucceeds(q))
               \/ CompleteImport(q) \/ ReloadThread(q) \/ CommitRaises(q)
        <3>1. QuietStep(q)
            BY <2>8 DEF QuietStep
        <3>2. UNCHANGED <<threads, messages>>
            BY <2>8 DEF Start, Lookup, Load, CreateImport, ParseImport, FindThread,
               ReadMaxSeq, CommitMessages, CompleteImport, ReloadThread, CommitRaises, tables
        <3>3. UNCHANGED cache
            BY <2>8 DEF Start, Lookup, Load, CreateImport, ParseImport, FindThread,
               ReadMaxSeq, CommitMessages, CompleteImport, ReloadThread, CommitRaises
        <3>4. \A p \in Requests : p # q => req'[p] = req[p]
            BY <1>0, <3>1, QuietStepsAreQuiet DEF Quiet
        <3>5. req[q].pc \notin {"refresh", "clear_list", "drop_thread", "drop_messages"}
            BY <2>8 DEF Start, Lookup, Load, CreateImport, ParseImport, FindThread,
               ReadMaxSeq, CommitMessages, CompleteImport, ReloadThread, CommitRaises, At
        <3>6. ~WillDrop(q, key)
            BY <3>5 DEF WillDrop
        <3> QED BY <1>0, <2>1, <3>2, <3>3, <3>4, <3>6, SilentStep
    <2> QED BY <1>2, <2>2, <2>3, <2>4, <2>5, <2>6, <2>7, <2>8, StepKinds DEF Step, QuietStep
<1>3. ASSUME NEW k \in Keys, Expire(k), NEW key \in Keys PROVE Covered(key)'
    <2>1. Covered(key) /\ UNCHANGED <<threads, messages, req>> /\ CacheTyped
        BY <1>0, <1>3 DEF DInv, Expire, tables, Types, TypeOK, CacheTyped
    <2>2. CASE key = k
        BY <1>3, <2>1, <2>2 DEF Expire, CacheTyped, Covered, Stale
    <2>3. CASE key # k
        <3>1. cache'[key] = cache[key]
            BY <1>3, <2>1, <2>3 DEF Expire, CacheTyped
        <3>2. Stored(key)' = Stored(key)
            BY <2>1 DEF Stored, MessagesOf
        <3>3. \A p \in Requests : WillDrop(p, key) => WillDrop(p, key)'
            BY <1>0, <2>1, WillDropStays
        <3> QED BY <2>1, <3>1, <3>2, <3>3 DEF Covered, Stale
    <2> QED BY <2>2, <2>3
<1>4. ASSUME UNCHANGED vars, NEW key \in Keys PROVE Covered(key)'
    <2>1. Covered(key) /\ UNCHANGED <<threads, messages, req, cache>>
        BY <1>4 DEF DInv, vars, tables
    <2>2. Stored(key)' = Stored(key)
        BY <2>1 DEF Stored, MessagesOf
    <2>3. \A p \in Requests : WillDrop(p, key) => WillDrop(p, key)'
        BY <1>0, <2>1, WillDropStays
    <2> QED BY <2>1, <2>2, <2>3 DEF Covered, Stale
<1>5. \A key \in Keys : Covered(key)'
    BY <1>2, <1>3, <1>4 DEF Next
<1> QED BY <1>1, <1>5 DEF DInv

\* The answer of a request is its last step.
LEMMA OkIsLateStep ==
    ASSUME GInv, OkIsLate, [Next]_vars
    PROVE  OkIsLate'
<1>0. Types /\ req \in [Requests -> Request] /\ \A q \in Requests : req[q] \in Request
    BY DEF GInv, Types, TypeOK
<1>1. ASSUME NEW q \in Requests, Start(q) \/ Step(q), NEW p \in Requests, p # q
      PROVE  req'[p].ok => req'[p].pc = "done"
    BY <1>1, OthersStay DEF OkIsLate
<1>2. ASSUME NEW q \in Requests, Start(q) \/ Step(q)
      PROVE  req'[q].ok => req'[q].pc = "done"
    <2>1. CASE Start(q)
        BY <2>1, StartOwn DEF Own
    <2>2. CASE Step(q) /\ Onward(q)
        BY <2>2 DEF Onward
    <2>3. CASE CreateThread(q) \/ FindThread(q)
        <3>1. ~req[q].ok
            BY <2>3 DEF OkIsLate, CreateThread, FindThread, At
        <3>2. CASE CreateThread(q)
            <4>1. PICK pc, i : req' = [req EXCEPT ![q] =
                                    [req[q] EXCEPT !.pc = pc, !.id = i, !.thread = q]]
                BY <3>2 DEF CreateThread
            <4> DEFINE x == [req[q] EXCEPT !.pc = pc, !.id = i, !.thread = q]
            <4>2. x.ok = req[q].ok
                BY <1>0 DEF Request
            <4>3. req'[q] = x
                BY <1>0, <4>1
            <4> QED BY <3>1, <4>2, <4>3
        <3>3. CASE FindThread(q)
            BY <1>0, <3>1, <3>3, FindKeeps
        <3> QED BY <2>3, <3>2, <3>3
    <2> QED BY <1>0, <1>2, <2>1, <2>2, <2>3, RequestsGoOnward
<1>3. CASE UNCHANGED vars \/ \E key \in Keys : Expire(key)
    BY <1>3 DEF vars, Expire, OkIsLate
<1> QED BY <1>1, <1>2, <1>3 DEF Next, OkIsLate

\* No create, append or deletion that has changed a thread forgets to drop what
\* the cache says of it: an entry that was true when it was stored and is no
\* longer has a writer on the way to it, even where ids are used again, other
\* writers delete the thread meanwhile and drops are lost.  An import may end
\* between the creation of its thread and its first drop, hence the hypothesis.
THEOREM TrueEntries ==
    ASSUME "import" \notin Operations
    PROVE  Spec => []TrueEntriesAreDropped
<1>1. Init => GInv /\ OkIsLate /\ DInv
    <2> SUFFICES ASSUME Init PROVE OkIsLate /\ DInv
        BY InitGInv
    <2>1. \A key \in Keys : Covered(key)
        BY DEF Init, Covered, Stale
    <2> QED BY <2>1 DEF Init, OkIsLate, DInv, NoImport, Blank
<1>2. GInv /\ OkIsLate /\ DInv /\ [Next]_vars => (GInv /\ OkIsLate /\ DInv)'
    BY GInvStep, OkIsLateStep, DInvStep
<1>3. GInv /\ DInv => TrueEntriesAreDropped
    BY DEF DInv, Covered, Stale, WillDrop, TrueEntriesAreDropped, Invalidating
<1> QED BY <1>1, <1>2, <1>3, PTL DEF Spec

-----------------------------------------------------------------------------
(* The log of a set of messages.                                           *)

LogOfSet(M) ==
    [k \in 1 .. Cardinality(M) |-> (CHOOSE m \in M : m.seq = k).by]

LEMMA LogIsOfSet ==
    ASSUME NEW i
    PROVE  LogOf(i) = IF Exists(i) THEN LogOfSet(MessagesOf(i)) ELSE Nil
BY DEF LogOf, LogOfSet

\* The messages M are numbered 1, 2, ..., n, each number once.
Numbered(M, n) ==
    /\ M \subseteq MessageRow
    /\ \A m \in M, o \in M : m.seq = o.seq => m = o
    /\ \A k \in 1..n : \E m \in M : m.seq = k
    /\ \A m \in M : m.seq \in 1..n

\* The log of n numbered messages has their authors in the order of the numbers.
LEMMA LogShape ==
    ASSUME NEW M, NEW n \in Nat, Numbered(M, n)
    PROVE  /\ LogOfSet(M) \in [1..n -> Requests]
           /\ \A m \in M : LogOfSet(M)[m.seq] = m.by
<1>1. Cardinality(M) = n
    <2> DEFINE f == [k \in 1..n |-> CHOOSE m \in M : m.seq = k]
    <2>1. \A k \in 1..n : f[k] \in M /\ f[k].seq = k
        BY DEF Numbered
    <2>2. f \in [1..n -> M]
        BY <2>1
    <2>3. \A k, l \in 1..n : f[k] = f[l] => k = l
        BY <2>1
    <2>4. \A m \in M : \E k \in 1..n : f[k] = m
        BY <2>1 DEF Numbered
    <2> HIDE DEF f
    <2>5. f \in Bijection(1..n, M)
        BY <2>2, <2>3, <2>4 DEF Bijection, Injection, Surjection, IsInjective
    <2>6. ExistsBijection(1..n, M)
        BY <2>5 DEF ExistsBijection
    <2>7. IsFiniteSet(1..n) /\ Cardinality(1..n) = n
        BY FS_Interval
    <2> QED BY <2>6, <2>7, FS_Bijection
<1>2. \A k \in 1..n : \A m \in M : m.seq = k => (CHOOSE o \in M : o.seq = k) = m
    BY DEF Numbered
<1>3. \A m \in M : m.by \in Requests
    BY DEF Numbered, MessageRow
<1>4. \A k \in 1..n : (CHOOSE o \in M : o.seq = k).by \in Requests
    BY <1>2, <1>3 DEF Numbered
<1>5. LogOfSet(M) \in [1..n -> Requests]
    BY <1>1, <1>4 DEF LogOfSet
<1>6. \A m \in M : LogOfSet(M)[m.seq] = m.by
    BY <1>1, <1>2 DEF LogOfSet, Numbered
<1> QED BY <1>5, <1>6

LEMMA EmptyLog == LogOfSet({}) = <<>>
<1>1. Numbered({}, 0)
    BY DEF Numbered
<1>2. LogOfSet({}) \in [1..0 -> Requests]
    BY <1>1, LogShape
<1> QED BY <1>2

BatchAt(i, q, n, s) == {[thread |-> i, seq |-> k, by |-> q] : k \in n + 1 .. n + s}

\* A batch that takes the next numbers extends the log.
LEMMA LogExtends ==
    ASSUME NEW M, NEW n \in Nat, Numbered(M, n), NEW q \in Requests, NEW s \in Nat,
           NEW i \in Ids
    PROVE  LogOfSet(M \cup BatchAt(i, q, n, s)) = LogOfSet(M) \o Log!Batch(q, s)
<1> DEFINE B == {[thread |-> i, seq |-> k, by |-> q] : k \in n + 1 .. n + s}
<1>1. \A m \in B : m \in MessageRow /\ m.seq \in n + 1 .. n + s /\ m.by = q
    BY DEF MessageRow
<1>2. ASSUME NEW k \in n + 1 .. n + s PROVE \E m \in B : m.seq = k
    <2>1. [thread |-> i, seq |-> k, by |-> q] \in B
        OBVIOUS
    <2> QED BY <2>1
<1>3. Numbered(M \cup B, n + s)
    <2>1. \A m \in B, o \in B : m.seq = o.seq => m = o
        OBVIOUS
    <2>2. \A m \in M, o \in B : m.seq # o.seq
        BY <1>1 DEF Numbered
    <2>3. \A k \in 1 .. n + s : \E m \in M \cup B : m.seq = k
        BY <1>2 DEF Numbered
    <2>4. \A m \in M \cup B : m.seq \in 1 .. n + s
        BY <1>1 DEF Numbered
    <2> QED BY <1>1, <2>1, <2>2, <2>3, <2>4 DEF Numbered
<1> DEFINE L == LogOfSet(M)
           L2 == LogOfSet(M \cup B)
           b == Log!Batch(q, s)
<1>4. L \in [1..n -> Requests] /\ \A m \in M : L[m.seq] = m.by
    BY LogShape
<1>5. L2 \in [1 .. n + s -> Requests] /\ \A m \in M \cup B : L2[m.seq] = m.by
    <2>1. n + s \in Nat
        OBVIOUS
    <2> HIDE DEF L2
    <2>2. LogOfSet(M \cup B) \in [1 .. n + s -> Requests]
          /\ \A m \in M \cup B : LogOfSet(M \cup B)[m.seq] = m.by
        BY <1>3, <2>1, LogShape
    <2> QED BY <2>2 DEF L2
<1>6. L \in Seq(Requests) /\ Len(L) = n
    <2> HIDE DEF L
    <2> QED BY <1>4
<1>7. b \in [1..s -> Requests] /\ \A k \in 1..s : b[k] = q
    BY DEF Log!Batch
<1>8. b \in Seq(Requests) /\ Len(b) = s
    <2> HIDE DEF b
    <2> QED BY <1>7
<1>9. L2 \in Seq(Requests) /\ Len(L2) = n + s
    <2> HIDE DEF L2
    <2> QED BY <1>5
<1>10. /\ L \o b \in Seq(Requests) /\ Len(L \o b) = n + s
       /\ \A k \in 1 .. n + s : (L \o b)[k] = IF k <= n THEN L[k] ELSE b[k - n]
    <2> HIDE DEF L, b
    <2> QED BY <1>6, <1>8, ConcatProperties
<1>11. ASSUME NEW k \in 1 .. n + s PROVE L2[k] = (L \o b)[k]
    <2> HIDE DEF L, b, L2
    <2>1. CASE k <= n
        <3>1. PICK m \in M : m.seq = k
            BY <2>1 DEF Numbered
        <3> QED BY <1>4, <1>5, <1>10, <2>1, <3>1
    <2>2. CASE k > n
        <3>1. PICK m \in B : m.seq = k
            BY <1>2, <2>2
        <3>2. m.by = q /\ k - n \in 1..s
            BY <1>1, <2>2
        <3>3. L2[k] = q
            BY <1>5, <3>1, <3>2
        <3>4. (L \o b)[k] = b[k - n]
            BY <1>10, <2>2
        <3> QED BY <1>7, <3>2, <3>3, <3>4
    <2>3. k <= n \/ k > n
        OBVIOUS
    <2> QED BY <2>1, <2>2, <2>3
<1> HIDE DEF L, b, L2
<1>12. L2 = L \o b
    BY <1>9, <1>10, <1>11, SeqEqual
<1> QED BY <1>12 DEF L, L2, b, BatchAt

-----------------------------------------------------------------------------
(* The steps.                                                              *)

Logs == [i \in Ids |-> LogOf(i)]

LEMMA OneLogChanges ==
    ASSUME NEW i \in Ids, NEW l, LogOf(i)' = l,
           \A j \in Ids \ {i} : LogOf(j)' = LogOf(j)
    PROVE  Logs' = [Logs EXCEPT ![i] = l]
BY DEF Logs

LEMMA LogStays ==
    ASSUME NEW i, threads'[i] # Nil <=> threads[i] # Nil,
           {m \in messages' : m.thread = i} = {m \in messages : m.thread = i}
    PROVE  LogOf(i)' = LogOf(i)
<1>1. Exists(i)' = Exists(i) /\ MessagesOf(i)' = MessagesOf(i)
    BY DEF Exists, MessagesOf
<1> QED BY <1>1, LogIsOfSet DEF LogOf

LEMMA LogsStay ==
    ASSUME \A i \in Ids : LogOf(i)' = LogOf(i)
    PROVE  UNCHANGED Logs
BY DEF Logs

\* What a request commits takes the numbers after those of its thread.
LEMMA SendNumbers ==
    ASSUME GInv, LInv, NEW q \in Requests, CommitMessages(q), FlushSucceeds(q),
           req[q].size # 0, NEW i, i = req[q].id
    PROVE  /\ i \in Ids /\ req[q].next - 1 \in Nat
           /\ Numbered(MessagesOf(i), req[q].next - 1)
<1>0. Types /\ Batches /\ Unique
    BY DEF GInv
<1>1. /\ i \in Ids /\ Exists(i) /\ messages' = messages \cup NewMessages(q)
      /\ req[q].pc = "commit" /\ req[q].op \in {"append", "import"}
    BY <1>0, SendBatches DEF CommitMessages, At
<1>2. req[q].next \in Nat \ {0} /\ req[q].size \in Nat
    BY <1>0, <1>1, Numbers DEF Types, WellFormed
<1>3. FilledUpTo(i, req[q].next)
    BY <1>1 DEF LInv, Filled
<1>4. MessagesOf(i) \subseteq MessageRow
    BY <1>0 DEF Types, TypeOK, MessagesOf
<1>5. ASSUME NEW m \in MessagesOf(i) PROVE m.seq < req[q].next
    <2> DEFINE first == [thread |-> i, seq |-> req[q].next, by |-> q]
    <2>1. first \in NewMessages(q) /\ first.seq = req[q].next /\ first.thread = i
        BY <1>2 DEF NewMessages
    <2>2. \A x \in MessagesOf(i) : x.seq # first.seq
        BY <2>1 DEF FlushSucceeds
    <2>3. first \in MessagesOf(i)' \ MessagesOf(i)
        BY <1>1, <2>1, <2>2 DEF MessagesOf
    <2>4. Grows(i)
        BY <1>1, SendGrows
    <2>5. Exists(i)'
        BY <1>0, <1>1, SendBatches
    <2> QED BY <2>1, <2>3, <2>4, <2>5 DEF Grows
<1>6. \A m \in MessagesOf(i) : m.seq \in 1 .. req[q].next - 1
    BY <1>2, <1>4, <1>5 DEF MessageRow
<1>7. \A k \in 1 .. req[q].next - 1 : \E m \in MessagesOf(i) : m.seq = k
    BY <1>2, <1>3 DEF FilledUpTo
<1>8. \A m \in MessagesOf(i), o \in MessagesOf(i) : m.seq = o.seq => m = o
    BY <1>0 DEF Unique, MessagesOf
<1> QED BY <1>1, <1>2, <1>4, <1>6, <1>7, <1>8 DEF Numbered

LEMMA SendExtends ==
    ASSUME GInv, LInv, NEW q \in Requests, CommitMessages(q), FlushSucceeds(q)
    PROVE  [Log!Next]_Logs
<1>0. /\ Types /\ Batches /\ Unique /\ threads \in [Ids -> ThreadRow \cup {Nil}]
      /\ messages \subseteq MessageRow
    BY DEF GInv, Types, TypeOK
<1> DEFINE i == req[q].id
           B == NewMessages(q)
<1>1. /\ messages' = messages \cup B /\ i \in Ids /\ Exists(i) /\ ~Sent(q)
      /\ \A j \in Ids : Exists(j)' = Exists(j)
    BY <1>0, SendBatches
<1>2. \A m \in B : m.thread = i
    BY BatchMembers
<1>3. req[q].size \in Nat /\ req[q] \in Request
    BY <1>0, Numbers DEF Types, TypeOK
<1>4. CASE req[q].size = 0
    <2>1. B = {}
        BY <1>0, <1>4, Numbers DEF NewMessages
    <2>2. \A j \in Ids : LogOf(j)' = LogOf(j)
        BY <1>1, <2>1, LogStays DEF Exists
    <2> QED BY <2>2, LogsStay
<1>5. CASE req[q].size # 0
    <2> DEFINE n == req[q].next - 1
               s == req[q].size
               M == MessagesOf(i)
    <2>1. n \in Nat /\ Numbered(M, n)
        BY <1>5, SendNumbers
    <2>2. s \in BatchSizes
        BY <1>3, <1>5 DEF Request
    <2>3. B = BatchAt(i, q, n, s)
        BY <1>0, <2>1, Numbers DEF NewMessages, BatchAt
    <2>4. {m \in messages' : m.thread = i} = M \cup B
        BY <1>1, <1>2 DEF MessagesOf
    <2>5. \A j \in Ids \ {i} : LogOf(j)' = LogOf(j)
        <3> SUFFICES ASSUME NEW j \in Ids \ {i} PROVE LogOf(j)' = LogOf(j)
            OBVIOUS
        <3>1. {m \in messages' : m.thread = j} = {m \in messages : m.thread = j}
            BY <1>1, <1>2
        <3> QED BY <1>1, <3>1, LogStays DEF Exists
    <2>6. LogOf(i) = LogOfSet(M)
        BY <1>1, LogIsOfSet
    <2>7. LogOfSet(M \cup B) = LogOfSet(M) \o Log!Batch(q, s)
        <3> HIDE DEF B, M, i, n, s
        <3>1. i \in Ids /\ s \in Nat
            BY <1>1, <1>3 DEF s, i
        <3> QED BY <2>1, <2>3, <3>1, LogExtends
    <2>8. ASSUME NEW j, j = i PROVE LogOf(j)' = LogOfSet(M) \o Log!Batch(q, s)
        <3>1. Exists(j)' /\ MessagesOf(j)' = M \cup B
            BY <1>1, <2>4, <2>8 DEF MessagesOf
        <3>2. LogOf(j)' = LogOfSet(MessagesOf(j)')
            BY <3>1 DEF LogOf, LogOfSet
        <3> QED BY <2>7, <3>1, <3>2
    <2>9. \A k \in DOMAIN LogOf(i) : LogOf(i)[k] # q
        <3> HIDE DEF M, n
        <3>1. LogOfSet(M) \in [1..n -> Requests] /\ \A m \in M : LogOfSet(M)[m.seq] = m.by
            BY <2>1, LogShape
        <3>2. \A k \in 1..n : \E m \in M : m.seq = k
            BY <2>1 DEF Numbered
        <3>3. \A m \in M : m.by # q
            BY <1>1 DEF M, Sent, MessagesOf
        <3> QED BY <2>6, <3>1, <3>2, <3>3
    <2>10. ASSUME NEW j \in Ids, j = i PROVE Log!Extend(j, q, s)
        <3>1. Logs[j] = LogOf(i) /\ LogOf(i) # Nil
            <4>1. Logs[j] = LogOf(i)
                BY <2>10 DEF Logs
            <4>2. LogOf(i) \in Seq(Requests)
                <5> HIDE DEF M, n
                <5>1. LogOfSet(M) \in [1..n -> Requests]
                    BY <2>1, LogShape
                <5> QED BY <2>1, <2>6, <5>1
            <4> QED BY <4>1, <4>2, NoLogAssumption
        <3>2. Logs' = [Logs EXCEPT ![j] = LogOfSet(M) \o Log!Batch(q, s)]
            BY <2>5, <2>8, <2>10, OneLogChanges
        <3>3. Logs' = [Logs EXCEPT ![j] = @ \o Log!Batch(q, s)]
            BY <2>6, <3>1, <3>2
        <3> HIDE DEF s
        <3> QED BY <2>9, <3>1, <3>3 DEF Log!Extend, Logs
    <2> QED BY <1>1, <2>2, <2>10 DEF Log!Next
<1> QED BY <1>3, <1>4, <1>5

LEMMA CreateCreates ==
    ASSUME ReuseIds = FALSE, GInv, LInv, NEW q \in Requests, CreateThread(q)
    PROVE  [Log!Next]_Logs
<1>0. /\ threads \in [Ids -> ThreadRow \cup {Nil}] /\ messages \subseteq MessageRow
      /\ lastId \in Nat
    BY ConversationAssumption DEF GInv, Types, TypeOK, Ids
<1>1. PICK i : i = lastId + 1
    OBVIOUS
<1>2. /\ i \in Ids /\ threads' = [threads EXCEPT ![i] = [creator |-> q, updated |-> q]]
      /\ messages' = messages
    BY <1>1 DEF CreateThread, NewId
<1>3. ~Exists(i)
    <2>1. Exists(i) => i <= lastId
        BY <1>2 DEF LInv, GivenOut
    <2> QED BY <1>0, <1>1, <2>1
<1>4. {m \in messages' : m.thread = i} = {}
    BY <1>2, <1>3 DEF GInv, Batches
<1>5. threads'[i] # Nil
    BY <1>0, <1>2, NoRowAssumption DEF ThreadRow
<1>6. LogOf(i)' = <<>>
    <2>1. Exists(i)' /\ MessagesOf(i)' = {}
        BY <1>4, <1>5 DEF Exists, MessagesOf
    <2>2. LogOf(i)' = LogOfSet(MessagesOf(i)')
        BY <2>1 DEF LogOf, LogOfSet
    <2> QED BY <2>1, <2>2, EmptyLog
<1>7. \A j \in Ids \ {i} : LogOf(j)' = LogOf(j)
    <2> SUFFICES ASSUME NEW j \in Ids \ {i} PROVE LogOf(j)' = LogOf(j)
        OBVIOUS
    <2>1. threads'[j] = threads[j]
        BY <1>0, <1>2
    <2> QED BY <1>2, <2>1, LogStays
<1>8. Logs' = [Logs EXCEPT ![i] = <<>>]
    BY <1>2, <1>6, <1>7, OneLogChanges
<1>9. Logs[i] = Nil
    BY <1>2, <1>3, LogIsOfSet DEF Logs
<1>10. Log!Create(i)
    BY <1>8, <1>9 DEF Log!Create, Logs
<1> QED BY <1>2, <1>10 DEF Log!Next

LEMMA DeleteDeletes ==
    ASSUME GInv, LInv, NEW q \in Requests, DeleteThread(q)
    PROVE  [Log!Next]_Logs
<1>0. /\ Types /\ Batches /\ Unique
      /\ threads \in [Ids -> ThreadRow \cup {Nil}] /\ messages \subseteq MessageRow
    BY DEF GInv, Types, TypeOK
<1>1. PICK i : i = req[q].id
    OBVIOUS
<1>2. i \in Ids /\ messages' = {m \in messages : m.thread # i}
    BY <1>0, <1>1, DeleteBatches
<1>3. threads' = [threads EXCEPT ![i] = Nil]
    BY <1>1 DEF DeleteThread
<1>4. \A j \in Ids \ {i} : LogOf(j)' = LogOf(j)
    <2> SUFFICES ASSUME NEW j \in Ids \ {i} PROVE LogOf(j)' = LogOf(j)
        OBVIOUS
    <2>1. threads'[j] = threads[j]
        BY <1>0, <1>3
    <2>2. {m \in messages' : m.thread = j} = {m \in messages : m.thread = j}
        BY <1>2
    <2> QED BY <2>1, <2>2, LogStays
<1>5. LogOf(i)' = Nil
    BY <1>0, <1>2, <1>3 DEF LogOf, Exists
<1>6. Logs' = [Logs EXCEPT ![i] = Nil]
    BY <1>2, <1>4, <1>5, OneLogChanges
<1>7. CASE Logs[i] # Nil
    <2>1. Log!Delete(i)
        BY <1>6, <1>7 DEF Log!Delete, Logs
    <2> QED BY <1>2, <2>1 DEF Log!Next
<1>8. CASE Logs[i] = Nil
    BY <1>2, <1>6, <1>8 DEF Logs
<1> QED BY <1>7, <1>8

LEMMA LogStep == ASSUME ReuseIds = FALSE, GInv, LInv, [Next]_vars PROVE [Log!Next]_Logs
<1>0. Types
    BY DEF GInv
<1>1. ASSUME UNCHANGED <<threads, messages>> PROVE [Log!Next]_Logs
    BY <1>1, LogStays, LogsStay
<1>2. ASSUME NEW q \in Requests, Start(q) \/ Step(q) PROVE [Log!Next]_Logs
    <2>1. CASE QuietStep(q)
        <3>1. CreateThread(q) \/ UNCHANGED <<threads, messages>>
            BY <1>0, <2>1, QuietTables
        <3> QED BY <1>1, <3>1, CreateCreates
    <2> QED BY <1>2, <2>1, SendExtends, DeleteDeletes, StepKinds
<1>3. CASE UNCHANGED vars \/ \E key \in Keys : Expire(key)
    BY <1>1, <1>3 DEF vars, tables, Expire
<1> QED BY <1>2, <1>3 DEF Next

LEMMA LogInit == Init => Log!Init
<1> SUFFICES ASSUME Init PROVE Log!Init
    OBVIOUS
<1>1. ASSUME NEW i \in Ids PROVE LogOf(i) = Nil
    BY DEF Init, LogOf, Exists
<1> QED BY <1>1 DEF Log!Init

\* On a database that never gives an id twice, every thread is a log: whatever
\* its requests do at the same time, it grows only at its end, by one whole
\* batch of one request at a time, each request at most once, and it goes as a
\* whole.  Every other step leaves all the logs as they are.
THEOREM ThreadsImplementLogs == ASSUME ReuseIds = FALSE PROVE Spec => ThreadsAreLogs
<1>1. GInv /\ LInv /\ [Next]_vars => [Log!Next]_Logs
    BY LogStep
<1>2. Logs = [i \in Ids |-> LogOf(i)] /\ Logs' = [i \in Ids |-> LogOf(i)]'
    BY DEF Logs
<1>3. GInv /\ LInv /\ [Next]_vars => [Log!Next]_([i \in Ids |-> LogOf(i)])
    BY <1>1, <1>2
<1> QED BY <1>3, LogInit, LInvHolds, PTL DEF Spec, ThreadsAreLogs, Log!Spec
=============================================================================
