--------------------------- MODULE Conversations ---------------------------
(***************************************************************************)
(* Conversation threads: the requests of routes/conversations.py, the      *)
(* database work of crud/conversation.py they do, and the runtime cache    *)
(* (runtime_cache/backends.py) in front of the reads.                      *)
(*                                                                         *)
(* The routes are plain functions that run in a pool of threads, so two    *)
(* requests interleave at every statement sent to the database and every   *)
(* operation on the cache: one action is one of those.  A session is not   *)
(* isolated from others between its statements (READ COMMITTED, or SQLite  *)
(* outside of a write), and what it adds is sent by the flush of           *)
(* db.commit(), all or nothing.                                            *)
(*                                                                         *)
(* A request is used for one operation: the number of requests bounds the  *)
(* messages and threads there can be.                                      *)
(***************************************************************************)
EXTENDS Naturals, Sequences, FiniteSets

CONSTANTS
    Requests,       \* HTTP requests
    MaxId,          \* thread ids are 1..MaxId
    BatchSizes,     \* the numbers of non-blank messages a request brings
    Operations,     \* the operations that are requested
    ReuseIds,       \* TRUE for SQLite, which gives the largest id anew after
                    \* its row is deleted; FALSE for a PostgreSQL sequence
    LossyCache,     \* TRUE for redis and garnet, whose failures are swallowed
    CommitMayFail,  \* TRUE if a commit can raise (a lock timeout, say)
    Nil

AllOperations == {"create", "append", "import", "delete", "read"}

Ids == 1..MaxId

ASSUME ConversationAssumption ==
    /\ MaxId \in Nat
    /\ BatchSizes \subseteq Nat
    /\ Operations \subseteq AllOperations
    /\ {ReuseIds, LossyCache, CommitMayFail} \subseteq BOOLEAN
    /\ Nil \notin Requests

\* Cache keys: conversations:list:*, conversations:thread:<id> and
\* conversations:messages:<id>.
Keys == {<<"list", 0>>} \cup ({"thread", "messages"} \X Ids)

VARIABLES
    threads,    \* table conversation_threads: Ids -> row or Nil
    lastId,     \* the largest thread id given so far
    messages,   \* table conversation_messages: a set of rows
    imports,    \* table conversation_imports: Requests -> row or Nil
    cache,      \* the runtime cache: Keys -> entry or Nil
    req,        \* Requests -> how far each one is
    loaded      \* Requests -> what a read got from the database, or Nil

tables == <<threads, lastId, messages, imports>>
vars == <<tables, cache, req, loaded>>

-----------------------------------------------------------------------------
(* Types.  The request that wrote a row stands for the data in it: a       *)
(* thread's creator for its title and project, its last writer for its     *)
(* updated_at, a message's author for its content.                         *)

ThreadRow == [creator : Requests, updated : Requests]
MessageRow == [thread : Ids, seq : Nat \ {0}, by : Requests]
ImportRow == [thread : Ids, status : {"pending", "completed", "failed"}]

ASSUME NoRowAssumption == Nil \notin ThreadRow \cup ImportRow

Payload(key) ==
    CASE key[1] = "list" -> [Ids -> ThreadRow \cup {Nil}]
      [] key[1] = "thread" -> ThreadRow \cup {Nil}
      [] key[1] = "messages" -> SUBSET MessageRow

\* What a reader stores.  It is current if the database still said so at that
\* time and no attempt to drop the entry has failed since.
Entry(key) == [payload : Payload(key), current : BOOLEAN]

Request ==
    [op : AllOperations \cup {"none"},
     pc : {"new", "lookup", "load", "fill", "start", "max", "commit",
           "refresh", "record", "recorded", "complete", "reload",
           "clear_list", "drop_thread", "drop_messages", "done"},
     id : Ids \cup {0},            \* the thread it works on
     thread : Requests \cup {Nil}, \* the creator of the thread it looked up
     key : Keys \cup {Nil},        \* the cache key of a read
     size : BatchSizes \cup {0},   \* how many messages it brings
     next : Nat,                   \* next_seq of append_messages
     error : BOOLEAN,              \* error_message of an import
     ok : BOOLEAN]                 \* the answer was not an error

TypeOK ==
    /\ threads \in [Ids -> ThreadRow \cup {Nil}]
    /\ lastId \in Ids \cup {0}
    /\ messages \subseteq MessageRow
    /\ imports \in [Requests -> ImportRow \cup {Nil}]
    /\ DOMAIN cache = Keys
    /\ \A key \in Keys : cache[key] = Nil \/ cache[key] \in Entry(key)
    /\ req \in [Requests -> Request]
    /\ DOMAIN loaded = Requests
    /\ \A q \in Requests : loaded[q] = Nil \/ loaded[q] \in Payload(req[q].key)

-----------------------------------------------------------------------------
(* Reading the tables.                                                     *)

Exists(i) == threads[i] # Nil

MessagesOf(i) == {m \in messages : m.thread = i}

\* next_seq of append_messages: one more than the first row by seq_no DESC.
NextSeq(i) ==
    IF MessagesOf(i) = {} THEN 1
    ELSE LET last == CHOOSE m \in MessagesOf(i) : \A n \in MessagesOf(i) : n.seq <= m.seq
         IN  last.seq + 1

\* The primary key the database gives to the next thread.
NewId ==
    IF ReuseIds
    THEN 1 + CHOOSE i \in Ids \cup {0} :
                /\ i = 0 \/ Exists(i)
                /\ \A j \in Ids : Exists(j) => j <= i
    ELSE lastId + 1

\* What the database answers to the query behind a cache key.
Stored(key) ==
    CASE key[1] = "list" -> threads
      [] key[1] = "thread" -> threads[key[2]]
      [] key[1] = "messages" -> MessagesOf(key[2])

-----------------------------------------------------------------------------
(* Requests.                                                               *)

Blank == [op |-> "none", pc |-> "new", id |-> 0, thread |-> Nil, key |-> Nil,
          size |-> 0, next |-> 0, error |-> FALSE, ok |-> FALSE]

At(q, pc) == req[q].pc = pc
Goto(q, pc) == req' = [req EXCEPT ![q].pc = pc]
Fail(q) == Goto(q, "done")
Succeed(q) == req' = [req EXCEPT ![q].pc = "done", ![q].ok = TRUE]

\* A request arrives.  A create or an import goes on to make its thread;
\* the others name one that has been given out.
Start(q) ==
    /\ At(q, "new")
    /\ \/ \E op \in Operations \ {"read"} :
            \E i \in IF op \in {"create", "import"} THEN {0} ELSE 1..lastId,
               size \in IF op \in {"append", "import"} THEN BatchSizes ELSE {0} :
                req' = [req EXCEPT ![q] =
                            [Blank EXCEPT !.op = op, !.pc = "start", !.id = i, !.size = size]]
       \/ /\ "read" \in Operations
          /\ \E key \in Keys :
               /\ key[2] <= lastId
               /\ key[1] = "messages" => Exists(key[2])
               /\ req' = [req EXCEPT ![q] =
                            [Blank EXCEPT !.op = "read", !.pc = "lookup", !.key = key]]
    /\ UNCHANGED <<tables, cache, loaded>>

-----------------------------------------------------------------------------
(* Reads: list_threads, get_thread, list_messages.                         *)

Lookup(q) ==
    /\ At(q, "lookup")
    /\ \/ cache[req[q].key] # Nil /\ Succeed(q)
       \/ (cache[req[q].key] = Nil \/ LossyCache) /\ Goto(q, "load")
    /\ UNCHANGED <<tables, cache, loaded>>

Load(q) ==
    /\ At(q, "load")
    /\ LET key == req[q].key
       IN  IF key[1] = "thread" /\ ~Exists(key[2])
           THEN Fail(q) /\ UNCHANGED loaded
           ELSE Goto(q, "fill") /\ loaded' = [loaded EXCEPT ![q] = Stored(key)]
    /\ UNCHANGED <<tables, cache>>

Fill(q) ==
    /\ At(q, "fill")
    /\ LET key == req[q].key
           entry == [payload |-> loaded[q], current |-> loaded[q] = Stored(key)]
       IN  \/ cache' = [cache EXCEPT ![key] = entry]
           \/ LossyCache /\ UNCHANGED cache
    /\ Succeed(q)
    /\ loaded' = [loaded EXCEPT ![q] = Nil]
    /\ UNCHANGED tables

\* The TTL of an entry runs out, or an administrator resets the backend.
Expire(key) ==
    /\ cache[key] # Nil
    /\ cache' = [cache EXCEPT ![key] = Nil]
    /\ UNCHANGED <<tables, req, loaded>>

-----------------------------------------------------------------------------
(* create_thread and the first half of the imports.                        *)

CreateThread(q) ==
    /\ At(q, "start") /\ req[q].op \in {"create", "import"}
    /\ NewId \in Ids
    /\ threads' = [threads EXCEPT ![NewId] = [creator |-> q, updated |-> q]]
    /\ lastId' = IF NewId > lastId THEN NewId ELSE lastId
    /\ req' = [req EXCEPT ![q].pc = IF req[q].op = "create" THEN "refresh" ELSE "record",
                          ![q].id = NewId, ![q].thread = q]
    /\ UNCHANGED <<messages, imports, cache, loaded>>

\* create_import_record, after the refresh of the new thread.
CreateImport(q) ==
    /\ At(q, "record")
    /\ IF Exists(req[q].id)
       THEN /\ imports' = [imports EXCEPT ![q] = [thread |-> req[q].id, status |-> "pending"]]
            /\ Goto(q, "recorded")
       ELSE Fail(q) /\ UNCHANGED imports
    /\ UNCHANGED <<threads, lastId, messages, cache, loaded>>

\* import_text parses the text before it appends; either import then reads the
\* thread again, which its last commit has expired.
ParseImport(q) ==
    /\ At(q, "recorded")
    /\ \/ Exists(req[q].id) /\ Goto(q, "max")
       \/ ~Exists(req[q].id) /\ Fail(q)
       \/ req' = [req EXCEPT ![q].pc = "complete", ![q].error = TRUE]
    /\ UNCHANGED <<tables, cache, loaded>>

-----------------------------------------------------------------------------
(* append_messages.                                                        *)

FindThread(q) ==
    /\ At(q, "start") /\ req[q].op \in {"append", "delete"}
    /\ IF Exists(req[q].id)
       THEN req' = [req EXCEPT ![q].thread = threads[req[q].id].creator,
                               ![q].pc = IF req[q].op = "append" THEN "max" ELSE "commit"]
       ELSE Fail(q)
    /\ UNCHANGED <<tables, cache, loaded>>

ReadMaxSeq(q) ==
    /\ At(q, "max")
    /\ req' = [req EXCEPT ![q].pc = "commit", ![q].next = NextSeq(req[q].id)]
    /\ UNCHANGED <<tables, cache, loaded>>

NewMessages(q) ==
    {[thread |-> req[q].id, seq |-> k, by |-> q] :
        k \in req[q].next .. req[q].next + req[q].size - 1}

\* The commit's flush updates the thread's row and inserts the messages: it
\* fails if the row is gone or if uq_conversation_message_thread_seq would break.
FlushWithoutConstraint(q) == Exists(req[q].id)
FlushSucceeds(q) ==
    /\ Exists(req[q].id)
    /\ \A m \in MessagesOf(req[q].id), n \in NewMessages(q) : m.seq # n.seq

CommitMessagesRowByRow(q) ==
    /\ At(q, "commit") /\ req[q].op \in {"append", "import"}
    /\ IF Exists(req[q].id)
       THEN /\ threads' = [threads EXCEPT ![req[q].id].updated = q]
            /\ messages' = messages \cup
                 {n \in NewMessages(q) : \A m \in MessagesOf(req[q].id) : m.seq # n.seq}
            /\ Goto(q, IF req[q].op = "append" THEN "refresh" ELSE "complete")
       ELSE Fail(q) /\ UNCHANGED <<threads, messages>>
    /\ UNCHANGED <<lastId, imports, cache, loaded>>
CommitMessages(q) ==
    /\ At(q, "commit") /\ req[q].op \in {"append", "import"}
    /\ IF FlushSucceeds(q)
       THEN /\ threads' = [threads EXCEPT ![req[q].id].updated = q]
            /\ messages' = messages \cup NewMessages(q)
            /\ Goto(q, IF req[q].op = "append" THEN "refresh" ELSE "complete")
       ELSE Fail(q) /\ UNCHANGED <<threads, messages>>
    /\ UNCHANGED <<lastId, imports, cache, loaded>>

\* set_import_completed; the row is gone if its thread is.
StatusAlwaysCompleted(q) == "completed"
StatusOfAnError(q) == IF req[q].error THEN "error" ELSE "completed"
Status(q) == IF req[q].error THEN "failed" ELSE "completed"
CompleteImport(q) ==
    /\ At(q, "complete")
    /\ IF imports[q] = Nil
       THEN Fail(q) /\ UNCHANGED imports
       ELSE /\ imports' = [imports EXCEPT ![q].status = Status(q)]
            /\ Goto(q, "refresh")
    /\ UNCHANGED <<threads, lastId, messages, cache, loaded>>

\* After its commit a writer reads back the rows it wrote and raises if they
\* are gone.
Refresh(q) ==
    /\ At(q, "refresh")
    /\ IF CASE req[q].op = "create" -> Exists(req[q].id)
            [] req[q].op = "append" -> NewMessages(q) \subseteq messages
            [] req[q].op = "import" -> imports[q] # Nil
       THEN Goto(q, IF req[q].op = "import" THEN "reload" ELSE "clear_list")
       ELSE Fail(q)
    /\ UNCHANGED <<tables, cache, loaded>>

\* An import asks its thread, expired by the last commit, for its id.
ReloadThread(q) ==
    /\ At(q, "reload")
    /\ IF Exists(req[q].id) THEN Goto(q, "clear_list") ELSE Fail(q)
    /\ UNCHANGED <<tables, cache, loaded>>

-----------------------------------------------------------------------------
(* delete_thread.  Messages and imports go with their thread.              *)

DeleteThreadOnly(q) ==
    /\ At(q, "commit") /\ req[q].op = "delete"
    /\ threads' = [threads EXCEPT ![req[q].id] = Nil]
    /\ Goto(q, "clear_list")
    /\ UNCHANGED <<lastId, messages, imports, cache, loaded>>
DeleteMessagesOnly(q) ==
    /\ At(q, "commit") /\ req[q].op = "delete"
    /\ messages' = messages \ MessagesOf(req[q].id)
    /\ Goto(q, "clear_list")
    /\ UNCHANGED <<threads, lastId, imports, cache, loaded>>
DeleteThread(q) ==
    /\ At(q, "commit") /\ req[q].op = "delete"
    /\ threads' = [threads EXCEPT ![req[q].id] = Nil]
    /\ messages' = messages \ MessagesOf(req[q].id)
    /\ imports' = [p \in Requests |->
                     IF imports[p] # Nil /\ imports[p].thread = req[q].id
                     THEN Nil ELSE imports[p]]
    /\ Goto(q, "clear_list")
    /\ UNCHANGED <<lastId, cache, loaded>>

\* Any commit may raise; the session of an import is then unusable, and the
\* request ends as it does with the other commits that fail.
CommitRaises(q) ==
    /\ CommitMayFail
    /\ req[q].pc \in {"start", "record", "commit", "complete"}
    /\ req[q].pc = "start" => req[q].op \in {"create", "import"}
    /\ Fail(q)
    /\ UNCHANGED <<tables, cache, loaded>>

-----------------------------------------------------------------------------
(* _invalidate_conversation_cache: three operations on the cache.          *)

Drop(key) == \/ cache' = [cache EXCEPT ![key] = Nil]
             \/ /\ LossyCache /\ cache[key] # Nil
                /\ cache' = [cache EXCEPT ![key].current = FALSE]

InvalidateListAndThread(q) ==
    /\ \/ At(q, "clear_list") /\ Drop(<<"list", 0>>) /\ Goto(q, "drop_thread")
       \/ At(q, "drop_thread") /\ Drop(<<"thread", req[q].id>>) /\ Succeed(q)
    /\ UNCHANGED <<tables, loaded>>
Invalidate(q) ==
    /\ \/ At(q, "clear_list") /\ Drop(<<"list", 0>>) /\ Goto(q, "drop_thread")
       \/ At(q, "drop_thread") /\ Drop(<<"thread", req[q].id>>) /\ Goto(q, "drop_messages")
       \/ At(q, "drop_messages") /\ Drop(<<"messages", req[q].id>>) /\ Succeed(q)
    /\ UNCHANGED <<tables, loaded>>

-----------------------------------------------------------------------------
Init ==
    /\ threads = [i \in Ids |-> Nil]
    /\ lastId = 0
    /\ messages = {}
    /\ imports = [q \in Requests |-> Nil]
    /\ cache = [key \in Keys |-> Nil]
    /\ req = [q \in Requests |-> Blank]
    /\ loaded = [q \in Requests |-> Nil]

Step(q) ==
    \/ Lookup(q) \/ Load(q) \/ Fill(q)
    \/ CreateThread(q) \/ CreateImport(q) \/ ParseImport(q)
    \/ FindThread(q) \/ ReadMaxSeq(q) \/ CommitMessages(q)
    \/ CompleteImport(q) \/ Refresh(q) \/ ReloadThread(q)
    \/ DeleteThread(q) \/ CommitRaises(q)
    \/ Invalidate(q)

Next ==
    \/ \E q \in Requests : Start(q) \/ Step(q)
    \/ \E key \in Keys : Expire(key)

Spec == Init /\ [][Next]_vars

-----------------------------------------------------------------------------
(* Properties.                                                             *)

\* However appends overlap, the messages of a thread are numbered 1, 2, 3, ...
\* without a gap or a repetition.
SeqNosAreDense ==
    /\ \A m, n \in messages : m.thread = n.thread /\ m.seq = n.seq => m = n
    /\ \A m \in messages : \A k \in 1 .. m.seq :
            \E n \in messages : n.thread = m.thread /\ n.seq = k

\* A batch is stored whole and in one piece, or not at all: a thread that is
\* there has all the messages of a request that succeeded in appending to it.
BatchesAreWhole ==
    \A q \in Requests :
        LET mine == {m \in messages : m.by = q}
        IN  /\ mine \in {{}, NewMessages(q)}
            /\ req[q].ok /\ req[q].op = "append" /\ Exists(req[q].id) => mine = NewMessages(q)

\* A thread, whatever its requests do at the same time, is the log of ThreadLog:
\* it only grows at its end, by whole batches, and disappears as a whole.
LogOf(i) ==
    IF Exists(i)
    THEN [k \in 1 .. Cardinality(MessagesOf(i)) |->
             (CHOOSE m \in MessagesOf(i) : m.seq = k).by]
    ELSE Nil

ASSUME NoLogAssumption == Nil \notin Seq(Requests)

Log == INSTANCE ThreadLog
           WITH Authors <- Requests, Gone <- Nil, logs <- [i \in Ids |-> LogOf(i)]
ThreadsAreLogs == Log!Spec

\* A message is only ever in the thread that its sender was shown: no deletion
\* and creation in between lets it land in another one.
MessagesReachTheirThread ==
    \A m \in messages : Exists(m.thread) /\ threads[m.thread].creator = req[m.by].thread

\* The status of an import tells what became of its messages.
ImportStatusIsTrue ==
    \A q \in Requests :
        imports[q] # Nil =>
            LET mine == {m \in messages : m.by = q}
            IN  /\ imports[q].status = "completed" => mine = NewMessages(q)
                /\ imports[q].status = "failed" => mine = {}

\* A cached list of messages is what the thread once was: a beginning of its
\* log, never a list with holes, however late its reader stores it.
CachedMessagesAreAPrefix ==
    \A i \in Ids :
        LET entry == cache[<<"messages", i>>]
        IN  entry # Nil /\ Exists(i) =>
                /\ entry.payload \subseteq MessagesOf(i)
                /\ \A m \in entry.payload, n \in MessagesOf(i) :
                        n.seq < m.seq => n \in entry.payload

\* The requests that have changed a table and not yet dropped the key.
Invalidating(key) ==
    \E q \in Requests :
        /\ key[1] = "list" \/ req[q].id = key[2]
        /\ \/ req[q].pc \in {"refresh", "reload", "clear_list"}
           \/ req[q].pc = "drop_thread" /\ key[1] # "list"
           \/ req[q].pc = "drop_messages" /\ key[1] = "messages"

\* No write forgets to invalidate: an entry that was true when it was stored
\* has become false only while some writer of the thread is still at work.  Not
\* so for an import that fails half-way: it leaves its thread behind and the
\* cached list of threads without it.
TrueEntriesAreDropped ==
    \A key \in Keys :
        cache[key] # Nil /\ cache[key].current /\ cache[key].payload # Stored(key) =>
            Invalidating(key)

=============================================================================
