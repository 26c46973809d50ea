---------------------------- MODULE PromptChains ----------------------------
(***************************************************************************)
(* Prompt chains, their versions, test runs and previews:                  *)
(* crud/prompt_versioning.py and routes/prompt_versions.py.                *)
(*                                                                         *)
(* The routes run in a pool of threads.  A request that writes reads the   *)
(* chain first and computes the number of a version from what it reads;    *)
(* a test run and a preview read the settings again at each call they      *)
(* make to a language model.  Between two steps of a request others run.   *)
(*                                                                         *)
(* A chain is known by its project and name, which no two chains share,    *)
(* and by the number of its life: after --reset-db a new chain of the same *)
(* name may get the old one's id (SQLite) or another one (PostgreSQL).     *)
(* Texts, scores and token counts stay outside, except for the level of    *)
(* risk that decides what a preview says.                                  *)
(***************************************************************************)
EXTENDS Integers, Sequences, FiniteSets, FiniteSetsExt

CONSTANTS
    ChainNames,
    SameName,           \* ChainNames -> the name in lower case
    Writers,            \* users with write access to the project
    ChainRequests,
    LLMSettings,        \* settings of the language models an administrator may choose
    HeuristicLevel,     \* 0..3: risk that the words of a prompt show, high is 3
    Replies,            \* what a language model answers: some text, a broken reply;
                        \* as a judge of risk, a score (as a level) and a severity
    TestRunLimit,       \* maxlen of _PROMPT_TEST_RUNS; 500 in the code
    MaxVersions,        \* bound on the versions of a chain
    MaxTestRuns,        \* bound on the runs and previews
    Nobody

ASSUME PromptChainsAssumption ==
    /\ TestRunLimit \in Nat \ {0}
    /\ MaxVersions \in Nat \ {0} /\ MaxTestRuns \in Nat
    /\ HeuristicLevel \in 0..3
    /\ \A q \in Replies : q.text \in BOOLEAN /\ q.broken \in BOOLEAN
        /\ q.level \in 0..3 /\ q.severity \in 0..3

VARIABLES
    chain,          \* tables prompt_chains and prompt_chain_versions
    chainRequest,   \* ChainRequests -> what each one is doing
    llm,            \* settings of the language models
    testRuns,       \* _PROMPT_TEST_RUNS, oldest first
    previews,       \* preview logs on disk
    latest,         \* <<chain, version>> -> the serial in latest.log
    runCount

chainVars == <<chain, chainRequest, llm, testRuns, previews, latest, runCount>>
runVars == <<llm, testRuns, previews, latest, runCount>>

\* stray: a version came from a request that had read an earlier chain.
NoChain(life) == [exists |-> FALSE, versions |-> {}, updatedBy |-> Nobody,
                  life |-> life, stray |-> FALSE]
IdleChainRequest == [pc |-> "idle", chain |-> Nobody, by |-> Nobody, named |-> Nobody,
                     life |-> 0, no |-> 0, safety |-> Nobody, result |-> "", serial |-> 0]

PromptChainsInit ==
    /\ chain = [c \in ChainNames |-> NoChain(0)]
    /\ chainRequest = [q \in ChainRequests |-> IdleChainRequest]
    /\ llm \in LLMSettings
    /\ testRuns = <<>> /\ previews = {} /\ runCount = 0
    /\ latest = [k \in ChainNames \X (1..MaxVersions) |-> 0]

-----------------------------------------------------------------------------
(* Chains and versions.                                                    *)

SetChain(q, r) == chainRequest' = [chainRequest EXCEPT ![q] = r]
AnswerChain(q) == SetChain(q, IdleChainRequest)

Numbers(c) == {v.no : v \in chain[c].versions}
LastNo(c) == Max(Numbers(c) \cup {0})
VersionNo(c, n) == CHOOSE v \in chain[c].versions : v.no = n

\* create_prompt_chain compares names in lower case.
NameInUse(c) == \E d \in ChainNames : SameName[d] = SameName[c] /\ chain[d].exists

CheckNewChain(q) ==
    /\ chainRequest[q].pc = "idle"
    /\ \E c \in ChainNames, u \in Writers :
        /\ ~NameInUse(c)
        /\ SetChain(q, [IdleChainRequest EXCEPT !.pc = "insert chain", !.chain = c,
                                                !.by = u])
    /\ UNCHANGED <<chain, runVars>>

\* One transaction for the chain and its first version.
NewChain(u, life) == [exists |-> TRUE, versions |-> {[no |-> 1, by |-> u]},
                      updatedBy |-> u, life |-> life, stray |-> FALSE]

\* uq_prompt_chains_project_name compares names as they are.
InsertChain(q) ==
    LET r == chainRequest[q]
    IN  /\ r.pc = "insert chain"
        /\ chain' = IF chain[r.chain].exists THEN chain
                    ELSE [chain EXCEPT ![r.chain] = NewChain(r.by, chain[r.chain].life)]
        /\ AnswerChain(q)
        /\ UNCHANGED runVars

\* create_chain_version: get_prompt_chain_by_id.
LoadChain(q) ==
    /\ chainRequest[q].pc = "idle"
    /\ \E c \in ChainNames, u \in Writers :
        /\ chain[c].exists
        /\ SetChain(q, [IdleChainRequest EXCEPT !.pc = "read latest", !.chain = c,
                            !.by = u, !.named = chain[c].updatedBy,
                            !.life = chain[c].life])
    /\ UNCHANGED <<chain, runVars>>

SameLife(r) == chain[r.chain].life = r.life

\* add_prompt_chain_version up to its insert.
ReadLatest(q) ==
    LET r == chainRequest[q]
    IN  /\ r.pc = "read latest"
        /\ LastNo(r.chain) < MaxVersions
        /\ \E no \in {LastNo(r.chain) + 1} \cup (IF SameLife(r) THEN {} ELSE {1}) :
            SetChain(q, [r EXCEPT !.pc = "insert version", !.no = no])
        /\ UNCHANGED <<chain, runVars>>

\* The session writes updated_by_id only when it differs from what it has loaded.
UpdatedBy(r) == IF r.named = r.by THEN chain[r.chain].updatedBy ELSE r.by

AddedUnnamed(r) ==
    [chain[r.chain] EXCEPT !.versions = @ \cup {[no |-> r.no, by |-> r.by]},
                           !.stray = @ \/ ~SameLife(r)]

Added(r) ==
    [chain[r.chain] EXCEPT !.versions = @ \cup {[no |-> r.no, by |-> r.by]},
                           !.updatedBy = UpdatedBy(r),
                           !.stray = @ \/ ~SameLife(r)]

\* uq_prompt_chain_versions_chain_version refuses a number that is taken, and
\* the foreign key a chain that is gone; with it goes the whole transaction.
Refused(r) == ~chain[r.chain].exists \/ r.no \in Numbers(r.chain)

InsertVersion(q) ==
    LET r == chainRequest[q]
    IN  /\ r.pc = "insert version"
        /\ \/ ~Refused(r) /\ chain' = [chain EXCEPT ![r.chain] = Added(r)]
           \/ (Refused(r) \/ ~SameLife(r)) /\ UNCHANGED chain
        /\ AnswerChain(q)
        /\ UNCHANGED runVars

-----------------------------------------------------------------------------
(* Language models.                                                        *)

\* One profile: provider "" is none, and model, url and token say whether the
\* setting is there.
\* _resolve_profile_llm_config: with the fallback each field that the test
\* profile lacks is taken from the optimizer's.
Profile(s, name) ==
    LET o == s.optimizer
        t == s.test
    IN  IF name # "test" THEN s[name]
        ELSE IF ~s.fallback THEN t
        ELSE [provider |-> IF t.provider = "" THEN o.provider ELSE t.provider,
              model |-> t.model \/ o.model, url |-> t.url \/ o.url,
              token |-> t.token \/ o.token]

\* _invoke_profiled_llm: what is wrong with a profile before anything is sent.
HasAddress(p) == p.url \/ p.provider \in {"openai", "ollama"}
ProfileError(p) ==
    IF ~p.model \/ ~HasAddress(p) THEN "not configured"
    ELSE IF p.provider = "openai" /\ ~p.token THEN "no token"
    ELSE IF p.provider \notin {"openai", "ollama"} THEN "unsupported"
    ELSE ""

\* A reply that no clause of _http_post_json or of the reader expects raises.
Raises(p, q) == ProfileError(p) = "" /\ q.broken
Invoked(p, q) == ProfileError(p) = "" /\ ~q.broken /\ q.text
CallError(p, q) ==
    IF ProfileError(p) # "" THEN ProfileError(p) ELSE IF q.text THEN "" ELSE "no answer"

\* _invoke_prompt_safety_llm.  Everything that goes wrong there is caught; fail
\* mode "closed" then makes a result of high severity of it, which says that no
\* model was used.
NoVerdict == [used |-> FALSE, level |-> 0, severity |-> 0]

SafetyOf(s, q) ==
    LET asked == /\ s.safetyOn /\ s.safety.model
                 /\ s.safety.provider \in {"openai", "ollama"}
    IN  IF asked /\ q.text /\ ~q.broken
        THEN [used |-> TRUE, level |-> q.level, severity |-> q.severity]
        ELSE NoVerdict

\* _merge_prompt_security_metrics drops a result that no model gave, that of fail
\* mode "closed" included, and reads the merge strategy after the call.
Severity(s, safety) ==
    IF safety.used /\ ~s.heuristicOnly THEN Max({HeuristicLevel, safety.level})
    ELSE HeuristicLevel

ChangeLLMSettings ==
    /\ llm' \in LLMSettings \ {llm}
    /\ UNCHANGED <<chain, chainRequest, testRuns, previews, latest, runCount>>

\* A test run and a preview start alike: a chain and one of its versions.
Begin(q, pc) ==
    /\ chainRequest[q].pc = "idle" /\ runCount < MaxTestRuns
    /\ \E c \in ChainNames : \E n \in Numbers(c) :
        SetChain(q, [IdleChainRequest EXCEPT !.pc = pc, !.chain = c, !.no = n])
    /\ runCount' = runCount + 1
    /\ UNCHANGED <<chain, llm, testRuns, previews, latest>>

BeginTestRun(q) == Begin(q, "test")
BeginPreview(q) == Begin(q, "check")

\* run_prompt_version_test: the call of the tested model.
CallTested(q) ==
    LET p == Profile(llm, "test")
    IN  /\ chainRequest[q].pc = "test"
        /\ \E a \in Replies :
            IF Raises(p, a) THEN AnswerChain(q)
            ELSE SetChain(q, [chainRequest[q] EXCEPT !.pc = "check run",
                                  !.result = CallError(p, a)])
        /\ UNCHANGED <<chain, runVars>>

\* The call of the safety model, for a test run and for a preview.
CheckSafety(q) ==
    LET r == chainRequest[q]
    IN  /\ r.pc \in {"check run", "check"}
        /\ \E a \in Replies :
            SetChain(q, [r EXCEPT !.safety = SafetyOf(llm, a),
                             !.pc = IF r.pc = "check" THEN "optimize" ELSE "record"])
        /\ UNCHANGED <<chain, runVars>>

LastOf(s, n) == SubSeq(s, Max({1, Len(s) - n + 1}), Len(s))

RecordRun(q) ==
    LET r == chainRequest[q]
    IN  /\ r.pc = "record"
        /\ testRuns' = LastOf(Append(testRuns,
                [chain |-> r.chain, no |-> r.no, error |-> r.result,
                 severity |-> Severity(llm, r.safety)]), TestRunLimit)
        /\ AnswerChain(q)
        /\ UNCHANGED <<chain, llm, previews, latest, runCount>>

\* _compose_prompt_orchestrator_preview: optimizer, then compression.
CallOptimizer(q) ==
    LET p == Profile(llm, "optimizer")
        r == chainRequest[q]
    IN  /\ r.pc = "optimize"
        /\ \E a \in Replies :
            IF Raises(p, a) THEN AnswerChain(q)
            ELSE SetChain(q, [r EXCEPT !.pc = "compress", !.result =
                                IF Invoked(p, a) THEN "optimized" ELSE "heuristic"])
        /\ UNCHANGED <<chain, runVars>>

CallCompression(q) ==
    LET p == Profile(llm, "compression")
        r == chainRequest[q]
    IN  /\ r.pc = "compress"
        /\ \E a \in Replies :
            IF Raises(p, a) THEN AnswerChain(q)
            ELSE SetChain(q, [r EXCEPT !.pc = "write log", !.result =
                                IF Invoked(p, a) THEN "compressed" ELSE @])
        /\ UNCHANGED <<chain, runVars>>

Note(r) == llm.rewrite /\ r.safety.used /\ r.safety.severity >= 2

\* _write_prompt_orchestrator_log writes a file of its own and then latest.log.
WriteLog(q) ==
    LET r == chainRequest[q]
    IN  /\ r.pc = "write log"
        /\ previews' = previews \cup {[chain |-> r.chain, no |-> r.no, text |-> r.result,
                                       note |-> Note(r), serial |-> Cardinality(previews) + 1]}
        /\ SetChain(q, [r EXCEPT !.pc = "write latest", !.serial = Cardinality(previews) + 1])
        /\ UNCHANGED <<chain, llm, testRuns, latest, runCount>>

WriteLatest(q) ==
    LET r == chainRequest[q]
    IN  /\ r.pc = "write latest"
        /\ latest' = [latest EXCEPT ![<<r.chain, r.no>>] = r.serial]
        /\ AnswerChain(q)
        /\ UNCHANGED <<chain, llm, testRuns, previews, runCount>>

ChainStep(q) ==
    \/ CheckNewChain(q) \/ InsertChain(q)
    \/ LoadChain(q) \/ ReadLatest(q) \/ InsertVersion(q)

RunStep(q) ==
    \/ BeginTestRun(q) \/ CallTested(q) \/ CheckSafety(q) \/ RecordRun(q)
    \/ BeginPreview(q) \/ CallOptimizer(q) \/ CallCompression(q)
    \/ WriteLog(q) \/ WriteLatest(q)

PromptChainsNext ==
    \/ ChangeLLMSettings
    \/ \E q \in ChainRequests : ChainStep(q) \/ RunStep(q)

PromptChainsSpec == PromptChainsInit /\ [][PromptChainsNext]_chainVars

-----------------------------------------------------------------------------
(* Properties.                                                             *)

PromptChainsTypeOK ==
    /\ \A c \in ChainNames :
        /\ chain[c].versions \subseteq [no : 1..MaxVersions, by : Writers]
        /\ chain[c].updatedBy \in Writers \cup {Nobody}
        /\ chain[c].exists <=> chain[c].versions # {}
    /\ Len(testRuns) <= TestRunLimit
    /\ runCount <= MaxTestRuns

\* Whatever requests overlap, the versions of a chain are numbered from 1 without
\* a gap or a repetition, and the chain names the author of the last one.  The
\* one exception: an author who was named when it read the chain and whose
\* version came after one that somebody else added meanwhile.  (Leaving aside a
\* chain that got a version meant for another one whose id it was given.)
ChainsNameTheirLastAuthor ==
    \A c \in ChainNames : chain[c].exists /\ ~chain[c].stray =>
        LET last == VersionNo(c, LastNo(c))
        IN  /\ Numbers(c) = 1..Cardinality(chain[c].versions)
            /\ \/ chain[c].updatedBy = last.by
               \/ \E v, w \in chain[c].versions :
                    /\ v.no < w.no /\ w.no < last.no
                    /\ v.by = last.by /\ w.by = chain[c].updatedBy
=============================================================================
