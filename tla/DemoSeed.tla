------------------------------ MODULE DemoSeed ------------------------------
(***************************************************************************)
(* scripts/seed_demo_data.py, run beside a server whose users work on the  *)
(* same prompt chains.                                                     *)
(*                                                                         *)
(* The script commits after each thing it makes and looks before it makes  *)
(* one, so that it can be run again after it was interrupted, or at a      *)
(* larger scale.  Prompt chains are those of PromptChains, and the script  *)
(* makes them with the functions of the routes: it is the request SeedSlot *)
(* of that module.  Of the demo data there are one user, one thread and    *)
(* the chains; the project keeps its name.                                 *)
(***************************************************************************)
EXTENDS PromptChains

CONSTANTS
    SeedSlot,           \* the script's calls of crud/prompt_versioning.py
    SeedAdmin,          \* the user demo_admin
    DemoChain,          \* the chain of DEMO_CHAINS
    DemoVersions,       \* and the number of its versions
    SyntheticChain,     \* a chain of _build_scaled_chains
    Scales,             \* extra_versions of the scales of SCALE_PRESETS
    DemoAccess,         \* projects of the demo user
    Projects,
    MaxSeedRuns,        \* bound on the runs of the script
    MaxTouches          \* bound on what the users of the server do meanwhile

ASSUME DemoSeedAssumption ==
    /\ SeedSlot \in ChainRequests /\ SeedAdmin \in Writers
    /\ {DemoChain, SyntheticChain} \subseteq ChainNames
    /\ DemoAccess \subseteq Projects /\ DemoAccess # {}
    /\ DemoVersions \in Nat \ {0}
    /\ SameName[DemoChain] # SameName[SyntheticChain]
    /\ Scales \subseteq Nat /\ 0 \in Scales

VARIABLES
    seed,           \* the script
    demoUser,
    demoThreads,    \* threads with the demo title: has each its messages?
    largest,        \* history: the largest scale that was begun since the last reset
    touched         \* history: how often the users of the server changed what

seedVars == <<seed, demoUser, demoThreads, largest, touched>>
allSeedVars == <<chain, chainRequest, llm, testRuns, previews, latest, runCount,
                 seed, demoUser, demoThreads, largest, touched>>

NoUser == [exists |-> FALSE, asGiven |-> FALSE, access |-> {}]
SeedOff == [pc |-> "off", runs |-> 0, scale |-> 0, todo |-> <<>>, missing |-> {}]

\* The chains of a scale with the numbers of their versions.
ChainSpecs(scale) ==
    <<[name |-> DemoChain, versions |-> DemoVersions]>>
    \o IF scale = 0 THEN <<>>
       ELSE <<[name |-> SyntheticChain, versions |-> Max({2, scale})]>>

DemoSeedInit ==
    /\ PromptChainsInit
    /\ seed = SeedOff /\ demoUser = NoUser /\ demoThreads = <<>>
    /\ largest = 0 /\ touched = [chains |-> 0, user |-> 0]

-----------------------------------------------------------------------------

Running == seed.pc \notin {"off", "done", "failed"}
Goto(pc) == seed' = [seed EXCEPT !.pc = pc]

StartSeed ==
    /\ ~Running /\ seed.runs < MaxSeedRuns
    /\ \E scale \in Scales, pc \in {"reset", "user"} :
        /\ seed' = [pc |-> pc, runs |-> seed.runs + 1, scale |-> scale,
                    todo |-> ChainSpecs(scale), missing |-> {}]
        /\ largest' = Max({largest, scale})
    /\ UNCHANGED <<chainVars, demoUser, demoThreads, touched>>

\* --reset-db: everything in one transaction.
ResetDatabase ==
    /\ seed.pc = "reset" /\ Goto("user")
    /\ chain' = [c \in ChainNames |-> NoChain(chain[c].life + 1)]
    /\ demoUser' = NoUser /\ demoThreads' = <<>>
    /\ largest' = seed.scale
    /\ UNCHANGED <<chainRequest, runVars, touched>>

\* _ensure_user up to the first commit of create_user or update_user.
EnsureUser ==
    /\ seed.pc = "user"
    /\ IF ~demoUser.exists
       THEN /\ demoUser' = [exists |-> TRUE, asGiven |-> TRUE, access |-> {}]
            /\ Goto("access")
       ELSE IF demoUser.asGiven /\ demoUser.access = DemoAccess
       THEN UNCHANGED demoUser /\ Goto("thread")
       ELSE demoUser' = [demoUser EXCEPT !.asGiven = TRUE] /\ Goto("access")
    /\ UNCHANGED <<chainVars, demoThreads, largest, touched>>

\* set_user_projects, which cannot keep a project that the user has.
EnsureAccess ==
    /\ seed.pc = "access"
    /\ IF demoUser.access \cap DemoAccess # {}
       THEN UNCHANGED demoUser /\ Goto("failed")
       ELSE demoUser' = [demoUser EXCEPT !.access = DemoAccess] /\ Goto("thread")
    /\ UNCHANGED <<chainVars, demoThreads, largest, touched>>

CreateThreadAlways ==
    /\ seed.pc = "thread" /\ Goto("messages")
    /\ demoThreads' = Append(demoThreads, FALSE)
    /\ UNCHANGED <<chainVars, demoUser, largest, touched>>

GetOrCreateThread ==
    /\ seed.pc = "thread" /\ Goto("messages")
    /\ demoThreads' = IF demoThreads = <<>> THEN <<FALSE>> ELSE demoThreads
    /\ UNCHANGED <<chainVars, demoUser, largest, touched>>

EnsureThreadMessages ==
    /\ seed.pc = "messages" /\ Goto("chain")
    /\ demoThreads' = [demoThreads EXCEPT ![1] = TRUE]
    /\ UNCHANGED <<chainVars, demoUser, largest, touched>>

Spec1 == Head(seed.todo)

\* _ensure_chain: _get_chain compares names as they are, create_prompt_chain in
\* lower case.
FindDemoChain ==
    /\ seed.pc = "chain" /\ seed.todo # <<>>
    /\ IF chain[Spec1.name].exists
       THEN Goto("versions") /\ UNCHANGED chainRequest
       ELSE IF NameInUse(Spec1.name)
       THEN Goto("failed") /\ UNCHANGED chainRequest
       ELSE /\ Goto("insert chain")
            /\ SetChain(SeedSlot, [IdleChainRequest EXCEPT !.pc = "insert chain",
                                        !.chain = Spec1.name, !.by = SeedAdmin])
    /\ UNCHANGED <<chain, runVars, demoUser, demoThreads, largest, touched>>

InsertDemoChain ==
    /\ seed.pc = "insert chain"
    /\ Goto(IF chain[Spec1.name].exists THEN "failed" ELSE "versions")
    /\ InsertChain(SeedSlot)
    /\ UNCHANGED <<demoUser, demoThreads, largest, touched>>

\* _ensure_chain_versions: the numbers that are there are read once.
ReadVersions ==
    /\ seed.pc = "versions"
    /\ seed' = [seed EXCEPT !.pc = "add",
                            !.missing = (1..Spec1.versions) \ Numbers(Spec1.name)]
    /\ UNCHANGED <<chainVars, demoUser, demoThreads, largest, touched>>

\* The next missing number, which the version does not get by name:
\* add_prompt_chain_version takes the number after the last.
NextMissing ==
    /\ seed.pc = "add"
    /\ IF seed.missing = {}
       THEN /\ seed' = [seed EXCEPT !.todo = Tail(@), !.pc = "chain"]
            /\ UNCHANGED chainRequest
       ELSE /\ seed' = [seed EXCEPT !.missing = @ \ {Min(@)}, !.pc = "insert version"]
            /\ SetChain(SeedSlot, [IdleChainRequest EXCEPT !.pc = "read latest",
                            !.chain = Spec1.name, !.by = SeedAdmin,
                            !.named = chain[Spec1.name].updatedBy,
                            !.life = chain[Spec1.name].life])
    /\ UNCHANGED <<chain, runVars, demoUser, demoThreads, largest, touched>>

ReadLatestOfDemo ==
    /\ seed.pc = "insert version" /\ ReadLatest(SeedSlot)
    /\ UNCHANGED seedVars

InsertDemoVersion ==
    /\ seed.pc = "insert version"
    /\ Goto(IF Refused(chainRequest[SeedSlot]) THEN "failed" ELSE "add")
    /\ InsertVersion(SeedSlot)
    /\ UNCHANGED <<demoUser, demoThreads, largest, touched>>

FinishSeed ==
    /\ seed.pc = "chain" /\ seed.todo = <<>> /\ Goto("done")
    /\ UNCHANGED <<chainVars, demoUser, demoThreads, largest, touched>>

\* The script is interrupted; what it has not committed is gone.
KillSeed ==
    /\ Running /\ Goto("off") /\ AnswerChain(SeedSlot)
    /\ UNCHANGED <<chain, runVars, demoUser, demoThreads, largest, touched>>

SeedStep ==
    \/ StartSeed \/ ResetDatabase \/ EnsureUser \/ EnsureAccess
    \/ GetOrCreateThread \/ EnsureThreadMessages
    \/ FindDemoChain \/ InsertDemoChain \/ ReadVersions \/ NextMissing
    \/ ReadLatestOfDemo \/ InsertDemoVersion \/ FinishSeed \/ KillSeed

-----------------------------------------------------------------------------
(* The server beside the script.                                           *)

ServerStep ==
    \E q \in ChainRequests \ {SeedSlot} :
        /\ \/ chainRequest[q].pc # "idle" /\ UNCHANGED touched
           \/ /\ chainRequest[q].pc = "idle" /\ touched.chains < MaxTouches
              /\ touched' = [touched EXCEPT !.chains = @ + 1]
        /\ ChainStep(q)
        /\ UNCHANGED <<seed, demoUser, demoThreads, largest>>

\* An administrator changes the demo user (Accounts).
ChangeDemoUser ==
    /\ demoUser.exists /\ touched.user < MaxTouches
    /\ touched' = [touched EXCEPT !.user = @ + 1]
    /\ \/ \E l \in SUBSET Projects :
            /\ l \cap demoUser.access = {}
            /\ demoUser' = [demoUser EXCEPT !.access = l]
       \/ demoUser' = [demoUser EXCEPT !.asGiven = FALSE]
    /\ UNCHANGED <<chainVars, seed, demoThreads, largest>>

DemoSeedNext == SeedStep \/ ServerStep \/ ChangeDemoUser

DemoSeedSpec == DemoSeedInit /\ [][DemoSeedNext]_allSeedVars

-----------------------------------------------------------------------------
(* Properties.                                                             *)

\* However often the script was interrupted or run at other scales before: when
\* it ends, every chain has the versions of its specification, and the thread
\* has its messages; nothing is there twice; and it fails only after the users
\* of the server have changed its data.  The exception: a chain that got, after a
\* reset, a version meant for the one it replaced.  Its numbers have a gap then,
\* which the script counts as missing and does not fill.
SeedIsWhole ==
    /\ seed.pc = "failed" => touched.chains + touched.user > 0
    /\ seed.pc = "done" =>
        /\ demoThreads = <<TRUE>>
        /\ touched.user = 0 => demoUser = [exists |-> TRUE, asGiven |-> TRUE,
                                                access |-> DemoAccess]
        /\ \A i \in DOMAIN ChainSpecs(seed.scale) :
            LET spec == ChainSpecs(seed.scale)[i]
            IN  /\ ~chain[spec.name].stray => 1..spec.versions \subseteq Numbers(spec.name)
                /\ touched.chains = 0 /\ largest = seed.scale =>
                        1..spec.versions = Numbers(spec.name)
=============================================================================
