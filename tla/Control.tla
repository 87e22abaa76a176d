------------------------------- MODULE Control -------------------------------
(***************************************************************************)
(* The control server (cmd/main.go): the HTTP handlers that change the     *)
(* default policy and the multirules, while main may call Daemon.Stop.     *)
(* net/http runs each request in a goroutine of its own.  controlMu guards *)
(* `config' and keeps it in step with the daemon's policy; Tracker.mu and  *)
(* multiRuleManager.mu guard the two halves of the multirule list, one     *)
(* after the other.                                                        *)
(*                                                                         *)
(* SetKernelPolicy is one step that succeeds or fails (what PolicyRegister *)
(* promises).  MultiRule has what the tracker does with a rule, PMark what *)
(* a traversal does.  The mark stands for mark_value and mark_priority,    *)
(* which the handlers treat alike.                                         *)
(***************************************************************************)
EXTENDS Daemon, CommRules

CONSTANTS
    Req,              \* goroutines that serve requests
    Bodies,           \* the rules that requests carry
    InitRules, InitDecision,   \* the command line
    NoDecision,       \* a request that names no mark
    NoReport, Free,
    MaxRequests       \* bound on the number of requests

Body == Bodies \cup {InitRules}
Config == [rules : Body, decision : Decision]

ASSUME ControlAssumption ==
    /\ Bodies \subseteq Rules /\ InitRules \in Rules
    /\ InitDecision \in Decision /\ NoDecision \notin Decision
    /\ Compiles(InitRules)
    /\ Free \notin Req
    /\ MaxRequests \in Nat

VARIABLES
    config,      \* the default rules and the mark
    policy,      \* marker.kernelPolicy
    check,       \* marker.check, known by the rules and the mark it was made of
    controlMu,   \* who holds it
    req,         \* [Req -> the request it serves]
    tracker,     \* IDs in Tracker.rules
    listed,      \* IDs in multiRuleManager.rules
    nextID,      \* Tracker.nextID
    serving,     \* the server has not been shut down
    arrived,     \* history: requests so far
    overtaken    \* history: IDs that were unregistered before they were listed

cvars == <<config, policy, check, controlMu, req, tracker, listed, nextID, serving,
           arrived, overtaken>>
vars == <<dvars, cvars>>

\* GET /state: mode and rule count from the daemon, promoted names from config.
Report == [mode : Mode, names : SUBSET Comm, config : Config]

\* How far the requests of each kind come.
Stage == [none |-> {"start"},
          rules |-> {"start", "parsed", "locked", "switched"},
          state |-> {"start", "locked", "pinned", "reported"},
          post |-> {"start", "registered", "traverse", "undo", "unlist"},
          delete |-> {"start", "unlist", "traverse"}]

Request ==
    [kind : DOMAIN Stage,
     stage : UNION {Stage[k] : k \in DOMAIN Stage},
     rules : Body,
     given : Decision \cup {NoDecision},   \* the mark in the body
     decision : Decision,                  \* the mark to install
     id : Nat,
     report : Report \cup {NoReport},
     done : BOOLEAN,                       \* SetKernelPolicy succeeded
     seen : SUBSET Decision]               \* history: marks in force meanwhile
NoRequest == [kind |-> "none", stage |-> "start", rules |-> InitRules,
              given |-> NoDecision, decision |-> InitDecision, id |-> 0,
              report |-> NoReport, done |-> FALSE, seen |-> {}]

TypeOK ==
    /\ DaemonTypeOK
    /\ config \in Config /\ check \in Config /\ policy \in Policy
    /\ controlMu \in Req \cup {Free}
    /\ req \in [Req -> Request] /\ \A r \in Req : req[r].stage \in Stage[req[r].kind]
    /\ tracker \subseteq Nat /\ listed \subseteq Nat /\ nextID \in Nat
    /\ serving \in BOOLEAN
    /\ arrived \in 0..MaxRequests
    /\ overtaken \subseteq Nat

\* main has installed the policy of the command line, and Run has returned.
Init ==
    /\ run = "ran" /\ links = Link /\ rd = "open" /\ loop = "reading"
    /\ objs = "open" /\ done = FALSE /\ stop = "no"
    /\ config = [rules |-> InitRules, decision |-> InitDecision]
    /\ check = config /\ policy = Compile(InitRules, InitDecision)
    /\ controlMu = Free
    /\ req = [r \in Req |-> NoRequest]
    /\ tracker = {} /\ listed = {} /\ nextID = 1
    /\ serving = TRUE /\ arrived = 0
    /\ overtaken = {}

At(r, kind, stage) == req[r].kind = kind /\ req[r].stage = stage
Goto(r, stage) == req' = [req EXCEPT ![r].stage = stage]
Answer(r) == req' = [req EXCEPT ![r] = NoRequest]

Arrive(r, request) ==
    /\ serving /\ req[r].kind = "none" /\ arrived < MaxRequests
    /\ req' = [req EXCEPT ![r] = request]
    /\ arrived' = arrived + 1
    /\ UNCHANGED <<dvars, config, policy, check, controlMu, tracker, listed, nextID,
                   serving, overtaken>>

-----------------------------------------------------------------------------
(* POST /rules *)

RulesFrame == UNCHANGED <<dvars, tracker, listed, nextID, serving, arrived, overtaken>>

PostRules(r) ==
    \E rs \in Bodies, d \in Decision \cup {NoDecision} :
        Arrive(r, [NoRequest EXCEPT !.kind = "rules", !.rules = rs, !.given = d,
                                    !.seen = {config.decision}])

\* Mutant: a body without a mark means none at all.
TakenAsIs(r) == req[r].given

\* Mutant: the default is the mark of the command line.
DefaultOfCommandLine(r) == IF req[r].given = NoDecision THEN InitDecision ELSE req[r].given

\* parseDefaultCheckUpdate: what the body leaves out is as it is now.
WithDefault(r) == IF req[r].given = NoDecision THEN config.decision ELSE req[r].given

\* The current mark is read under the lock, the body is parsed without it.
ReadDefaults(r) ==
    /\ At(r, "rules", "start") /\ controlMu = Free
    /\ req' = [req EXCEPT ![r].stage = "parsed", ![r].decision = WithDefault(r)]
    /\ UNCHANGED <<config, policy, check, controlMu>> /\ RulesFrame

RejectUpdate(r) ==
    /\ At(r, "rules", "parsed") /\ ~Compiles(req[r].rules)
    /\ Answer(r)
    /\ UNCHANGED <<config, policy, check, controlMu>> /\ RulesFrame

LockInstall(r) ==
    /\ At(r, "rules", "parsed") /\ Compiles(req[r].rules) /\ controlMu = Free
    /\ controlMu' = r
    /\ Goto(r, "locked")
    /\ UNCHANGED <<config, policy, check>> /\ RulesFrame

SwitchPolicy(r) ==
    /\ At(r, "rules", "locked") /\ objs = "open"
    /\ policy' = Compile(req[r].rules, req[r].decision)
    /\ check' = [rules |-> req[r].rules, decision |-> req[r].decision]
    /\ req' = [req EXCEPT ![r].stage = "switched", ![r].done = TRUE]
    /\ UNCHANGED <<config, controlMu>> /\ RulesFrame

\* /proc cannot be listed or a map cannot be written, or the maps are closed.
SwitchFails(r) ==
    /\ At(r, "rules", "locked")
    /\ Goto(r, "switched")
    /\ UNCHANGED <<config, policy, check, controlMu>> /\ RulesFrame

SetConfig(r) == config' = [rules |-> req[r].rules, decision |-> req[r].decision]

\* r is answered; the other updates have seen the mark that is now in force.
AnswerAndWitness(r) ==
    req' = [q \in Req |-> IF q = r THEN NoRequest
                          ELSE IF req[q].kind = "rules"
                               THEN [req[q] EXCEPT !.seen = @ \cup {config'.decision}]
                               ELSE req[q]]

\* Mutant: config is assigned whatever SetKernelPolicy returned.
AssignAlways(r) ==
    /\ At(r, "rules", "switched")
    /\ SetConfig(r) /\ AnswerAndWitness(r)
    /\ controlMu' = Free
    /\ UNCHANGED <<policy, check>> /\ RulesFrame

\* Mutant: the error is answered before the lock is given back.
AssignReturnsEarly(r) ==
    /\ At(r, "rules", "switched")
    /\ IF req[r].done THEN SetConfig(r) /\ controlMu' = Free ELSE UNCHANGED <<config, controlMu>>
    /\ AnswerAndWitness(r)
    /\ UNCHANGED <<policy, check>> /\ RulesFrame

Assign(r) ==
    /\ At(r, "rules", "switched")
    /\ IF req[r].done THEN SetConfig(r) ELSE UNCHANGED config
    /\ AnswerAndWitness(r)
    /\ controlMu' = Free
    /\ UNCHANGED <<policy, check>> /\ RulesFrame

-----------------------------------------------------------------------------
(* GET /state: daemonControlState, under controlMu *)

GetState(r) == Arrive(r, [NoRequest EXCEPT !.kind = "state"])

StateFrame == RulesFrame /\ UNCHANGED <<config, policy, check>>

LockState(r) ==
    /\ At(r, "state", "start") /\ controlMu = Free
    /\ controlMu' = r
    /\ Goto(r, "locked")
    /\ StateFrame

\* GrabProcessMapState: the pinned map can be opened as long as there is one.
GrabMap(r) ==
    /\ At(r, "state", "locked") /\ objs = "open"
    /\ Goto(r, "pinned")
    /\ UNCHANGED controlMu /\ StateFrame

GrabFails(r) ==
    /\ At(r, "state", "locked")
    /\ controlMu' = Free /\ Answer(r)
    /\ StateFrame

Names(p) == {c \in Comm : p.rules[c] # NoMatch}

\* Mutant: the handler has a copy of config from before the first update.
ReadPolicyWithOldConfig(r) ==
    /\ At(r, "state", "pinned")
    /\ req' = [req EXCEPT ![r].stage = "reported",
                          ![r].report = [mode |-> policy.mode, names |-> Names(policy),
                                         config |-> [rules |-> InitRules, decision |-> InitDecision]]]
    /\ UNCHANGED controlMu /\ StateFrame

\* KernelPolicyState, and the config whose compiled lists go with it.
ReadPolicy(r) ==
    /\ At(r, "state", "pinned")
    /\ req' = [req EXCEPT ![r].stage = "reported",
                          ![r].report = [mode |-> policy.mode, names |-> Names(policy),
                                         config |-> config]]
    /\ UNCHANGED controlMu /\ StateFrame

ReportState(r) ==
    /\ At(r, "state", "reported")
    /\ controlMu' = Free /\ Answer(r)
    /\ StateFrame

-----------------------------------------------------------------------------
(* POST and DELETE /multirules: multiRuleManager and ForceProcessTraversal *)

RuleFrame == UNCHANGED <<dvars, config, policy, check, controlMu, serving, arrived>>

PostRule(r) == \E rs \in Bodies : Arrive(r, [NoRequest EXCEPT !.kind = "post", !.rules = rs])

DeleteRule(r) ==
    \E id \in 1..nextID : Arrive(r, [NoRequest EXCEPT !.kind = "delete", !.id = id])

\* Register: rules that do not parse are refused.
RegisterRefused(r) ==
    /\ At(r, "post", "start") /\ ~Parses(req[r].rules)
    /\ Answer(r)
    /\ UNCHANGED <<tracker, listed, nextID, overtaken>> /\ RuleFrame

\* Register, up to the return of Tracker.RegisterRule.
RegisterRule(r) ==
    /\ At(r, "post", "start") /\ Parses(req[r].rules)
    /\ tracker' = tracker \cup {nextID} /\ nextID' = nextID + 1
    /\ req' = [req EXCEPT ![r].stage = "registered", ![r].id = nextID,
                          ![r].rules = InitRules]
    /\ UNCHANGED <<listed, overtaken>> /\ RuleFrame

ListRule(r) ==
    /\ At(r, "post", "registered")
    /\ listed' = listed \cup {req[r].id}
    /\ Goto(r, "traverse")
    /\ UNCHANGED <<tracker, nextID, overtaken>> /\ RuleFrame

TraverseOK(r) ==
    /\ req[r].stage = "traverse" /\ objs = "open"
    /\ Answer(r)
    /\ UNCHANGED <<tracker, listed, nextID, overtaken>> /\ RuleFrame

\* POST takes the rule back, DELETE does not.
TraverseFails(r) ==
    /\ req[r].stage = "traverse"
    /\ IF req[r].kind = "post" THEN Goto(r, "undo") ELSE Answer(r)
    /\ UNCHANGED <<tracker, listed, nextID, overtaken>> /\ RuleFrame

Unregistering(r) == At(r, "delete", "start") \/ At(r, "post", "undo")

\* Unregister: an ID that the tracker does not know.
UnregisterUnknown(r) ==
    /\ Unregistering(r) /\ req[r].id \notin tracker
    /\ Answer(r)
    /\ UNCHANGED <<tracker, listed, nextID, overtaken>> /\ RuleFrame

UnregisterRule(r) ==
    /\ Unregistering(r) /\ req[r].id \in tracker
    /\ tracker' = tracker \ {req[r].id}
    /\ overtaken' = IF req[r].id \in listed THEN overtaken ELSE overtaken \cup {req[r].id}
    /\ Goto(r, "unlist")
    /\ UNCHANGED <<listed, nextID>> /\ RuleFrame

\* Mutant: the manager's own map is forgotten.
UnlistNothing(r) ==
    /\ req[r].stage = "unlist"
    /\ IF req[r].kind = "delete" THEN Goto(r, "traverse") ELSE Answer(r)
    /\ UNCHANGED <<tracker, listed, nextID, overtaken>> /\ RuleFrame

UnlistRule(r) ==
    /\ req[r].stage = "unlist"
    /\ listed' = listed \ {req[r].id}
    /\ IF req[r].kind = "delete" THEN Goto(r, "traverse") ELSE Answer(r)
    /\ UNCHANGED <<tracker, nextID, overtaken>> /\ RuleFrame

-----------------------------------------------------------------------------
(* main: a signal calls Stop; the server is shut down afterwards *)

Shutdown ==
    /\ stop = "returned" /\ serving
    /\ serving' = FALSE
    /\ UNCHANGED <<dvars, config, policy, check, controlMu, req, tracker, listed, nextID,
                   arrived, overtaken>>

StopStep == (LoopStep \/ StopReceives \/ StopReturn) /\ UNCHANGED cvars

NewRequest(r) == PostRules(r) \/ GetState(r) \/ PostRule(r) \/ DeleteRule(r)

\* Steps that wait for controlMu, and steps that do not.
LockStep(r) == ReadDefaults(r) \/ LockInstall(r) \/ LockState(r)
ServeStep(r) ==
    \/ RejectUpdate(r) \/ SwitchPolicy(r) \/ SwitchFails(r) \/ Assign(r)
    \/ GrabMap(r) \/ GrabFails(r) \/ ReadPolicy(r) \/ ReportState(r)
    \/ RegisterRefused(r) \/ RegisterRule(r) \/ ListRule(r) \/ TraverseOK(r)
    \/ TraverseFails(r) \/ UnregisterUnknown(r) \/ UnregisterRule(r) \/ UnlistRule(r)

Next ==
    \/ \E r \in Req : NewRequest(r) \/ LockStep(r) \/ ServeStep(r)
    \/ (CallStop /\ UNCHANGED cvars) \/ StopStep \/ Shutdown

Spec == Init /\ [][Next]_vars

(* Some goroutine that can run does.  With finitely many requests nothing    *)
(* more is needed, neither of the scheduler nor of the mutex.                *)
FairSpec ==
    /\ Spec
    /\ WF_vars(\E r \in Req : LockStep(r) \/ ServeStep(r))
    /\ WF_vars(StopStep)

-----------------------------------------------------------------------------
(* The policy that the daemon enforces is the one of `config', and so is its *)
(* check, whenever nobody is inside a critical section of controlMu: neither *)
(* concurrent updates, nor one that fails, nor Stop separate them.           *)
PolicyMatchesConfig ==
    controlMu = Free => check = config /\ policy = Compile(config.rules, config.decision)

(* The exec program and userspace take the same decisions: what main has     *)
(* compiled and installed honours the contract of SetKernelPolicy.           *)
PolicyAgrees == Agree(policy, check.rules, check.decision)

(* GET /state shows one state: mode and rule count, which come from the      *)
(* daemon, belong to the rules and promoted names, which come from config.   *)
ReportConsistent ==
    \A r \in Req : At(r, "state", "reported") =>
        LET t == req[r].report
            p == Compile(t.config.rules, t.config.decision)
        IN  t.mode = p.mode /\ t.names = Names(p)

(* An update that names no mark installs one that was in force at some time  *)
(* since the request came in, never an older one.  (It may undo a concurrent *)
(* change of the mark.)                                                      *)
DefaultsFresh ==
    \A r \in Req : req[r].kind = "rules" /\ req[r].stage # "start" /\ req[r].given = NoDecision =>
        req[r].decision \in req[r].seen

(* The list of multirules and the tracker agree but for what is in progress: *)
(* a rule that is tracked and not listed is about to be listed; one that is  *)
(* listed and not tracked is about to be taken off the list, or a DELETE     *)
(* came between its registration and its listing.                            *)
ManagerAgrees ==
    /\ \A id \in tracker \ listed : \E r \in Req : At(r, "post", "registered") /\ req[r].id = id
    /\ \A id \in listed \ tracker :
          id \in overtaken \/ \E r \in Req : req[r].stage = "unlist" /\ req[r].id = id

(* Every request is answered, before, during and after Stop: after the last  *)
(* one has come in the server comes to rest.                                 *)
RequestsAnswered == []<>(\A r \in Req : req[r].kind = "none")
=============================================================================
