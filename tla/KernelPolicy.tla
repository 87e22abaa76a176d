---------------------------- MODULE KernelPolicy ----------------------------
(***************************************************************************)
(* The kernel-policy transaction (policy.go, setKernelPolicyLocked): it    *)
(* fills comm_rules with the rules of a new generation, switches           *)
(* active_policy to that generation and deletes the rules of the others.   *)
(* Each Put and Delete is a system call that may fail, and exec programs   *)
(* read the two maps between any two of them.                              *)
(*                                                                         *)
(* The caller holds marker.mu, so there is one transaction at a time.  A   *)
(* rule key is a generation and a command name; installedCommRules, a map  *)
(* from generations to key lists, is the set of its keys.                  *)
(***************************************************************************)
EXTENDS Naturals, FiniteSets

CONSTANTS
    Comm,           \* command names
    Decision,       \* what a rule says: a priority and a mark
    NoMatch,        \* no rule
    Policies,       \* the normalised policies that callers install
    MaxGeneration,  \* ^uint64(0)
    MaxRules,       \* MaxKernelCommRules
    Exec            \* exec programs that run at the same time

Mode == {"userspace-only", "positive-only", "authoritative"}
RuleTable == [Comm -> Decision \cup {NoMatch}]
NoRules == [c \in Comm |-> NoMatch]
Policy == [mode : Mode, rules : RuleTable]
Default == [mode |-> "userspace-only", rules |-> NoRules]

Generation == 0..MaxGeneration
RuleKey == Generation \X Comm

\* The keys under which generation g stores the rules of p.
KeysOf(p, g) == {k \in RuleKey : k[1] = g /\ p.rules[k[2]] # NoMatch}

ASSUME KernelPolicyAssumption ==
    /\ NoMatch \notin Decision
    /\ Policies \subseteq Policy
    /\ MaxGeneration \in Nat \ {0}

\* validateAndNormalizeKernelPolicy accepted the policies.
ASSUME PolicySizeAssumption ==
    /\ MaxRules \in Nat
    /\ \A p \in Policies : /\ IsFiniteSet({c \in Comm : p.rules[c] # NoMatch})
                           /\ Cardinality({c \in Comm : p.rules[c] # NoMatch}) <= MaxRules
                           /\ p.mode = "userspace-only" => p.rules = NoRules

VARIABLES
    commRules,          \* the map comm_rules
    active,             \* the map active_policy
    generation,         \* marker.generation
    policyGeneration,   \* marker.policyGeneration: the last one reserved
    kernelPolicy,       \* marker.kernelPolicy
    installed,          \* marker.installedCommRules
    pc,                 \* where the transaction is
    tx,                 \* its argument and local variables
    stuck,              \* history: stored keys whose last Delete failed
    history,            \* history: the policy that each generation activated
    exec                \* [Exec -> program in flight]

mapvars == <<commRules, active, generation, policyGeneration, kernelPolicy,
             installed, pc, tx, stuck, history>>
vars == <<mapvars, exec>>

PC == {"idle", "cleanBefore", "populate", "rollback", "traverse", "cleanAfter"}

Transaction == [policy : Policy, generation : Generation,
                todo : SUBSET RuleKey,    \* keys still to put or to delete
                keys : SUBSET RuleKey]    \* the keys put so far
NoTransaction == [policy |-> Default, generation |-> 0, todo |-> {}, keys |-> {}]

\* An exec program: the generation it built its rule key with, the rule it
\* found, the decision it took and the generation it stamped it with.
Reader == [stage : {"idle", "key", "rule", "done"}, comm : Comm,
           generation : Generation, rule : Decision \cup {NoMatch},
           stamp : Generation, verdict : {"none", "match", "miss"}]

TypeOK ==
    /\ commRules \in [RuleKey -> Decision \cup {NoMatch}]
    /\ active \in [generation : Generation, mode : Mode]
    /\ generation \in Generation
    /\ policyGeneration \in Generation
    /\ kernelPolicy \in Policy
    /\ installed \subseteq RuleKey
    /\ pc \in PC
    /\ tx \in Transaction
    /\ stuck \subseteq RuleKey
    /\ history \in [Generation -> Policy]
    /\ exec \in [Exec -> Reader]

\* NewDaemon: fresh maps, generation 1 in userspace only.
Init ==
    /\ commRules = [k \in RuleKey |-> NoMatch]
    /\ active = [generation |-> 0, mode |-> "userspace-only"]
    /\ generation = 1
    /\ policyGeneration = 1
    /\ kernelPolicy = Default
    /\ installed = {}
    /\ pc = "idle"
    /\ tx = NoTransaction
    /\ stuck = {}
    /\ history = [g \in Generation |-> Default]
    /\ exec \in [Exec -> {r \in Reader : /\ r.stage = "idle" /\ r.generation = 0
                                         /\ r.rule = NoMatch /\ r.stamp = 0 /\ r.verdict = "none"}]

Stored == {k \in RuleKey : commRules[k] # NoMatch}

-----------------------------------------------------------------------------
(* cleanupInactiveCommRulesLocked and deleteCommRuleKeys *)

\* Mutant: the reserved generation counts as the active one.
InactiveByReserved == {k \in installed : k[1] # policyGeneration}

\* Mutant: nothing is cleaned up.
InactiveNever == {}

Inactive == {k \in installed : k[1] # generation}

Deleting == pc \in {"cleanBefore", "rollback", "cleanAfter"}

\* A key that is not there (ErrKeyNotExist) counts as deleted.
DeleteRule(k) ==
    /\ Deleting /\ k \in tx.todo
    /\ commRules' = [commRules EXCEPT ![k] = NoMatch]
    /\ tx' = [tx EXCEPT !.todo = @ \ {k}]
    /\ installed' = installed \ {k}
    /\ stuck' = stuck \ {k}
    /\ UNCHANGED <<active, generation, policyGeneration, kernelPolicy, pc, history, exec>>

\* Mutant: a key whose rollback failed is forgotten.
DeleteFailsForgotten(k) ==
    /\ Deleting /\ k \in tx.todo
    /\ tx' = [tx EXCEPT !.todo = @ \ {k}]
    /\ stuck' = stuck \cup {k}
    /\ UNCHANGED <<commRules, active, generation, policyGeneration, kernelPolicy,
                   installed, pc, history, exec>>

\* A key that could not be deleted stays in installedCommRules, or enters it
\* (rememberUndeletedCommRules): the next cleanup tries again.
DeleteFails(k) ==
    /\ Deleting /\ k \in tx.todo
    /\ tx' = [tx EXCEPT !.todo = @ \ {k}]
    /\ installed' = installed \cup {k}
    /\ stuck' = stuck \cup {k}
    /\ UNCHANGED <<commRules, active, generation, policyGeneration, kernelPolicy, pc,
                   history, exec>>

-----------------------------------------------------------------------------
(* setKernelPolicyLocked *)

Begin(p) ==
    /\ pc = "idle"
    /\ pc' = "cleanBefore"
    /\ tx' = [NoTransaction EXCEPT !.policy = p, !.todo = Inactive]
    /\ UNCHANGED <<commRules, active, generation, policyGeneration, kernelPolicy,
                   installed, stuck, history, exec>>

\* ForceBumpGeneration calls it with the policy that is in force.
Bump == Begin(kernelPolicy)

\* Mutant: a generation that a failed transaction reserved is used again.
CursorOfActive == generation

Cursor == IF policyGeneration < generation THEN generation ELSE policyGeneration

\* Mutant: the counter wraps.
WrappingGeneration(current) ==
    IF current = MaxGeneration THEN {0} ELSE {current + 1}

\* Mutant: the end of the counter is not noticed.
UncheckedGeneration(current) == {current + 1}

\* nextPolicyGeneration: none is left after the last uint64.
NextPolicyGeneration(current) ==
    IF current = MaxGeneration THEN {} ELSE {current + 1}

\* Reserve the generation before the first map write.
Reserve ==
    /\ pc = "cleanBefore" /\ tx.todo = {}
    /\ \E next \in NextPolicyGeneration(Cursor) :
         /\ policyGeneration' = next
         /\ tx' = [tx EXCEPT !.generation = next, !.todo = KeysOf(tx.policy, next)]
    /\ pc' = "populate"
    /\ UNCHANGED <<commRules, active, generation, kernelPolicy, installed, stuck,
                   history, exec>>

Exhausted ==
    /\ pc = "cleanBefore" /\ tx.todo = {}
    /\ NextPolicyGeneration(Cursor) = {}
    /\ pc' = "idle" /\ tx' = NoTransaction
    /\ UNCHANGED <<commRules, active, generation, policyGeneration, kernelPolicy,
                   installed, stuck, history, exec>>

\* comm_rules has room for two policies of the maximum size.
PutRule(k) ==
    /\ pc = "populate" /\ k \in tx.todo
    /\ k \in Stored \/ Cardinality(Stored) < 2 * MaxRules
    /\ commRules' = [commRules EXCEPT ![k] = tx.policy.rules[k[2]]]
    /\ tx' = [tx EXCEPT !.todo = @ \ {k}, !.keys = @ \cup {k}]
    /\ UNCHANGED <<active, generation, policyGeneration, kernelPolicy, installed, pc,
                   stuck, history, exec>>

Rollback ==
    /\ pc' = "rollback"
    /\ tx' = [tx EXCEPT !.todo = tx.keys]
    /\ UNCHANGED <<commRules, active, generation, policyGeneration, kernelPolicy,
                   installed, stuck, history, exec>>

PutFails == pc = "populate" /\ tx.todo # {} /\ Rollback

\* active_policy is switched; generation and kernelPolicy go with it.
Activate ==
    /\ pc = "populate" /\ tx.todo = {}
    /\ active' = [generation |-> tx.generation, mode |-> tx.policy.mode]
    /\ generation' = tx.generation
    /\ kernelPolicy' = tx.policy
    /\ installed' = installed \cup tx.keys
    /\ history' = [history EXCEPT ![tx.generation] = tx.policy]
    /\ pc' = "traverse"
    /\ UNCHANGED <<commRules, policyGeneration, tx, stuck, exec>>

\* generation and kernelPolicy get their old values back.
ActivateFails == pc = "populate" /\ tx.todo = {} /\ Rollback

\* The traversal under the new policy (module Marker), whatever its outcome.
Traversed ==
    /\ pc = "traverse"
    /\ pc' = "cleanAfter"
    /\ tx' = [tx EXCEPT !.todo = Inactive, !.keys = {}]
    /\ UNCHANGED <<commRules, active, generation, policyGeneration, kernelPolicy,
                   installed, stuck, history, exec>>

Return ==
    /\ pc \in {"rollback", "cleanAfter"} /\ tx.todo = {}
    /\ pc' = "idle" /\ tx' = NoTransaction
    /\ UNCHANGED <<commRules, active, generation, policyGeneration, kernelPolicy,
                   installed, stuck, history, exec>>

-----------------------------------------------------------------------------
(* handle_sched_process_exec, as a reader of the two maps *)

\* The early exits (no policy, userspace-only) decide nothing.
ReadPolicy(r, c) ==
    /\ exec[r].stage = "idle"
    /\ active.generation # 0 /\ active.mode # "userspace-only"
    /\ exec' = [exec EXCEPT ![r] = [@ EXCEPT !.stage = "key", !.comm = c,
                                             !.generation = active.generation]]
    /\ UNCHANGED mapvars

LookupRule(r) ==
    /\ exec[r].stage = "key"
    /\ exec' = [exec EXCEPT ![r] = [@ EXCEPT !.stage = "rule",
                                  !.rule = commRules[<<exec[r].generation, exec[r].comm>>]]]
    /\ UNCHANGED mapvars

\* A rule decides, and in authoritative mode a miss does too.
Verdict(rule) == IF rule # NoMatch THEN "match"
                 ELSE IF active.mode = "authoritative" THEN "miss" ELSE "none"

\* `policy' points into the map: its mode and its generation are read again.
Decide(r) ==
    /\ exec[r].stage = "rule"
    /\ exec' = [exec EXCEPT ![r] = [@ EXCEPT !.stage = "done", !.stamp = active.generation,
                                  !.verdict = Verdict(exec[r].rule)]]
    /\ UNCHANGED mapvars

ExecReturns(r) ==
    /\ exec[r].stage = "done"
    /\ exec' = [exec EXCEPT ![r] = [@ EXCEPT !.stage = "idle", !.generation = 0,
                                  !.rule = NoMatch, !.stamp = 0, !.verdict = "none"]]
    /\ UNCHANGED mapvars

TxNext ==
    \/ Bump \/ \E p \in Policies : Begin(p)
    \/ \E k \in RuleKey : DeleteRule(k) \/ DeleteFails(k) \/ PutRule(k)
    \/ Reserve \/ Exhausted \/ PutFails \/ Activate \/ ActivateFails
    \/ Traversed \/ Return

ExecNext ==
    \E r \in Exec : \/ \E c \in Comm : ReadPolicy(r, c)
                    \/ LookupRule(r) \/ Decide(r) \/ ExecReturns(r)

Next == TxNext \/ ExecNext

Spec == Init /\ [][Next]_vars

-----------------------------------------------------------------------------
(* The generation that active_policy names is complete and holds nothing    *)
(* else: its rules are those of the policy that marker reports, whatever    *)
(* failed before.  A failed transaction whose rollback failed too leaves    *)
(* rules behind, but never under a generation that becomes active.          *)
ActiveComplete ==
    active.generation # 0 =>
        /\ active = [generation |-> generation, mode |-> kernelPolicy.mode]
        /\ \A c \in Comm : commRules[<<active.generation, c>>] = kernelPolicy.rules[c]

(* No rule leaks: whatever is stored is either known to the next cleanup or *)
(* in the hands of the transaction that is under way.                       *)
NoRuleLeaks ==
    Stored \subseteq installed \cup (IF pc \in {"populate", "rollback"} THEN tx.keys ELSE {})

(* The map is large enough: as long as every Delete works, populating a     *)
(* generation never finds it full.                                          *)
PopulateFits ==
    pc = "populate" /\ tx.todo # {} /\ stuck = {} => Cardinality(Stored) < 2 * MaxRules

(* What an exec finds in comm_rules is the answer of the policy of the      *)
(* generation in its key; a switch in between can only turn it into a miss. *)
LookupFaithful ==
    \A r \in Exec : exec[r].stage \in {"rule", "done"} =>
        \/ exec[r].rule = history[exec[r].generation].rules[exec[r].comm]
        \/ exec[r].rule = NoMatch /\ exec[r].generation # active.generation

(* The maps, seen as one register that holds a policy. *)
InForce == [mode |-> active.mode,
            rules |-> [c \in Comm |-> commRules[<<active.generation, c>>]]]

Register == INSTANCE PolicyRegister WITH
    Policies <- Policies \cup {Default}, current <- InForce, version <- active.generation

PolicyIsRegister == Register!RegisterSpec

(* An exec observes one complete generation: a decision that it stamps with *)
(* a generation is the one that generation's policy takes.                  *)
ExecSeesOneGeneration ==
    \A r \in Exec : exec[r].stage = "done" /\ exec[r].verdict # "none" =>
        exec[r].rule = history[exec[r].stamp].rules[exec[r].comm]
=============================================================================
