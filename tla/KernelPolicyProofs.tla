------------------------- MODULE KernelPolicyProofs -------------------------
(***************************************************************************)
(* The kernel-policy transaction is correct for every number of rules,     *)
(* generations and exec programs, whichever Put or Delete fails.           *)
(***************************************************************************)
EXTENDS KernelPolicy, FiniteSetTheorems, TLAPS

Known == Policies \cup {Default}

(* What is in force is what marker believes: its generation is the active   *)
(* one, except that none is before the first switch.                        *)
ActiveInv ==
    /\ active.generation \in {0, generation}
    /\ active.mode = kernelPolicy.mode
    /\ active.generation = 0 => kernelPolicy = Default
    /\ generation # 0 /\ generation <= policyGeneration
    /\ kernelPolicy \in Known
    /\ \A c \in Comm : commRules[<<generation, c>>] = kernelPolicy.rules[c]
    /\ \A c \in Comm : commRules[<<0, c>>] = NoMatch

(* A generation that was never reserved has no rules.                       *)
FreshInv == \A k \in RuleKey : k[1] > policyGeneration => commRules[k] = NoMatch

(* A transaction fills a generation of its own, and deletes only elsewhere. *)
TxInv ==
    /\ pc # "idle" => tx.policy \in Known
    /\ pc = "cleanBefore" => tx.keys = {}
    /\ Deleting => \A k \in tx.todo : k[1] # generation
    /\ pc = "rollback" => tx.todo \subseteq tx.keys
    /\ pc = "populate" =>
         /\ tx.generation = policyGeneration /\ generation < tx.generation
         /\ tx.todo \cup tx.keys = KeysOf(tx.policy, tx.generation)
         /\ \A k \in RuleKey : k[1] = tx.generation =>
              commRules[k] = IF k \in tx.keys THEN tx.policy.rules[k[2]] ELSE NoMatch

(* Everything stored is tracked.                                            *)
LeakInv ==
    Stored \subseteq installed \cup (CASE pc = "populate" -> tx.keys
                                       [] pc = "rollback" -> tx.todo
                                       [] OTHER -> {})

(* The key that an exec program built names a generation that was active,   *)
(* and holds that generation's answer until it is deleted.                  *)
ReaderInv ==
    /\ active.generation # 0 => history[active.generation] = kernelPolicy
    /\ \A r \in Exec : exec[r].stage # "idle" =>
         LET g == exec[r].generation
             c == exec[r].comm
         IN  /\ g # 0 /\ g <= active.generation
             /\ commRules[<<g, c>>] \in {history[g].rules[c], NoMatch}
             /\ exec[r].stage # "key" =>
                  \/ exec[r].rule = history[g].rules[c]
                  \/ exec[r].rule = NoMatch /\ g # active.generation

Inv == TypeOK /\ ActiveInv /\ FreshInv /\ TxInv /\ LeakInv

(* NoTransaction and the policies are well typed. *)
LEMMA Types ==
    /\ Known \subseteq Policy
    /\ NoTransaction \in Transaction
    /\ 0 \in Generation /\ 1 \in Generation
    /\ Generation \subseteq Nat
BY KernelPolicyAssumption
   DEF Known, Policy, Default, Mode, RuleTable, NoRules, NoTransaction, Transaction,
       Generation

(* The deletions of a transaction stay away from the active generation. *)
LEMMA InactiveFacts == TypeOK => Inactive \subseteq RuleKey /\ \A k \in Inactive : k[1] # generation
BY DEF TypeOK, Inactive

(* The initial state of NewDaemon satisfies the inductive invariant. *)
LEMMA InvInit == Init => Inv /\ ReaderInv
<1> SUFFICES ASSUME Init PROVE Inv /\ ReaderInv
  OBVIOUS
<1> USE KernelPolicyAssumption, Types
<1>1. TypeOK
  BY DEF Init, TypeOK, Known, Mode, PC, Policy
<1>2. ActiveInv
  BY DEF Init, ActiveInv, Known, Default, NoRules, RuleKey
<1>3. FreshInv /\ TxInv /\ LeakInv
  BY DEF Init, FreshInv, TxInv, LeakInv, Stored, Deleting
<1>4. ReaderInv
  BY DEF Init, ReaderInv
<1> QED BY <1>1, <1>2, <1>3, <1>4 DEF Inv

(* Every step of the transaction or of an exec program keeps the types. *)
LEMMA TypeStep == TypeOK /\ [Next]_vars => TypeOK'
<1> SUFFICES ASSUME TypeOK, [Next]_vars PROVE TypeOK'
  OBVIOUS
<1> USE KernelPolicyAssumption, Types DEF TypeOK
<1>1. CASE \E p \in Known \cup {kernelPolicy} : Begin(p)
  BY <1>1, InactiveFacts DEF Begin, PC, Transaction, NoTransaction
<1>2. CASE \E k \in RuleKey : DeleteRule(k) \/ DeleteFails(k)
  BY <1>2 DEF DeleteRule, DeleteFails, Transaction
<1>3. CASE \E k \in RuleKey : PutRule(k)
  <2> PICK k \in RuleKey : PutRule(k)
    BY <1>3
  <2>1. tx.policy.rules[k[2]] \in Decision \cup {NoMatch}
    BY DEF Transaction, Policy, RuleTable, RuleKey
  <2> QED BY <2>1 DEF PutRule, Transaction
<1>4. CASE Reserve
  <2> PICK next \in NextPolicyGeneration(Cursor) :
         /\ policyGeneration' = next
         /\ tx' = [tx EXCEPT !.generation = next, !.todo = KeysOf(tx.policy, next)]
    BY <1>4 DEF Reserve
  <2>1. next \in Generation
    BY DEF NextPolicyGeneration, Cursor, Generation
  <2>2. KeysOf(tx.policy, next) \subseteq RuleKey
    BY DEF KeysOf
  <2> QED BY <1>4, <2>1, <2>2 DEF Reserve, Transaction, PC
<1>5. CASE Exhausted \/ Return
  BY <1>5 DEF Exhausted, Return, PC
<1>6. CASE PutFails \/ ActivateFails
  BY <1>6 DEF PutFails, ActivateFails, Rollback, Transaction, PC
<1>7. CASE Activate
  BY <1>7 DEF Activate, Transaction, Policy, PC
<1>8. CASE Traversed
  BY <1>8, InactiveFacts DEF Traversed, Transaction, PC
<1>9. CASE ExecNext
  <2> PICK r \in Exec : \/ \E c \in Comm : ReadPolicy(r, c)
                        \/ LookupRule(r) \/ Decide(r) \/ ExecReturns(r)
    BY <1>9 DEF ExecNext
  <2> UNCHANGED mapvars
    BY DEF ReadPolicy, LookupRule, Decide, ExecReturns
  <2>1. ASSUME exec' \in [Exec -> Reader] PROVE TypeOK'
    BY <2>1 DEF mapvars
  <2>2. CASE \E c \in Comm : ReadPolicy(r, c)
    <3> PICK c \in Comm : ReadPolicy(r, c)
      BY <2>2
    <3>1. [exec[r] EXCEPT !.stage = "key", !.comm = c, !.generation = active.generation]
            \in Reader
      BY DEF Reader
    <3> QED BY <2>1, <3>1 DEF ReadPolicy
  <2>3. CASE LookupRule(r)
    <3>1. commRules[<<exec[r].generation, exec[r].comm>>] \in Decision \cup {NoMatch}
      BY DEF Reader, RuleKey
    <3>2. [exec[r] EXCEPT !.stage = "rule",
                          !.rule = commRules[<<exec[r].generation, exec[r].comm>>]] \in Reader
      BY <3>1 DEF Reader
    <3> QED BY <2>1, <2>3, <3>2 DEF LookupRule
  <2>4. CASE Decide(r)
    <3>1. [exec[r] EXCEPT !.stage = "done", !.stamp = active.generation,
                          !.verdict = Verdict(exec[r].rule)] \in Reader
      BY DEF Reader, Verdict
    <3> QED BY <2>1, <2>4, <3>1 DEF Decide
  <2>5. CASE ExecReturns(r)
    <3>1. [exec[r] EXCEPT !.stage = "idle", !.generation = 0, !.rule = NoMatch,
                          !.stamp = 0, !.verdict = "none"] \in Reader
      BY DEF Reader
    <3> QED BY <2>1, <2>5, <3>1 DEF ExecReturns
  <2> QED BY <2>2, <2>3, <2>4, <2>5
<1>10. CASE UNCHANGED vars
  BY <1>10 DEF vars, mapvars
<1> QED BY <1>1, <1>2, <1>3, <1>4, <1>5, <1>6, <1>7, <1>8, <1>9, <1>10
        DEF Next, TxNext, Bump, Known

-----------------------------------------------------------------------------
(* Every step of the transaction keeps the inductive invariant; exec        *)
(* programs write nothing that it mentions.                                 *)
LEMMA InvStep == Inv /\ [Next]_vars => Inv'
<1> SUFFICES ASSUME Inv, [Next]_vars PROVE ActiveInv' /\ FreshInv' /\ TxInv' /\ LeakInv'
  BY TypeStep DEF Inv
<1> TypeOK /\ ActiveInv /\ FreshInv /\ TxInv /\ LeakInv
  BY DEF Inv
<1> TypeOK'
  BY TypeStep
<1> USE KernelPolicyAssumption, Types
<1>1. CASE \E p \in Policies \cup {kernelPolicy} : Begin(p)
  <2> PICK p \in Policies \cup {kernelPolicy} : Begin(p)
    BY <1>1
  <2>1. p \in Known
    BY DEF ActiveInv, Known
  <2>2. ActiveInv' /\ FreshInv'
    BY DEF Begin, ActiveInv, FreshInv
  <2>3. TxInv'
    BY <2>1, InactiveFacts DEF Begin, TxInv, NoTransaction, Deleting
  <2>4. LeakInv'
    BY DEF Begin, LeakInv, Stored
  <2> QED BY <2>2, <2>3, <2>4
<1>2. CASE \E k \in RuleKey : DeleteRule(k)
  <2> PICK k \in RuleKey : DeleteRule(k)
    BY <1>2
  <2>1. k[1] # generation
    BY DEF DeleteRule, TxInv
  <2>2. ActiveInv' /\ FreshInv'
    BY <2>1 DEF DeleteRule, ActiveInv, FreshInv, TypeOK, RuleKey
  <2>3. TxInv'
    BY DEF DeleteRule, TxInv, Deleting, TypeOK, Transaction
  <2>4. LeakInv'
    BY DEF DeleteRule, LeakInv, Stored, Deleting, TypeOK, Transaction
  <2> QED BY <2>2, <2>3, <2>4
<1>3. CASE \E k \in RuleKey : DeleteFails(k)
  <2> PICK k \in RuleKey : DeleteFails(k)
    BY <1>3
  <2>1. ActiveInv' /\ FreshInv'
    BY DEF DeleteFails, ActiveInv, FreshInv
  <2>2. TxInv'
    BY DEF DeleteFails, TxInv, Deleting, TypeOK, Transaction
  <2>3. LeakInv'
    BY DEF DeleteFails, LeakInv, Stored, Deleting, TypeOK, Transaction
  <2> QED BY <2>1, <2>2, <2>3
<1>4. CASE Reserve
  <2> PICK next \in NextPolicyGeneration(Cursor) :
         /\ policyGeneration' = next
         /\ tx' = [tx EXCEPT !.generation = next, !.todo = KeysOf(tx.policy, next)]
    BY <1>4 DEF Reserve
  <2>1. next \in Generation /\ next > policyGeneration /\ next > generation
    BY DEF NextPolicyGeneration, Cursor, Generation, TypeOK
  <2>2. ActiveInv' /\ FreshInv'
    BY <1>4, <2>1 DEF Reserve, ActiveInv, FreshInv, TypeOK, RuleKey, Generation
  <2>3. TxInv'
    BY <1>4, <2>1 DEF Reserve, TxInv, FreshInv, Deleting, TypeOK, Transaction
  <2>4. LeakInv'
    BY <1>4 DEF Reserve, LeakInv, Stored
  <2> QED BY <2>2, <2>3, <2>4
<1>5. CASE \E k \in RuleKey : PutRule(k)
  <2> PICK k \in RuleKey : PutRule(k)
    BY <1>5
  <2>1. k[1] = tx.generation /\ tx.generation = policyGeneration /\ generation < k[1]
    BY DEF PutRule, TxInv, KeysOf
  <2>2. ActiveInv' /\ FreshInv'
    BY <2>1 DEF PutRule, ActiveInv, FreshInv, TypeOK, RuleKey, Generation
  <2>3. TxInv'
    BY <2>1 DEF PutRule, TxInv, Deleting, TypeOK, Transaction
  <2>4. LeakInv'
    BY DEF PutRule, LeakInv, Stored, TypeOK, Transaction
  <2> QED BY <2>2, <2>3, <2>4
<1>6. CASE PutFails \/ ActivateFails
  <2>1. ActiveInv' /\ FreshInv'
    BY <1>6 DEF PutFails, ActivateFails, Rollback, ActiveInv, FreshInv
  <2>2. TxInv'
    BY <1>6 DEF PutFails, ActivateFails, Rollback, TxInv, Deleting, KeysOf, TypeOK,
                Transaction
  <2>3. LeakInv'
    BY <1>6 DEF PutFails, ActivateFails, Rollback, LeakInv, Stored, TypeOK, Transaction
  <2> QED BY <2>1, <2>2, <2>3
<1>7. CASE Activate
  <2> USE <1>7 DEF Activate
  <2>1. tx.generation = policyGeneration /\ generation < tx.generation /\ tx.policy \in Known
    BY DEF TxInv
  <2>2. \A c \in Comm : commRules[<<tx.generation, c>>] = tx.policy.rules[c]
    BY DEF TxInv, KeysOf, TypeOK, Transaction, RuleKey
  <2>3. ActiveInv'
    BY <2>1, <2>2 DEF ActiveInv, TypeOK, Generation
  <2>4. FreshInv' /\ TxInv'
    BY DEF FreshInv, TxInv, Deleting
  <2>5. LeakInv'
    BY DEF LeakInv, Stored
  <2> QED BY <2>3, <2>4, <2>5
<1>8. CASE Traversed
  <2>1. ActiveInv' /\ FreshInv'
    BY <1>8 DEF Traversed, ActiveInv, FreshInv
  <2>2. TxInv'
    BY <1>8, InactiveFacts DEF Traversed, TxInv, Deleting, TypeOK, Transaction
  <2>3. LeakInv'
    BY <1>8 DEF Traversed, LeakInv, Stored
  <2> QED BY <2>1, <2>2, <2>3
<1>9. CASE Exhausted \/ Return
  <2>1. ActiveInv' /\ FreshInv'
    BY <1>9 DEF Exhausted, Return, ActiveInv, FreshInv
  <2>2. TxInv' /\ LeakInv'
    BY <1>9 DEF Exhausted, Return, TxInv, Deleting, LeakInv, Stored
  <2> QED BY <2>1, <2>2
<1>10. CASE ExecNext \/ UNCHANGED vars
  <2>1. UNCHANGED mapvars
    BY <1>10 DEF ExecNext, ReadPolicy, LookupRule, Decide, ExecReturns, vars
  <2> QED BY <2>1 DEF mapvars, ActiveInv, FreshInv, TxInv, Deleting, LeakInv, Stored
<1> QED BY <1>1, <1>2, <1>3, <1>4, <1>5, <1>6, <1>7, <1>8, <1>9, <1>10
        DEF Next, TxNext, Bump

-----------------------------------------------------------------------------
(* A switch, a deletion or another exec never falsifies what an exec        *)
(* program has in its hands.                                                *)
LEMMA ReaderStep == Inv /\ ReaderInv /\ [Next]_vars => ReaderInv'
<1> SUFFICES ASSUME Inv, ReaderInv, [Next]_vars PROVE ReaderInv'
  OBVIOUS
<1> TypeOK /\ ActiveInv /\ TxInv
  BY DEF Inv
<1> USE KernelPolicyAssumption, Types
<1>1. ASSUME NEW r \in Exec
      PROVE  /\ exec[r] \in Reader /\ exec[r].generation \in Generation
             /\ exec[r].comm \in Comm
             /\ <<exec[r].generation, exec[r].comm>> \in RuleKey
  BY DEF TypeOK, Reader, RuleKey
<1>2. CASE \E k \in RuleKey : DeleteRule(k)
  <2> PICK k \in RuleKey : DeleteRule(k)
    BY <1>2
  <2> QED BY <1>1 DEF DeleteRule, ReaderInv, TypeOK
<1>3. CASE \E k \in RuleKey : PutRule(k)
  <2> PICK k \in RuleKey : PutRule(k)
    BY <1>3
  <2>1. k[1] = tx.generation /\ generation < k[1]
    BY DEF PutRule, TxInv, KeysOf
  <2>2. \A r \in Exec : exec[r].stage # "idle" => <<exec[r].generation, exec[r].comm>> # k
    BY <1>1, <2>1 DEF ReaderInv, ActiveInv, TypeOK, Generation
  <2> QED BY <1>1, <2>2 DEF PutRule, ReaderInv, TypeOK
<1>4. CASE Activate
  <2>1. tx.generation \in Generation /\ active.generation < tx.generation
    BY <1>4 DEF Activate, TxInv, ActiveInv, TypeOK, Transaction, Generation
  <2>2. history'[tx.generation] = kernelPolicy'
    BY <1>4, <2>1 DEF Activate, TypeOK
  <2>3. \A r \in Exec : exec[r].stage # "idle" => /\ exec[r].generation # tx.generation
                                                  /\ exec[r].generation < tx.generation
    <3> SUFFICES ASSUME NEW r \in Exec, exec[r].stage # "idle"
                 PROVE  /\ exec[r].generation # tx.generation
                        /\ exec[r].generation < tx.generation
      OBVIOUS
    <3>1. exec[r].generation <= active.generation
      BY DEF ReaderInv
    <3>2. exec[r].generation \in Nat /\ active.generation \in Nat /\ tx.generation \in Nat
      BY <1>1, <2>1 DEF TypeOK
    <3> QED BY <2>1, <3>1, <3>2
  <2>4. \A r \in Exec : exec[r].stage # "idle" =>
          history'[exec[r].generation] = history[exec[r].generation]
    BY <1>1, <1>4, <2>3 DEF Activate, TypeOK
  <2> QED BY <1>1, <1>4, <2>1, <2>2, <2>3, <2>4 DEF Activate, ReaderInv, Generation
<1>5. CASE UNCHANGED <<commRules, active, kernelPolicy, history, exec>>
  BY <1>5 DEF ReaderInv
<1>6. CASE ExecNext
  <2> PICK r \in Exec : \/ \E c \in Comm : ReadPolicy(r, c)
                        \/ LookupRule(r) \/ Decide(r) \/ ExecReturns(r)
    BY <1>6 DEF ExecNext
  <2>1. UNCHANGED <<commRules, active, kernelPolicy, history>>
    BY DEF ReadPolicy, LookupRule, Decide, ExecReturns, mapvars
  <2>2. \A q \in Exec \ {r} : exec'[q] = exec[q]
    <3>1. \E w : exec' = [exec EXCEPT ![r] = w]
      BY DEF ReadPolicy, LookupRule, Decide, ExecReturns
    <3> QED BY <3>1 DEF TypeOK
  <2>3. CASE \E c \in Comm : ReadPolicy(r, c)
    <3> PICK c \in Comm : ReadPolicy(r, c)
      BY <2>3
    <3>1. /\ exec'[r].stage = "key" /\ exec'[r].comm = c
          /\ exec'[r].generation = active.generation
      BY <1>1 DEF ReadPolicy, TypeOK, Reader
    <3>2. active.generation # 0 /\ active.generation = generation
      BY DEF ReadPolicy, ActiveInv
    <3>3. commRules[<<active.generation, c>>] = history[active.generation].rules[c]
      BY <3>2 DEF ActiveInv, ReaderInv
    <3> QED BY <2>1, <2>2, <3>1, <3>2, <3>3 DEF ReaderInv, TypeOK, Generation
  <2>4. CASE LookupRule(r)
    <3>1. /\ exec'[r].stage = "rule" /\ exec'[r].comm = exec[r].comm
          /\ exec'[r].generation = exec[r].generation
          /\ exec'[r].rule = commRules[<<exec[r].generation, exec[r].comm>>]
      BY <1>1, <2>4 DEF LookupRule, TypeOK, Reader
    <3>2. exec[r].stage # "idle"
      BY <2>4 DEF LookupRule
    <3>3. active.generation # 0 =>
            commRules[<<active.generation, exec[r].comm>>]
              = history[active.generation].rules[exec[r].comm]
      BY <1>1 DEF ActiveInv, ReaderInv
    <3> QED BY <2>1, <2>2, <3>1, <3>2, <3>3 DEF ReaderInv
  <2>5. CASE Decide(r)
    <3>1. /\ exec'[r].stage = "done" /\ exec'[r].comm = exec[r].comm
          /\ exec'[r].generation = exec[r].generation
          /\ exec'[r].rule = exec[r].rule
      BY <1>1, <2>5 DEF Decide, TypeOK, Reader
    <3>2. exec[r].stage = "rule"
      BY <2>5 DEF Decide
    <3> QED BY <2>1, <2>2, <3>1, <3>2 DEF ReaderInv
  <2>6. CASE ExecReturns(r)
    <3>1. exec'[r].stage = "idle"
      BY <1>1, <2>6 DEF ExecReturns, TypeOK, Reader
    <3> QED BY <2>1, <2>2, <3>1 DEF ReaderInv
  <2> QED BY <2>3, <2>4, <2>5, <2>6
<1> QED BY <1>2, <1>3, <1>4, <1>5, <1>6
        DEF Next, TxNext, Bump, Begin, DeleteFails, Reserve, Exhausted, PutFails,
            ActivateFails, Rollback, Traversed, Return, vars, mapvars

(* The inductive invariant holds always. *)
LEMMA Invariant == Spec => [](Inv /\ ReaderInv)
<1>1. Inv /\ ReaderInv /\ [Next]_vars => (Inv /\ ReaderInv)'
  BY InvStep, ReaderStep
<1> QED BY InvInit, <1>1, PTL DEF Spec

(* TypeOK: the transaction and the exec programs keep every variable in its *)
(* type.                                                                    *)
THEOREM TypeCorrect == Spec => []TypeOK
<1>1. Inv => TypeOK
  BY DEF Inv
<1> QED BY Invariant, <1>1, PTL

(* ActiveComplete: setKernelPolicyLocked never leaves active_policy naming  *)
(* a generation whose rules are not exactly those of the policy in force,   *)
(* whatever fails and however long the history of failures is.              *)
THEOREM ActivePolicyComplete == Spec => []ActiveComplete
<1>1. Inv => ActiveComplete
  <2> SUFFICES ASSUME Inv, active.generation # 0 PROVE ActiveComplete
    BY DEF ActiveComplete
  <2>1. active = [generation |-> generation, mode |-> kernelPolicy.mode]
    BY DEF Inv, ActiveInv, TypeOK
  <2> QED BY <2>1 DEF Inv, ActiveInv, ActiveComplete
<1> QED BY Invariant, <1>1, PTL

(* NoRuleLeaks: rememberUndeletedCommRules and the cleanups together keep   *)
(* track of every rule in the map.                                          *)
THEOREM RulesTracked == Spec => []NoRuleLeaks
<1>1. Inv => NoRuleLeaks
  <2> SUFFICES ASSUME Inv PROVE NoRuleLeaks
    OBVIOUS
  <2>1. CASE pc = "rollback"
    BY <2>1 DEF Inv, LeakInv, NoRuleLeaks, TxInv
  <2>2. CASE pc # "rollback"
    BY <2>2 DEF Inv, LeakInv, NoRuleLeaks
  <2> QED BY <2>1, <2>2
<1> QED BY Invariant, <1>1, PTL

(* LookupFaithful: the exec program's lookup in comm_rules answers for the  *)
(* generation it read, or misses because that generation was replaced.      *)
THEOREM LookupsFaithful == Spec => []LookupFaithful
<1>1. Inv /\ ReaderInv => LookupFaithful
  BY DEF ReaderInv, LookupFaithful
<1> QED BY Invariant, <1>1, PTL

-----------------------------------------------------------------------------
(* How full comm_rules gets *)

(* A rule of another generation than the active one is left over from a      *)
(* Delete that failed, or the transaction is about to deal with it.          *)
LeftOver(k) ==
    \/ k \in stuck
    \/ pc = "populate" /\ k \in tx.keys
    \/ pc \in {"rollback", "cleanAfter"} /\ k \in tx.todo
    \/ pc = "traverse"

FullnessInv ==
    /\ \A k \in Stored : k[1] = generation \/ LeftOver(k)
    /\ pc = "populate" => tx.todo \cap tx.keys = {}

(* A transaction leaves nothing behind but what it could not delete.         *)
LEMMA FullnessStep == Inv /\ FullnessInv /\ [Next]_vars => FullnessInv'
<1> SUFFICES ASSUME Inv, FullnessInv, [Next]_vars PROVE FullnessInv'
  OBVIOUS
<1> TypeOK /\ ActiveInv /\ TxInv /\ LeakInv
  BY DEF Inv
<1> USE DEF FullnessInv, LeftOver
<1>0. /\ commRules \in [RuleKey -> Decision \cup {NoMatch}]
      /\ tx \in Transaction /\ stuck \subseteq RuleKey
  BY DEF TypeOK
<1>1. CASE \E p \in Policies \cup {kernelPolicy} : Begin(p)
  BY <1>1 DEF Begin, Stored
<1>2. ASSUME NEW k \in RuleKey, DeleteRule(k) PROVE FullnessInv'
  BY <1>0, <1>2 DEF DeleteRule, Deleting, Stored, Transaction
<1>3. ASSUME NEW k \in RuleKey, DeleteFails(k) PROVE FullnessInv'
  BY <1>0, <1>3 DEF DeleteFails, Deleting, Stored, Transaction
<1>4. CASE Reserve
  <2>1. /\ pc = "cleanBefore" /\ pc' = "populate" /\ tx.keys = {} /\ tx'.keys = {}
        /\ UNCHANGED <<commRules, generation, stuck>>
    BY <1>0, <1>4 DEF Reserve, TxInv, Transaction
  <2> QED BY <2>1 DEF Stored
<1>5. ASSUME NEW k \in RuleKey, PutRule(k) PROVE FullnessInv'
  BY <1>0, <1>5 DEF PutRule, Stored, Transaction
<1>6. CASE PutFails \/ ActivateFails
  BY <1>0, <1>6 DEF PutFails, ActivateFails, Rollback, Stored, Transaction
<1>7. CASE Activate
  BY <1>7 DEF Activate
<1>8. CASE Traversed
  <2>1. /\ pc = "traverse" /\ pc' = "cleanAfter" /\ tx'.todo = Inactive
        /\ UNCHANGED <<commRules, generation>>
    BY <1>0, <1>8 DEF Traversed, Transaction
  <2>2. Stored \subseteq installed
    BY <2>1 DEF LeakInv
  <2> QED BY <2>1, <2>2 DEF Stored, Inactive
<1>9. CASE Exhausted \/ Return
  BY <1>9 DEF Exhausted, Return, Stored
<1>10. CASE ExecNext \/ UNCHANGED vars
  <2>1. UNCHANGED mapvars
    BY <1>10 DEF ExecNext, ReadPolicy, LookupRule, Decide, ExecReturns, vars
  <2> QED BY <2>1 DEF mapvars, Stored
<1> QED BY <1>1, <1>2, <1>3, <1>4, <1>5, <1>6, <1>7, <1>8, <1>9, <1>10
        DEF Next, TxNext, Bump

(* A policy has as many rule keys as rules, at most MaxKernelCommRules.      *)
LEMMA PolicySize ==
    ASSUME NEW p \in Known, NEW g \in Generation
    PROVE  IsFiniteSet(KeysOf(p, g)) /\ Cardinality(KeysOf(p, g)) \in 0..MaxRules
<1> DEFINE S == {c \in Comm : p.rules[c] # NoMatch}
           T == KeysOf(p, g)
           f == [c \in S |-> <<g, c>>]
<1>1. IsFiniteSet(S) /\ Cardinality(S) <= MaxRules /\ MaxRules \in Nat
  <2>1. CASE p \in Policies
    BY <2>1, PolicySizeAssumption
  <2>2. CASE p = Default
    <3>1. S = {}
      BY <2>2 DEF Default, NoRules
    <3> QED BY <3>1, FS_EmptySet, PolicySizeAssumption
  <2> QED BY <2>1, <2>2 DEF Known
<1>2. f \in Surjection(S, T)
  <2>1. \A c \in S : <<g, c>> \in T
    BY DEF KeysOf, RuleKey
  <2>2. \A k \in T : \E c \in S : f[c] = k
    <3> SUFFICES ASSUME NEW k \in T PROVE \E c \in S : f[c] = k
      OBVIOUS
    <3>1. k[2] \in S /\ k = <<g, k[2]>>
      BY DEF KeysOf, RuleKey
    <3> QED BY <3>1
  <2> QED BY <2>1, <2>2 DEF Surjection
<1>3. IsFiniteSet(T) /\ Cardinality(T) <= Cardinality(S)
  BY <1>1, <1>2, FS_Surjection
<1>4. Cardinality(T) \in Nat /\ Cardinality(S) \in Nat
  BY <1>1, <1>3, FS_CardinalityType
<1> QED BY <1>1, <1>3, <1>4

(* PopulateFits: two policies of the maximum size fit into comm_rules, so    *)
(* as long as every Delete works no Put finds the map full.                  *)
THEOREM MapLargeEnough == Spec => []PopulateFits
<1>1. Init => FullnessInv
  BY DEF Init, FullnessInv, Stored
<1>2. Spec => []FullnessInv
  BY <1>1, FullnessStep, Invariant, PTL DEF Spec
<1>3. ASSUME Inv, FullnessInv, pc = "populate", tx.todo # {}, stuck = {}
      PROVE  Cardinality(Stored) < 2 * MaxRules
  <2> DEFINE A == KeysOf(kernelPolicy, generation)
             B == KeysOf(tx.policy, tx.generation)
  <2>0. /\ TypeOK /\ ActiveInv /\ TxInv /\ generation \in Generation
        /\ tx.generation \in Generation /\ kernelPolicy \in Known /\ tx.policy \in Known
    BY <1>3 DEF Inv, TypeOK, ActiveInv, TxInv, Transaction
  <2>1. /\ IsFiniteSet(A) /\ Cardinality(A) \in 0..MaxRules
        /\ IsFiniteSet(B) /\ Cardinality(B) \in 0..MaxRules /\ MaxRules \in Nat
    BY <2>0, PolicySize, PolicySizeAssumption
  <2>2. Stored \subseteq A \cup tx.keys
    BY <1>3, <2>0 DEF FullnessInv, LeftOver, Stored, ActiveInv, KeysOf, RuleKey
  <2>3. tx.keys \subseteq B /\ tx.keys # B
    BY <1>3, <2>0 DEF FullnessInv, TxInv
  <2>4. /\ IsFiniteSet(tx.keys) /\ Cardinality(tx.keys) \in Nat
        /\ Cardinality(tx.keys) < Cardinality(B)
    <3>1. /\ IsFiniteSet(tx.keys) /\ Cardinality(tx.keys) <= Cardinality(B)
          /\ Cardinality(B) = Cardinality(tx.keys) => B = tx.keys
      BY <2>1, <2>3, FS_Subset
    <3>2. Cardinality(tx.keys) \in Nat
      BY <3>1, FS_CardinalityType
    <3> QED BY <2>1, <2>3, <3>1, <3>2
  <2>5. /\ IsFiniteSet(A \cup tx.keys) /\ Cardinality(A \cup tx.keys) \in Nat
        /\ Cardinality(A \cup tx.keys) <= Cardinality(A) + Cardinality(tx.keys)
    <3>1. /\ IsFiniteSet(A \cup tx.keys)
          /\ Cardinality(A \cup tx.keys)
               = Cardinality(A) + Cardinality(tx.keys) - Cardinality(A \cap tx.keys)
      BY <2>1, <2>4, FS_Union
    <3>2. IsFiniteSet(A \cap tx.keys)
      BY <2>1, FS_Subset
    <3>3. Cardinality(A \cap tx.keys) \in Nat /\ Cardinality(A \cup tx.keys) \in Nat
      BY <3>1, <3>2, FS_CardinalityType
    <3> QED BY <2>1, <2>4, <3>1, <3>3
  <2>6. Cardinality(Stored) \in Nat /\ Cardinality(Stored) <= Cardinality(A \cup tx.keys)
    <3>1. IsFiniteSet(Stored) /\ Cardinality(Stored) <= Cardinality(A \cup tx.keys)
      BY <2>2, <2>5, FS_Subset
    <3> QED BY <3>1, FS_CardinalityType
  <2> HIDE DEF A, B
  <2> QED BY <2>1, <2>4, <2>5, <2>6
<1>4. Inv /\ FullnessInv => PopulateFits
  BY <1>3 DEF PopulateFits
<1> QED BY <1>2, <1>4, Invariant, PTL

-----------------------------------------------------------------------------
(* PolicyIsRegister: to the exec program the two maps are one register that *)
(* changes atomically from one requested policy to the next, under a larger *)
(* generation.  Populating, rolling back and cleaning up are invisible.     *)
THEOREM PolicyRefinement == Spec => PolicyIsRegister
<1>1. Init => Register!RegisterInit
  <2> SUFFICES ASSUME Init PROVE InForce = Default /\ active.generation = 0
    BY DEF Register!RegisterInit
  <2>1. \A c \in Comm : commRules[<<0, c>>] = NoMatch
    BY Types DEF Init, RuleKey
  <2> QED BY <2>1 DEF Init, InForce, Default, NoRules
<1>2. Inv /\ [Next]_vars => [Register!RegisterNext]_<<InForce, active.generation>>
  <2> SUFFICES ASSUME Inv, [Next]_vars
               PROVE  [Register!RegisterNext]_<<InForce, active.generation>>
    OBVIOUS
  <2> TypeOK /\ ActiveInv /\ TxInv
    BY DEF Inv
  <2> TypeOK'
    BY TypeStep
  <2> USE KernelPolicyAssumption, Types
  <2>1. ASSUME active' = active,
               \A c \in Comm : commRules'[<<active.generation, c>>]
                                 = commRules[<<active.generation, c>>]
        PROVE  UNCHANGED <<InForce, active.generation>>
    BY <2>1 DEF InForce
  <2>2. CASE UNCHANGED <<commRules, active>>
    BY <2>1, <2>2
  <2>3. CASE \E k \in RuleKey : DeleteRule(k)
    <3> PICK k \in RuleKey : DeleteRule(k)
      BY <2>3
    <3>1. k[1] # generation
      BY DEF DeleteRule, TxInv
    <3>2. \A c \in Comm : commRules'[<<active.generation, c>>]
                             = commRules[<<active.generation, c>>]
      BY <3>1 DEF DeleteRule, ActiveInv, TypeOK, RuleKey
    <3> QED BY <2>1, <3>2 DEF DeleteRule
  <2>4. CASE \E k \in RuleKey : PutRule(k)
    <3> PICK k \in RuleKey : PutRule(k)
      BY <2>4
    <3>1. k[1] # generation /\ k[1] # 0
      BY DEF PutRule, TxInv, KeysOf, TypeOK, Generation
    <3>2. \A c \in Comm : commRules'[<<active.generation, c>>]
                             = commRules[<<active.generation, c>>]
      BY <3>1 DEF PutRule, ActiveInv, TypeOK, RuleKey
    <3> QED BY <2>1, <3>2 DEF PutRule
  <2>5. CASE Activate
    <3>1. tx.policy \in Known /\ tx.policy \in Policy /\ active.generation < tx.generation
      BY <2>5 DEF Activate, TxInv, ActiveInv, TypeOK, Transaction, Generation
    <3>2. \A c \in Comm : commRules[<<tx.generation, c>>] = tx.policy.rules[c]
      BY <2>5 DEF Activate, TxInv, KeysOf, TypeOK, Transaction, RuleKey
    <3>3. [c \in Comm |-> commRules[<<tx.generation, c>>]] = tx.policy.rules
      BY <3>1, <3>2 DEF Policy, RuleTable
    <3>4. InForce' = tx.policy
      BY <2>5, <3>1, <3>3 DEF Activate, InForce, Policy
    <3>5. Register!Install(tx.policy)
      BY <2>5, <3>1, <3>4 DEF Activate, Register!Install
    <3> QED BY <3>1, <3>5 DEF Register!RegisterNext, Known
  <2> QED BY <2>2, <2>3, <2>4, <2>5
          DEF Next, TxNext, ExecNext, Bump, Begin, DeleteFails, Reserve, Exhausted,
              PutFails, ActivateFails, Rollback, Traversed, Return, ReadPolicy,
              LookupRule, Decide, ExecReturns, vars, mapvars
<1> QED BY <1>1, <1>2, Invariant, PTL DEF Spec, PolicyIsRegister, Register!RegisterSpec
=============================================================================
