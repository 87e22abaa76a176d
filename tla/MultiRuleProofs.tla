-------------------------- MODULE MultiRuleProofs --------------------------
(***************************************************************************)
(* Proofs about the rule tracker, for any processes, PIDs and rules.       *)
(*                                                                         *)
(* The argument about RegisterRule is the usual one for a graph walk: the  *)
(* holders of the new ID are on the stack or were expanded, the children   *)
(* of an expanded key are holders, and every holder is reachable from a    *)
(* direct match.  When the stack is empty, the holders are closed.         *)
(***************************************************************************)
EXTENDS MultiRule, TLAPS

\* The walk of RegisterRule.
WalkInv ==
    pc = "propagate" =>
        /\ reg.id \in Registered
        /\ reg.roots \subseteq Holders(reg.id)
        /\ reg.stack \subseteq Holders(reg.id)
        /\ Holders(reg.id) \subseteq reg.stack \cup reg.seen
        /\ \A k \in reg.seen : Children(k) \subseteq Holders(reg.id)
        /\ Holders(reg.id) \subseteq Family(reg.roots)

Inv == TypeOK /\ NoGhostRules /\ MatchesHeld /\ LatestTracked /\ WalkInv

-----------------------------------------------------------------------------
(* Lemmas about the helpers *)

\* An entry of the tracker.
LEMMA EntryType ==
    ASSUME TypeOK, NEW k \in Tracked
    PROVE  processes[k] \in Process
BY DEF TypeOK, Tracked

\* Marking tracked processes changes nothing but who holds the ID.
LEMMA MarkFacts ==
    ASSUME TypeOK, NEW keys \in SUBSET Tracked, NEW id \in ID,
           processes' = Mark(keys, id)
    PROVE  /\ processes' \in [Key -> Process \cup {Untracked}]
           /\ Tracked' = Tracked
           /\ \A k \in Tracked :
                /\ processes'[k].info = processes[k].info
                /\ processes'[k].ids = processes[k].ids \cup (IF k \in keys THEN {id} ELSE {})
<1>1. ASSUME NEW k \in Key
      PROVE  /\ k \in Tracked => /\ processes'[k] \in Process
                                 /\ processes'[k].info = processes[k].info
                                 /\ processes'[k].ids = processes[k].ids \cup (IF k \in keys THEN {id} ELSE {})
             /\ k \notin Tracked => processes'[k] = Untracked
  <2>1. CASE k \in keys
    <3>1. processes[k] \in Process BY <2>1, EntryType
    <3>2. processes'[k] = [processes[k] EXCEPT !.ids = @ \cup {id}] BY <2>1 DEF Mark
    <3> QED BY <3>1, <3>2, <2>1 DEF Process
  <2>2. CASE k \notin keys
    <3>1. processes'[k] = processes[k] BY <2>2 DEF Mark
    <3>2. processes[k] \in Process \cup {Untracked} BY DEF TypeOK
    <3> QED BY <3>1, <3>2, <2>2 DEF Tracked
  <2> QED BY <2>1, <2>2
<1>2. processes' = [k \in Key |-> processes'[k]] BY DEF Mark
<1>3. processes' \in [Key -> Process \cup {Untracked}]
  <2>1. \A k \in Key : processes'[k] \in Process \cup {Untracked} BY <1>1
  <2> QED BY <1>2, <2>1
<1>4. Tracked' = Tracked
  <2>1. \A k \in Key : processes'[k] # Untracked <=> processes[k] # Untracked
    BY <1>1, MultiRuleAssumption DEF Tracked
  <2> QED BY <2>1 DEF Tracked
<1>5. Tracked \subseteq Key BY DEF Tracked
<1> QED BY <1>1, <1>3, <1>4, <1>5

\* What marking does to holders, children and matches.
LEMMA MarkHolders ==
    ASSUME TypeOK, NEW keys \in SUBSET Tracked, NEW id \in ID,
           processes' = Mark(keys, id), UNCHANGED latestPID
    PROVE  /\ Holders(id)' = Holders(id) \cup keys
           /\ \A k \in Key : Children(k)' = Children(k)
           /\ \A roots : Family(roots)' = Family(roots)
<1>1. /\ Tracked' = Tracked
      /\ \A k \in Tracked :
                /\ processes'[k].info = processes[k].info
                /\ processes'[k].ids = processes[k].ids \cup (IF k \in keys THEN {id} ELSE {})
  BY MarkFacts
<1>2. Holders(id)' = Holders(id) \cup keys BY <1>1 DEF Holders
<1>3. \A k : Children(k)' = Children(k) BY <1>1 DEF Children, Latest
<1>4. \A roots : Family(roots)' = Family(roots) BY <1>3 DEF Family, Closed
<1> QED BY <1>2, <1>3, <1>4

\* Steps that leave the tracker alone leave all of this alone.
LEMMA TrackerStutter ==
    ASSUME NoGhostRules, MatchesHeld, LatestTracked, WalkInv,
           UNCHANGED <<rules, processes, latestPID, pc, reg>>
    PROVE  NoGhostRules' /\ MatchesHeld' /\ LatestTracked' /\ WalkInv'
<1>1. Tracked' = Tracked /\ Registered' = Registered BY DEF Tracked, Registered
<1>2. NoGhostRules' BY <1>1 DEF NoGhostRules
<1>3. MatchesHeld' BY <1>1 DEF MatchesHeld, Matching
<1>4. LatestTracked' BY <1>1 DEF LatestTracked
<1>5. \A id : Holders(id)' = Holders(id) BY <1>1 DEF Holders
<1>6. \A k : Children(k)' = Children(k) BY <1>1 DEF Children, Latest
<1>7. \A roots : Family(roots)' = Family(roots) BY <1>6 DEF Family, Closed
<1>8. WalkInv' BY <1>1, <1>5, <1>6, <1>7 DEF WalkInv
<1> QED BY <1>2, <1>3, <1>4, <1>8

-----------------------------------------------------------------------------
(* Initial states *)

\* A tracker that New made satisfies the invariant.
LEMMA InvInit == Init => Inv
<1> SUFFICES ASSUME Init PROVE Inv OBVIOUS
<1>1. TypeOK
  BY MultiRuleAssumption DEF Init, TypeOK, ID, NoRegistration, Registration, Info
<1>2. Tracked = {} BY DEF Init, Tracked
<1>3. NoGhostRules /\ MatchesHeld BY <1>2 DEF NoGhostRules, MatchesHeld
<1>4. LatestTracked BY DEF Init, LatestTracked
<1>5. WalkInv BY DEF Init, WalkInv
<1> QED BY <1>1, <1>3, <1>4, <1>5 DEF Inv

-----------------------------------------------------------------------------
(* Steps *)

\* RegisterRule: the ID is new, so the direct matches are its only holders.
LEMMA RegisterStep ==
    ASSUME Inv, NEW rule \in Rules, NEW id \in ID, RegisterRule(rule, id)
    PROVE  Inv'
<1> DEFINE roots == {k \in Tracked : processes[k].info.comm \in rule.comms}
<1>0. /\ TypeOK /\ NoGhostRules /\ MatchesHeld /\ LatestTracked BY DEF Inv
<1>1. /\ rules[id] = NoRule
      /\ rules' = [rules EXCEPT ![id] = rule]
      /\ processes' = Mark(roots, id)
      /\ reg' = [id |-> id, roots |-> roots, stack |-> roots, seen |-> {}]
      /\ pc' = "propagate"
      /\ UNCHANGED latestPID
  BY DEF RegisterRule, NextUnused
<1>2. roots \in SUBSET Tracked OBVIOUS
<1>3. rule \in Rule /\ rule # NoRule BY MultiRuleAssumption
<1>4. rules \in [ID -> Rule \cup {NoRule}] BY <1>0 DEF TypeOK
<1>5. /\ rules'[id] = rule
      /\ \A j \in ID : j # id => rules'[j] = rules[j]
      /\ rules' \in [ID -> Rule \cup {NoRule}]
  BY <1>1, <1>3, <1>4
<1>6. Registered' = Registered \cup {id} /\ id \notin Registered
  BY <1>1, <1>3, <1>5 DEF Registered
<1>7. /\ processes' \in [Key -> Process \cup {Untracked}]
      /\ Tracked' = Tracked
      /\ \A k \in Tracked :
           /\ processes'[k].info = processes[k].info
           /\ processes'[k].ids = processes[k].ids \cup (IF k \in roots THEN {id} ELSE {})
  BY <1>0, <1>1, <1>2, MarkFacts
<1>8. /\ Holders(id)' = Holders(id) \cup roots
      /\ \A S : Family(S)' = Family(S)
  BY <1>0, <1>1, <1>2, MarkHolders
<1>9. TypeOK'
  <2>1. nextID' \in ID
    <3>1. nextID' = Succ(id) BY DEF RegisterRule
    <3> QED BY <3>1, MultiRuleAssumption DEF Succ, ID
  <2>2. reg' \in Registration BY <1>1 DEF Registration, Tracked
  <2>3. UNCHANGED <<latestPID, world>> BY DEF RegisterRule
  <2> QED BY <1>0, <1>1, <1>5, <1>7, <2>1, <2>2, <2>3 DEF TypeOK, world
<1>10. NoGhostRules' BY <1>0, <1>6, <1>7 DEF NoGhostRules
<1>11. MatchesHeld'
  <2> SUFFICES ASSUME NEW k \in Tracked, NEW j \in Registered', processes'[k].info.comm \in rules'[j].comms
               PROVE  j \in processes'[k].ids
    BY <1>7 DEF MatchesHeld, Matching
  <2>1. CASE j = id
    <3>1. k \in roots BY <1>5, <1>7, <2>1
    <3> QED BY <3>1, <1>7, <2>1
  <2>2. CASE j # id
    <3>1. j \in Registered /\ rules'[j] = rules[j] BY <1>5, <1>6, <2>2 DEF Registered
    <3>2. j \in Matching(processes[k].info) BY <3>1, <1>7 DEF Matching
    <3> QED BY <3>2, <1>0, <1>7 DEF MatchesHeld
  <2> QED BY <2>1, <2>2
<1>12. LatestTracked' BY <1>0, <1>1, <1>7 DEF LatestTracked
<1>13. WalkInv'
  <2>1. Holders(id) = {} BY <1>0, <1>6 DEF Holders, NoGhostRules
  <2>2. Holders(id)' = roots BY <2>1, <1>8
  <2>3. PICK R : R = roots OBVIOUS
  <2>4. R \subseteq Family(R)' BY <1>8, <2>3 DEF Family, Tracked
  <2>5. /\ reg'.id = id /\ reg'.roots = R /\ reg'.stack = R /\ reg'.seen = {}
    BY <1>1, <2>3
  <2>6. id \in Registered' BY <1>6
  <2>7. Holders(id)' = R BY <2>2, <2>3
  <2> HIDE DEF roots
  <2>8. /\ Holders(reg.id)' = R
        /\ R \subseteq Family(reg.roots)'
    BY <2>4, <2>5, <2>7 DEF Holders, Family
  <2> QED BY <2>5, <2>6, <2>8 DEF WalkInv
<1> QED BY <1>9, <1>10, <1>11, <1>12, <1>13 DEF Inv

\* One round of the walk: its key is expanded, or skipped as already seen.
LEMMA PopStep ==
    ASSUME Inv, NEW k \in Key, Pop(k)
    PROVE  Inv'
<1>0. /\ TypeOK /\ NoGhostRules /\ MatchesHeld /\ LatestTracked /\ WalkInv BY DEF Inv
<1>1. /\ pc = "propagate" /\ pc' = "propagate" /\ k \in reg.stack
      /\ UNCHANGED <<nextID, rules, latestPID, world>>
      /\ reg \in Registration
  BY <1>0 DEF Pop, TypeOK
<1>2. Registered' = Registered BY <1>1 DEF Registered
<1>3. CASE k \in reg.seen
  <2>1. /\ reg' = [reg EXCEPT !.stack = @ \ {k}] /\ UNCHANGED processes
    BY <1>3 DEF Pop, Seen
  <2>2. /\ reg' \in Registration /\ reg'.id = reg.id /\ reg'.roots = reg.roots
        /\ reg'.stack = reg.stack \ {k} /\ reg'.seen = reg.seen
    BY <2>1, <1>1 DEF Registration
  <2>3. TypeOK' BY <1>0, <1>1, <2>1, <2>2 DEF TypeOK, world
  <2>4. Tracked' = Tracked BY <2>1 DEF Tracked
  <2>5. NoGhostRules' BY <1>0, <1>2, <2>1, <2>4 DEF NoGhostRules
  <2>6. MatchesHeld' BY <1>0, <1>1, <1>2, <2>1, <2>4 DEF MatchesHeld, Matching
  <2>7. LatestTracked' BY <1>0, <1>1, <2>4 DEF LatestTracked
  <2>8. \A id : Holders(id)' = Holders(id) BY <2>1, <2>4 DEF Holders
  <2>9. \A j : Children(j)' = Children(j) BY <1>1, <2>1, <2>4 DEF Children, Latest
  <2>10. \A S : Family(S)' = Family(S) BY <2>9 DEF Family, Closed
  <2>11. WalkInv' BY <1>0, <1>1, <1>2, <1>3, <2>2, <2>8, <2>9, <2>10 DEF WalkInv
  <2> QED BY <2>3, <2>5, <2>6, <2>7, <2>11 DEF Inv
<1>4. CASE k \notin reg.seen
  <2>1. /\ reg' = [reg EXCEPT !.stack = (@ \ {k}) \cup Children(k), !.seen = @ \cup {k}]
        /\ processes' = Mark(Children(k), reg.id)
    BY <1>4 DEF Pop, Seen, Push
  <2>2. Children(k) \in SUBSET Tracked /\ Children(k) \in SUBSET Key
    BY DEF Children, Tracked
  <2>3. reg.id \in ID BY <1>1 DEF Registration
  <2>4. /\ reg' \in Registration /\ reg'.id = reg.id /\ reg'.roots = reg.roots
        /\ reg'.stack = (reg.stack \ {k}) \cup Children(k) /\ reg'.seen = reg.seen \cup {k}
    BY <2>1, <2>2, <1>1 DEF Registration
  <2>5. /\ processes' \in [Key -> Process \cup {Untracked}]
        /\ Tracked' = Tracked
        /\ \A j \in Tracked :
             /\ processes'[j].info = processes[j].info
             /\ processes'[j].ids = processes[j].ids
                  \cup (IF j \in Children(k) THEN {reg.id} ELSE {})
    BY <1>0, <2>1, <2>2, <2>3, MarkFacts
  <2>6. PICK id \in ID : id = reg.id BY <2>3
  <2>7. PICK R : R = reg.roots OBVIOUS
  <2>8. /\ Holders(id)' = Holders(id) \cup Children(k)
        /\ \A j \in Key : Children(j)' = Children(j)
        /\ \A S : Family(S)' = Family(S)
    BY <1>0, <1>1, <2>1, <2>2, <2>6, MarkHolders
  <2>9. TypeOK' BY <1>0, <1>1, <2>4, <2>5 DEF TypeOK, world
  <2>10. NoGhostRules'
    <3>1. reg.id \in Registered BY <1>0, <1>1 DEF WalkInv
    <3> QED BY <3>1, <1>0, <1>2, <2>5 DEF NoGhostRules
  <2>11. MatchesHeld' BY <1>0, <1>1, <1>2, <2>5 DEF MatchesHeld, Matching
  <2>12. LatestTracked' BY <1>0, <1>1, <2>5 DEF LatestTracked
  <2>13. WalkInv'
    <3>1. reg'.id = id /\ reg'.roots = R BY <2>4, <2>6, <2>7
    <3>2. Holders(reg.id)' = Holders(id) \cup Children(k) BY <2>8, <3>1 DEF Holders
    <3>3. Family(reg.roots)' = Family(R)
      <4>1. Family(reg.roots)' = Family(R)' BY <3>1 DEF Family
      <4>2. Family(R)' = Family(R) BY <2>8
      <4> QED BY <4>1, <4>2
    <3>4. \A j \in reg'.seen : Children(j)' = Children(j)
      BY <2>4, <2>8, <1>1 DEF Registration
    <3>5. /\ id \in Registered
          /\ R \subseteq Holders(id)
          /\ reg.stack \subseteq Holders(id)
          /\ Holders(id) \subseteq reg.stack \cup reg.seen
          /\ \A j \in reg.seen : Children(j) \subseteq Holders(id)
          /\ Holders(id) \subseteq Family(R)
      BY <1>0, <1>1, <2>6, <2>7 DEF WalkInv
    <3>6. Children(k) \subseteq Family(R)
      <4>1. k \in Family(R) BY <3>5, <1>1
      <4> QED BY <4>1, <2>2 DEF Family, Closed
    <3>7. \A j \in reg'.seen : Children(j)' \subseteq Holders(id) \cup Children(k)
      BY <2>4, <3>4, <3>5
    <3>8. /\ reg'.stack \subseteq Holders(id) \cup Children(k)
          /\ Holders(id) \cup Children(k) \subseteq reg'.stack \cup reg'.seen
      BY <2>4, <3>5
    <3> QED BY <1>2, <3>1, <3>2, <3>3, <3>5, <3>6, <3>7, <3>8 DEF WalkInv
  <2> QED BY <2>9, <2>10, <2>11, <2>12, <2>13 DEF Inv
<1> QED BY <1>3, <1>4

\* The end of RegisterRule.
LEMMA ReturnStep ==
    ASSUME Inv, RegisterReturns
    PROVE  Inv'
<1>0. /\ TypeOK /\ NoGhostRules /\ MatchesHeld /\ LatestTracked BY DEF Inv
<1>1. /\ pc' = "free" /\ reg' = NoRegistration
      /\ UNCHANGED <<nextID, rules, processes, latestPID, world>>
  BY DEF RegisterReturns
<1>2. TypeOK'
  <2>1. NoRegistration \in Registration
    BY MultiRuleAssumption DEF NoRegistration, Registration, ID
  <2> QED BY <1>0, <1>1, <2>1 DEF TypeOK, world
<1>3. Tracked' = Tracked /\ Registered' = Registered BY <1>1 DEF Tracked, Registered
<1>4. NoGhostRules' BY <1>0, <1>1, <1>3 DEF NoGhostRules
<1>5. MatchesHeld' BY <1>0, <1>1, <1>3 DEF MatchesHeld, Matching
<1>6. LatestTracked' BY <1>0, <1>1, <1>3 DEF LatestTracked
<1>7. WalkInv' BY <1>1 DEF WalkInv
<1> QED BY <1>2, <1>4, <1>5, <1>6, <1>7 DEF Inv

\* UnregisterRule takes the ID from the rules and from every entry.
LEMMA UnregisterStep ==
    ASSUME Inv, NEW id \in ID, UnregisterRule(id)
    PROVE  Inv'
<1>0. /\ TypeOK /\ NoGhostRules /\ MatchesHeld /\ LatestTracked BY DEF Inv
<1>1. /\ pc = "free" /\ pc' = "free"
      /\ rules' = [rules EXCEPT ![id] = NoRule]
      /\ UNCHANGED <<nextID, latestPID, reg, world>>
  BY DEF UnregisterRule
<1>2. \A k \in Tracked : /\ processes'[k] \in Process
                         /\ processes'[k].info = processes[k].info
                         /\ processes'[k].ids = processes[k].ids \ {id}
  <2> SUFFICES ASSUME NEW k \in Tracked
               PROVE  /\ processes'[k] \in Process
                      /\ processes'[k].info = processes[k].info
                      /\ processes'[k].ids = processes[k].ids \ {id}
    OBVIOUS
  <2>1. processes[k] \in Process BY <1>0, EntryType
  <2>2. processes'[k] = [processes[k] EXCEPT !.ids = @ \ {id}]
    BY DEF UnregisterRule, Tracked
  <2> QED BY <2>1, <2>2 DEF Process
<1>3. \A k \in Key : k \notin Tracked => processes'[k] = Untracked BY DEF UnregisterRule
<1>4. processes' \in [Key -> Process \cup {Untracked}]
  <2>1. processes' = [k \in Key |-> processes'[k]] BY DEF UnregisterRule
  <2>2. \A k \in Key : processes'[k] \in Process \cup {Untracked} BY <1>2, <1>3
  <2> QED BY <2>1, <2>2
<1>5. Tracked' = Tracked
  <2>1. \A k \in Key : k \in Tracked <=> processes'[k] # Untracked
    BY <1>2, <1>3, MultiRuleAssumption
  <2> QED BY <2>1 DEF Tracked
<1>6. rules \in [ID -> Rule \cup {NoRule}] BY <1>0 DEF TypeOK
<1>7. /\ rules' \in [ID -> Rule \cup {NoRule}]
      /\ rules'[id] = NoRule
      /\ \A j \in ID : j # id => rules'[j] = rules[j]
  BY <1>1, <1>6
<1>8. Registered' = Registered \ {id} BY <1>7 DEF Registered
<1>9. TypeOK' BY <1>0, <1>1, <1>4, <1>7 DEF TypeOK, world
<1>10. NoGhostRules' BY <1>0, <1>2, <1>5, <1>8 DEF NoGhostRules
<1>11. MatchesHeld'
  <2> SUFFICES ASSUME NEW k \in Tracked, NEW j \in Registered',
                      processes'[k].info.comm \in rules'[j].comms
               PROVE  j \in processes'[k].ids
    BY <1>5 DEF MatchesHeld, Matching
  <2>1. j \in Registered /\ j # id /\ rules'[j] = rules[j] BY <1>7, <1>8 DEF Registered
  <2>2. j \in Matching(processes[k].info) BY <2>1, <1>2 DEF Matching
  <2> QED BY <2>1, <2>2, <1>0, <1>2 DEF MatchesHeld
<1>12. LatestTracked' BY <1>0, <1>1, <1>5 DEF LatestTracked
<1>13. WalkInv' BY <1>1 DEF WalkInv
<1> QED BY <1>9, <1>10, <1>11, <1>12, <1>13 DEF Inv

\* ApplyProcess: the IDs of the new entry are registered and cover its matches.
LEMMA ApplyStep ==
    ASSUME Inv, NEW k \in Key, NEW info \in Info, ApplyProcess(k, info), UNCHANGED world
    PROVE  Inv'
<1> DEFINE entry == [info |-> info, ids |-> Ids(k, info)]
<1>0. /\ TypeOK /\ NoGhostRules /\ MatchesHeld /\ LatestTracked BY DEF Inv
<1>1. /\ pc' = "free"
      /\ processes' = [processes EXCEPT ![k] = entry]
      /\ latestPID' = [latestPID EXCEPT ![TgidOf[k]] = k]
      /\ UNCHANGED <<nextID, rules, reg>>
  BY DEF ApplyProcess
<1>2. /\ Ids(k, info) \subseteq Registered
      /\ Matching(info) \subseteq Ids(k, info)
  BY <1>0 DEF Ids, Inherited, Matching, NoGhostRules
<1>3. entry \in Process /\ entry # Untracked
  BY <1>2, MultiRuleAssumption DEF Process, Registered
<1>4. TgidOf[k] \in Pid BY MultiRuleAssumption
<1>5. /\ processes \in [Key -> Process \cup {Untracked}]
      /\ latestPID \in [Pid -> Key \cup {NoKey}]
  BY <1>0 DEF TypeOK
<1> HIDE DEF entry
<1>6. /\ processes' \in [Key -> Process \cup {Untracked}]
      /\ processes'[k] = entry
      /\ \A j \in Key : j # k => processes'[j] = processes[j]
      /\ latestPID' \in [Pid -> Key \cup {NoKey}]
      /\ latestPID'[TgidOf[k]] = k
      /\ \A p \in Pid : p # TgidOf[k] => latestPID'[p] = latestPID[p]
  BY <1>1, <1>3, <1>4, <1>5
<1>7. Tracked' = Tracked \cup {k} BY <1>3, <1>6 DEF Tracked
<1>8. Registered' = Registered /\ \A i : Matching(i)' = Matching(i)
  BY <1>1 DEF Registered, Matching
<1>9. entry.info = info /\ entry.ids = Ids(k, info) BY DEF entry
<1>10. TypeOK' BY <1>0, <1>1, <1>6 DEF TypeOK, world
<1>11. \A j \in Tracked' : j = k \/ (j \in Tracked /\ processes'[j] = processes[j])
  BY <1>6, <1>7 DEF Tracked
<1>12. NoGhostRules' BY <1>0, <1>2, <1>6, <1>8, <1>9, <1>11 DEF NoGhostRules
<1>13. MatchesHeld'
  <2> SUFFICES ASSUME NEW j \in Tracked', NEW i \in Registered,
                      processes'[j].info.comm \in rules[i].comms
               PROVE  i \in processes'[j].ids
    BY <1>1, <1>8 DEF MatchesHeld, Matching
  <2>1. CASE j = k BY <2>1, <1>2, <1>6, <1>9 DEF Matching
  <2>2. CASE j # k BY <2>2, <1>0, <1>11 DEF MatchesHeld, Matching
  <2> QED BY <2>1, <2>2
<1>14. LatestTracked' BY <1>0, <1>6, <1>7 DEF LatestTracked
<1>15. WalkInv' BY <1>1 DEF WalkInv
<1> QED BY <1>10, <1>12, <1>13, <1>14, <1>15 DEF Inv

\* ApplyProcessEvent with an exit removes one entry and its index.
LEMMA ExitEventStep ==
    ASSUME Inv, NEW k \in Key, ExitEvent(k)
    PROVE  Inv'
<1>0. /\ TypeOK /\ NoGhostRules /\ MatchesHeld /\ LatestTracked BY DEF Inv
<1>1. /\ pc' = "free"
      /\ processes' = [processes EXCEPT ![k] = Untracked]
      /\ latestPID' = [latestPID EXCEPT ![TgidOf[k]] = IF @ = k THEN NoKey ELSE @]
      /\ exited' = exited \cup {k}
      /\ UNCHANGED <<nextID, rules, reg, life, ppid, comm, birth, ancestors, moves>>
  BY DEF ExitEvent, LatestWithout
<1>2. /\ processes \in [Key -> Process \cup {Untracked}]
      /\ latestPID \in [Pid -> Key \cup {NoKey}]
      /\ TgidOf[k] \in Pid
  BY <1>0, MultiRuleAssumption DEF TypeOK
<1>3. /\ processes' \in [Key -> Process \cup {Untracked}]
      /\ \A j \in Key : processes'[j] = IF j = k THEN Untracked ELSE processes[j]
  BY <1>1, <1>2
<1>4. /\ latestPID' \in [Pid -> Key \cup {NoKey}]
      /\ \A p \in Pid : latestPID'[p] = latestPID[p] \/ latestPID'[p] = NoKey
      /\ \A p \in Pid : latestPID[p] = k /\ p = TgidOf[k] => latestPID'[p] = NoKey
  BY <1>1, <1>2
<1>5. Tracked' = Tracked \ {k} BY <1>3 DEF Tracked
<1>6. \A j \in Tracked' : j \in Tracked /\ processes'[j] = processes[j] BY <1>3, <1>5 DEF Tracked
<1>7. Registered' = Registered BY <1>1 DEF Registered
<1>8. TypeOK'
  <2>1. pc' \in {"free", "propagate"} BY <1>1
  <2> QED BY <1>0, <1>1, <1>3, <1>4, <2>1 DEF TypeOK
<1>9. NoGhostRules' BY <1>0, <1>6, <1>7 DEF NoGhostRules
<1>10. MatchesHeld' BY <1>0, <1>1, <1>6, <1>7 DEF MatchesHeld, Matching
<1>11. LatestTracked' BY <1>0, <1>4, <1>5, MultiRuleAssumption DEF LatestTracked
<1>12. WalkInv' BY <1>1 DEF WalkInv
<1> QED BY <1>8, <1>9, <1>10, <1>11, <1>12 DEF Inv

\* What processes do is not visible to the tracker.
LEMMA WorldStep ==
    ASSUME Inv, NEW k \in Key, World(k)
    PROVE  Inv'
<1>0. /\ TypeOK /\ NoGhostRules /\ MatchesHeld /\ LatestTracked /\ WalkInv BY DEF Inv
<1>1. UNCHANGED <<nextID, rules, processes, latestPID, pc, reg>>
  BY DEF World, Fork, Exec, Exit, Reap, tracker
<1>2. NoGhostRules' /\ MatchesHeld' /\ LatestTracked' /\ WalkInv'
  BY <1>0, <1>1, TrackerStutter
<1>3. TypeOK'
  <2>1. moves' \in Nat BY <1>0 DEF TypeOK, World
  <2>2. CASE \E p \in Key \cup {NoKey} : Fork(p, k)
    <3>1. PICK p \in Key \cup {NoKey} : Fork(p, k) BY <2>2
    <3> DEFINE info == [ppid |-> IF p = NoKey THEN NoPid ELSE TgidOf[p],
                        comm |-> IF p = NoKey THEN InitComm ELSE comm[p]]
    <3>2. info \in Info BY <1>0, MultiRuleAssumption DEF TypeOK, Info
    <3>3. /\ ppid' = [ppid EXCEPT ![k] = info.ppid]
          /\ comm' = [comm EXCEPT ![k] = info.comm]
          /\ birth' = [birth EXCEPT ![k] = info]
      BY <3>1 DEF Fork
    <3>4. ancestors' \in [Key -> SUBSET Key] BY <1>0, <3>1 DEF Fork, TypeOK
    <3>5. life' \in [Key -> {"unborn", "running", "zombie", "gone"}] /\ UNCHANGED exited
      BY <1>0, <3>1 DEF Fork, TypeOK
    <3> HIDE DEF info
    <3>6. /\ ppid' \in [Key -> Pid \cup {NoPid}] /\ comm' \in [Key -> Comm]
          /\ birth' \in [Key -> Info]
      BY <1>0, <3>2, <3>3 DEF TypeOK, Info
    <3> QED BY <1>0, <1>1, <2>1, <3>4, <3>5, <3>6 DEF TypeOK
  <2>3. CASE \E c \in Comm : Exec(k, c) BY <1>0, <1>1, <2>1, <2>3 DEF Exec, TypeOK
  <2>4. CASE Exit(k) BY <1>0, <1>1, <2>1, <2>4 DEF Exit, TypeOK
  <2>5. CASE Reap(k) BY <1>0, <1>1, <2>1, <2>5 DEF Reap, TypeOK
  <2> QED BY <2>2, <2>3, <2>4, <2>5 DEF World
<1> QED BY <1>2, <1>3 DEF Inv

\* Every step preserves the invariant.
LEMMA InvStep == Inv /\ [Next]_vars => Inv'
<1> SUFFICES ASSUME Inv, [Next]_vars PROVE Inv' OBVIOUS
<1>1. ASSUME NEW rule \in Rules, NEW id \in ID, RegisterRule(rule, id) PROVE Inv'
  BY <1>1, RegisterStep
<1>2. ASSUME NEW k \in Key, Pop(k) PROVE Inv' BY <1>2, PopStep
<1>3. CASE RegisterReturns BY <1>3, ReturnStep
<1>4. ASSUME NEW id \in ID, UnregisterRule(id) PROVE Inv' BY <1>4, UnregisterStep
<1>5. ASSUME NEW k \in Key, Observe(k) PROVE Inv'
  <2>1. [ppid |-> ppid[k], comm |-> comm[k]] \in Info BY DEF Inv, TypeOK, Info
  <2> QED BY <1>5, <2>1, ApplyStep DEF Observe
<1>6. ASSUME NEW k \in Key, ObserveLate(k) PROVE Inv'
  <2>1. birth[k] \in Info /\ [ppid |-> NoPid, comm |-> comm[k]] \in Info
    BY DEF Inv, TypeOK, Info
  <2> QED BY <1>6, <2>1, ApplyStep DEF ObserveLate
<1>7. ASSUME NEW k \in Key, ExitEvent(k) PROVE Inv' BY <1>7, ExitEventStep
<1>8. ASSUME NEW k \in Key, World(k) PROVE Inv' BY <1>8, WorldStep
<1>9. CASE UNCHANGED vars
  <2>1. UNCHANGED <<tracker, world>> BY <1>9 DEF vars
  <2>2. NoGhostRules' /\ MatchesHeld' /\ LatestTracked' /\ WalkInv'
    BY <2>1, TrackerStutter DEF Inv, tracker
  <2>3. TypeOK' BY <2>1 DEF Inv, TypeOK, tracker, world
  <2> QED BY <2>2, <2>3 DEF Inv
<1> QED BY <1>1, <1>2, <1>3, <1>4, <1>5, <1>6, <1>7, <1>8, <1>9 DEF Next, Propagation

\* The invariant holds in every reachable state.
LEMMA Invariance == Spec => []Inv
BY InvInit, InvStep, PTL DEF Spec

-----------------------------------------------------------------------------
(* Results *)

(* Every state of the tracker has the type that the code gives it: IDs stay *)
(* within uint64 and 0 is never one.                                        *)
THEOREM TypeCorrect == Spec => []TypeOK
<1>1. Inv => TypeOK BY DEF Inv
<1> QED BY <1>1, Invariance, PTL

(* UnregisterRule and RegisterRule leave no process with the ID of a rule   *)
(* that does not exist.                                                     *)
THEOREM NoGhosts == Spec => []NoGhostRules
<1>1. Inv => NoGhostRules BY DEF Inv
<1> QED BY <1>1, Invariance, PTL

(* RegisterRule and ApplyProcess together give every tracked process the    *)
(* IDs of all the rules that match it.                                      *)
THEOREM MatchesAreHeld == Spec => []MatchesHeld
<1>1. Inv => MatchesHeld BY DEF Inv
<1> QED BY <1>1, Invariance, PTL

(* The loop of propagateRuleToDescendantsLocked computes exactly the        *)
(* closure of the direct matches under the tracker's parent relation.       *)
THEOREM PropagationCorrect == Spec => []PropagationExact
<1>1. Inv => PropagationExact
  <2> SUFFICES ASSUME Inv, pc = "propagate", reg.stack = {}
               PROVE  Holders(reg.id) = Family(reg.roots)
    BY DEF PropagationExact
  <2> DEFINE H == Holders(reg.id)
  <2>1. /\ reg.roots \subseteq H /\ H \subseteq reg.seen
        /\ \A k \in reg.seen : Children(k) \subseteq H
        /\ H \subseteq Family(reg.roots)
    BY DEF Inv, WalkInv
  <2>2. H \in SUBSET Key BY DEF Holders, Tracked
  <2> HIDE DEF H
  <2>3. Closed(H) BY <2>1 DEF Closed
  <2>4. Family(reg.roots) \subseteq H BY <2>1, <2>2, <2>3 DEF Family
  <2>5. H = Family(reg.roots) BY <2>1, <2>4
  <2> QED BY <2>5 DEF H
<1> QED BY <1>1, Invariance, PTL

(* The PID index only names tracked lifetimes of the PID.                   *)
THEOREM LatestCorrect == Spec => []LatestTracked
<1>1. Inv => LatestTracked BY DEF Inv
<1> QED BY <1>1, Invariance, PTL

(* RegisterRule never hands out an ID that a rule still has.                *)
THEOREM IDsUnique == Spec => NoRuleReplaced
<1> DEFINE Step == \A id \in Registered : rules'[id] \in {rules[id], NoRule}
<1>1. Inv /\ [Next]_vars => [Step]_vars
  <2> SUFFICES ASSUME Inv, Next PROVE Step OBVIOUS
  <2>0. rules \in [ID -> Rule \cup {NoRule}] BY DEF Inv, TypeOK
  <2>1. ASSUME NEW rule \in Rules, NEW id \in ID, RegisterRule(rule, id) PROVE Step
    BY <2>0, <2>1 DEF RegisterRule, NextUnused, Registered
  <2>2. ASSUME NEW id \in ID, UnregisterRule(id) PROVE Step
    BY <2>0, <2>2 DEF UnregisterRule, Registered
  <2>3. CASE UNCHANGED rules BY <2>3
  <2>4. ASSUME NEW k \in Key, Pop(k) \/ Observe(k) \/ ObserveLate(k) \/ ExitEvent(k) \/ World(k)
        PROVE  UNCHANGED rules
    BY <2>4 DEF Pop, Observe, ObserveLate, ApplyProcess, ExitEvent, World, Fork, Exec,
                Exit, Reap, tracker
  <2>5. RegisterReturns => UNCHANGED rules BY DEF RegisterReturns
  <2> QED BY <2>1, <2>2, <2>3, <2>4, <2>5 DEF Next, Propagation
<1> QED BY <1>1, Invariance, PTL DEF Spec, NoRuleReplaced
=============================================================================
