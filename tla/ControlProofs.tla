---------------------------- MODULE ControlProofs ----------------------------
(***************************************************************************)
(* Theorems about the rule compiler (CommRules) and the control server     *)
(* (Control), for any number of requests, bodies, names and marks.         *)
(***************************************************************************)
EXTENDS Control, TLAPS

-----------------------------------------------------------------------------
(* The compiler *)

(* compileDefaultKernelPolicy returns a mode and a table of rules over names *)
(* for every list of default rules.                                          *)
LEMMA CompileType ==
    ASSUME NEW rs, NEW d \in Decision
    PROVE  Compile(rs, d) \in Policy
  BY DEF Compile, CompiledMode, CompiledTable, Policy, Mode, RuleTable

(* The contract of SetKernelPolicy holds for whatever rules main compiles:   *)
(* exec program and check callback decide alike for every process that has   *)
(* a name.  Module Marker assumes this of its policies.                      *)
THEOREM CompileAgrees ==
    ASSUME NEW rs \in Rules, NEW d \in Decision
    PROVE  Agree(Compile(rs, d), rs, d)
  <1> DEFINE p == Compile(rs, d)
  <1>a. p.mode = CompiledMode(rs) /\ p.rules = CompiledTable(rs, d)
    BY DEF Compile
  <1>b. /\ rs.comm \in Seq(CommPattern) /\ rs.rest \in SUBSET OtherPattern
        /\ \A i \in DOMAIN rs.comm : rs.comm[i] \in CommPattern
    BY DEF Rules
  <1>c. \A c \in Comm : p.rules[c] # NoMatch =>
            p.rules[c] = d /\ \E i \in Promoted(rs) : rs.comm[i].matches = {c}
    BY <1>a DEF CompiledTable
  <1>d. d # NoMatch
    BY CommRulesAssumption
  <1>1. p.mode = "userspace-only" => \A c \in Comm : p.rules[c] = NoMatch
    <2> SUFFICES ASSUME p.mode = "userspace-only" PROVE \A c \in Comm : p.rules[c] = NoMatch
      OBVIOUS
    <2>1. Promoted(rs) = {}
      BY <1>a DEF CompiledMode
    <2> QED BY <2>1, <1>c
  <1>2. ASSUME NEW info \in Info, info.comm # EmptyComm
        PROVE  /\ p.rules[info.comm] # NoMatch => Check(rs, d, info) = p.rules[info.comm]
               /\ p.mode = "authoritative" => Check(rs, d, info) = p.rules[info.comm]
    <2>0. info.comm \in Comm
      BY DEF Info
    <2>1. ASSUME p.rules[info.comm] # NoMatch
          PROVE  Check(rs, d, info) = p.rules[info.comm]
      <3>1. PICK i \in Promoted(rs) : rs.comm[i].matches = {info.comm}
        BY <1>c, <2>0, <2>1
      <3>2. i \in DOMAIN rs.comm
        BY DEF Promoted
      <3>3. CommMatches(rs, info.comm)
        BY <1>2, <3>1, <3>2 DEF CommMatches
      <3>4. HasRules(rs)
        BY <1>b, <3>2 DEF HasRules
      <3> QED BY <1>c, <2>0, <2>1, <3>3, <3>4 DEF Check, Matches
    <2>2. ASSUME p.mode = "authoritative"
          PROVE  Check(rs, d, info) = p.rules[info.comm]
      <3>1. Promoted(rs) = DOMAIN rs.comm /\ rs.rest = {}
        BY <1>a, <2>2 DEF CompiledMode, Fallback
      <3>2. ASSUME CommMatches(rs, info.comm) PROVE p.rules[info.comm] = d
        <4>1. PICK i \in DOMAIN rs.comm : info.comm \in rs.comm[i].matches
          BY <3>2 DEF CommMatches
        <4>2. rs.comm[i].form = "exact"
          BY <3>1, <4>1 DEF Promoted
        <4>3. rs.comm[i].matches = {info.comm}
          BY <1>b, <4>1, <4>2 DEF CommPattern
        <4> QED BY <1>a, <2>0, <3>1, <4>1, <4>3 DEF CompiledTable
      <3>3. ASSUME ~CommMatches(rs, info.comm) PROVE Check(rs, d, info) = NoMatch
        BY <3>1, <3>3 DEF Check, Matches
      <3>4. CASE CommMatches(rs, info.comm)
        BY <1>d, <2>1, <3>2, <3>4
      <3>5. CASE ~CommMatches(rs, info.comm)
        BY <2>1, <3>3, <3>5
      <3> QED BY <3>4, <3>5
    <2> QED BY <2>1, <2>2
  <1> QED BY <1>1, <1>2 DEF Agree

-----------------------------------------------------------------------------
(* Types *)

AllStages == {"start", "parsed", "locked", "switched", "pinned", "reported",
              "registered", "traverse", "undo", "unlist"}

(* The kinds of requests and their stages, one by one.                       *)
LEMMA StageFacts ==
    /\ DOMAIN Stage = {"none", "rules", "state", "post", "delete"}
    /\ UNION {Stage[k] : k \in DOMAIN Stage} = AllStages
    /\ Stage["none"] = {"start"}
    /\ Stage["rules"] = {"start", "parsed", "locked", "switched"}
    /\ Stage["state"] = {"start", "locked", "pinned", "reported"}
    /\ Stage["post"] = {"start", "registered", "traverse", "undo", "unlist"}
    /\ Stage["delete"] = {"start", "unlist", "traverse"}
  <1>1. DOMAIN Stage = {"none", "rules", "state", "post", "delete"}
    BY DEF Stage
  <1>2. /\ Stage["none"] = {"start"}
        /\ Stage["rules"] = {"start", "parsed", "locked", "switched"}
        /\ Stage["state"] = {"start", "locked", "pinned", "reported"}
        /\ Stage["post"] = {"start", "registered", "traverse", "undo", "unlist"}
        /\ Stage["delete"] = {"start", "unlist", "traverse"}
    BY DEF Stage
  <1>3. UNION {Stage[k] : k \in DOMAIN Stage} = AllStages
    BY <1>1, <1>2 DEF AllStages
  <1> QED BY <1>1, <1>2, <1>3

\* A request and the stage it may be at.
RequestOK(q) == q \in Request /\ q.stage \in Stage[q.kind]

(* The idle request is well formed.                                          *)
LEMMA NoRequestOK ==
    RequestOK(NoRequest) /\ NoRequest.kind = "none" /\ NoRequest.stage = "start"
  BY StageFacts, ControlAssumption DEF RequestOK, NoRequest, Request, Body, AllStages

(* The daemon's half of a step keeps its types.                              *)
LEMMA DaemonType ==
    ASSUME DaemonTypeOK, CallStop \/ LoopStep \/ StopReceives \/ StopReturn \/ UNCHANGED dvars
    PROVE  DaemonTypeOK'
  BY DEF DaemonTypeOK, CallStop, LoopStep, LoopEnds, LoopCloses, LoopSends, StopReceives,
         StopReturn, CloseAll, CloseReader, dvars, Link, After

(* Types hold initially.                                                     *)
LEMMA InitType == Init => TypeOK
  <1> SUFFICES ASSUME Init PROVE TypeOK
    OBVIOUS
  <1>1. DaemonTypeOK
    BY DEF Init, DaemonTypeOK, Link, After
  <1>2. config \in Config /\ check \in Config /\ policy \in Policy
    BY CompileType, ControlAssumption DEF Init, Config, Body
  <1>3. req \in [Req -> Request] /\ \A r \in Req : req[r].stage \in Stage[req[r].kind]
    BY NoRequestOK DEF Init, RequestOK
  <1> QED BY <1>1, <1>2, <1>3, ControlAssumption DEF Init, TypeOK

ReqTypeOK == req \in [Req -> Request] /\ \A r \in Req : req[r].stage \in Stage[req[r].kind]

(* One request changes, and is well formed after the step.                   *)
LEMMA OneRequest ==
    ASSUME ReqTypeOK, NEW r \in Req, NEW q, RequestOK(q), req' = [req EXCEPT ![r] = q]
    PROVE  ReqTypeOK'
  BY DEF ReqTypeOK, RequestOK

(* A request that moves to a stage of its kind stays well formed.            *)
LEMMA GotoType ==
    ASSUME ReqTypeOK, NEW r \in Req, NEW s, s \in Stage[req[r].kind], Goto(r, s)
    PROVE  ReqTypeOK'
  <1> DEFINE q == [req[r] EXCEPT !.stage = s]
  <1>1. req' = [req EXCEPT ![r] = q]
    BY DEF Goto
  <1>2. req[r] \in Request /\ req[r].kind \in DOMAIN Stage
    BY DEF ReqTypeOK, Request
  <1>3. s \in AllStages
    BY <1>2, StageFacts
  <1>4. RequestOK(q)
    BY <1>2, <1>3, StageFacts DEF RequestOK, Request
  <1> QED BY <1>1, <1>4, OneRequest

(* So does one that is answered.                                             *)
LEMMA AnswerType ==
    ASSUME ReqTypeOK, NEW r \in Req, Answer(r)
    PROVE  ReqTypeOK'
  BY NoRequestOK, OneRequest DEF Answer

(* Every handler step leaves well-formed requests.                           *)
LEMMA ReqType ==
    ASSUME TypeOK, NEW r \in Req, NewRequest(r) \/ LockStep(r) \/ ServeStep(r)
    PROVE  ReqTypeOK'
  <1> USE StageFacts
  <1>0. /\ ReqTypeOK
        /\ req[r] \in Request
        /\ config \in Config /\ policy \in Policy
        /\ nextID \in Nat
    BY DEF TypeOK, ReqTypeOK
  <1>1. CASE PostRules(r)
    <2>1. PICK rs \in Bodies, d \in Decision \cup {NoDecision} :
            Arrive(r, [NoRequest EXCEPT !.kind = "rules", !.rules = rs, !.given = d,
                                        !.seen = {config.decision}])
      BY <1>1 DEF PostRules
    <2> DEFINE q == [NoRequest EXCEPT !.kind = "rules", !.rules = rs, !.given = d,
                                      !.seen = {config.decision}]
    <2>2. RequestOK(q)
      BY <1>0, NoRequestOK DEF RequestOK, Request, Body, Config
    <2>3. req' = [req EXCEPT ![r] = q]
      BY <2>1 DEF Arrive
    <2> QED BY <1>0, <2>2, <2>3, OneRequest
  <1>2. CASE GetState(r)
    <2>1. RequestOK([NoRequest EXCEPT !.kind = "state"])
      BY NoRequestOK DEF RequestOK, Request
    <2> QED BY <1>0, <1>2, <2>1, OneRequest DEF GetState, Arrive
  <1>3. CASE PostRule(r)
    <2>1. PICK rs \in Bodies : Arrive(r, [NoRequest EXCEPT !.kind = "post", !.rules = rs])
      BY <1>3 DEF PostRule
    <2>2. RequestOK([NoRequest EXCEPT !.kind = "post", !.rules = rs])
      BY NoRequestOK DEF RequestOK, Request, Body
    <2> QED BY <1>0, <2>1, <2>2, OneRequest DEF Arrive
  <1>4. CASE DeleteRule(r)
    <2>1. PICK id \in 1..nextID : Arrive(r, [NoRequest EXCEPT !.kind = "delete", !.id = id])
      BY <1>4 DEF DeleteRule
    <2>2. id \in Nat
      BY <1>0
    <2>3. RequestOK([NoRequest EXCEPT !.kind = "delete", !.id = id])
      BY <2>2, NoRequestOK DEF RequestOK, Request
    <2> QED BY <1>0, <2>1, <2>3, OneRequest DEF Arrive
  <1>5. CASE ReadDefaults(r)
    <2> DEFINE q == [req[r] EXCEPT !.stage = "parsed", !.decision = WithDefault(r)]
    <2>1. req' = [req EXCEPT ![r] = q]
      BY <1>5 DEF ReadDefaults
    <2>2. WithDefault(r) \in Decision
      BY <1>0 DEF WithDefault, Request, Config
    <2>3. RequestOK(q)
      BY <1>0, <1>5, <2>2 DEF RequestOK, Request, ReadDefaults, At, AllStages
    <2> QED BY <1>0, <2>1, <2>3, OneRequest
  <1>6. CASE SwitchPolicy(r)
    <2> DEFINE q == [req[r] EXCEPT !.stage = "switched", !.done = TRUE]
    <2>1. req' = [req EXCEPT ![r] = q]
      BY <1>6 DEF SwitchPolicy
    <2>2. RequestOK(q)
      BY <1>0, <1>6 DEF RequestOK, Request, SwitchPolicy, At, AllStages
    <2> QED BY <1>0, <2>1, <2>2, OneRequest
  <1>7. CASE Assign(r)
    <2>1. config' \in Config
      BY <1>0, <1>7 DEF Assign, SetConfig, Config, Request
    <2>2. \A x \in Req : RequestOK(req[x])
      BY <1>0 DEF ReqTypeOK, RequestOK
    <2>3. \A x \in Req : RequestOK([req[x] EXCEPT !.seen = @ \cup {config'.decision}])
      BY <2>1, <2>2 DEF RequestOK, Request, Config
    <2>4. \A x \in Req : RequestOK(req'[x])
      BY <1>7, <2>2, <2>3, NoRequestOK DEF Assign, AnswerAndWitness
    <2>5. req' = [x \in Req |-> req'[x]]
      BY <1>7 DEF Assign, AnswerAndWitness
    <2> QED BY <2>4, <2>5 DEF RequestOK, ReqTypeOK
  <1>8. CASE ReadPolicy(r)
    <2> DEFINE t == [mode |-> policy.mode, names |-> Names(policy), config |-> config]
    <2> DEFINE q == [req[r] EXCEPT !.stage = "reported", !.report = t]
    <2>1. req' = [req EXCEPT ![r] = q]
      BY <1>8 DEF ReadPolicy
    <2>2. t \in Report
      BY <1>0 DEF Report, Policy, Names
    <2>3. RequestOK(q)
      BY <1>0, <1>8, <2>2 DEF RequestOK, Request, ReadPolicy, At, AllStages
    <2> QED BY <1>0, <2>1, <2>3, OneRequest
  <1>9. CASE RegisterRule(r)
    <2> DEFINE q == [req[r] EXCEPT !.stage = "registered", !.id = nextID, !.rules = InitRules]
    <2>1. req' = [req EXCEPT ![r] = q]
      BY <1>9 DEF RegisterRule
    <2>2. RequestOK(q)
      BY <1>0, <1>9 DEF RequestOK, Request, RegisterRule, At, AllStages, Body
    <2> QED BY <1>0, <2>1, <2>2, OneRequest
  <1>10. CASE LockInstall(r) \/ LockState(r) \/ SwitchFails(r) \/ GrabMap(r) \/ ListRule(r)
    BY <1>0, <1>10, GotoType DEF LockInstall, LockState, SwitchFails, GrabMap, ListRule, At
  <1>11. CASE RejectUpdate(r) \/ GrabFails(r) \/ ReportState(r) \/ RegisterRefused(r)
              \/ TraverseOK(r) \/ UnregisterUnknown(r)
    BY <1>0, <1>11, AnswerType DEF RejectUpdate, GrabFails, ReportState, RegisterRefused,
         TraverseOK, UnregisterUnknown
  <1>12. CASE TraverseFails(r)
    BY <1>0, <1>12, AnswerType, GotoType DEF TraverseFails
  <1>13. CASE UnregisterRule(r)
    BY <1>0, <1>13, GotoType DEF UnregisterRule, Unregistering, At
  <1>14. CASE UnlistRule(r)
    BY <1>0, <1>14, AnswerType, GotoType DEF UnlistRule
  <1> QED BY <1>1, <1>2, <1>3, <1>4, <1>5, <1>6, <1>7, <1>8, <1>9, <1>10, <1>11, <1>12,
             <1>13, <1>14 DEF NewRequest, LockStep, ServeStep

\* The steps of POST and DELETE /multirules.
RuleStep(r) ==
    \/ RegisterRefused(r) \/ RegisterRule(r) \/ ListRule(r) \/ TraverseOK(r)
    \/ TraverseFails(r) \/ UnregisterUnknown(r) \/ UnregisterRule(r) \/ UnlistRule(r)

(* Every step keeps the types.                                               *)
LEMMA NextType == TypeOK /\ [Next]_vars => TypeOK'
  <1> SUFFICES ASSUME TypeOK, [Next]_vars PROVE TypeOK'
    OBVIOUS
  <1> USE DEF TypeOK
  <1>1. ASSUME NEW r \in Req, NewRequest(r) \/ LockStep(r) \/ ServeStep(r)
        PROVE  TypeOK'
    <2>1. ReqTypeOK'
      BY <1>1, ReqType
    <2>2. UNCHANGED dvars
      BY <1>1 DEF NewRequest, LockStep, ServeStep, PostRules, GetState, PostRule, DeleteRule,
           Arrive, ReadDefaults, LockInstall, LockState, RejectUpdate, SwitchPolicy, SwitchFails,
           Assign, GrabMap, GrabFails, ReadPolicy, ReportState, RegisterRefused, RegisterRule,
           ListRule, TraverseOK, TraverseFails, UnregisterUnknown, UnregisterRule, UnlistRule,
           StateFrame, RulesFrame, RuleFrame
    <2>3. DaemonTypeOK'
      BY <2>2, DaemonType
    <2>4. req[r].id \in Nat /\ req[r].rules \in Body /\ req[r].decision \in Decision
      BY DEF Request
    <2>5. Compile(req[r].rules, req[r].decision) \in Policy
      BY <2>4, CompileType
    <2>6. config' \in Config /\ check' \in Config /\ policy' \in Policy
          /\ controlMu' \in Req \cup {Free} /\ arrived' \in 0..MaxRequests
          /\ serving' \in BOOLEAN
      <3>1. CASE NewRequest(r)
        <4>1. PICK q : Arrive(r, q)
          BY <3>1 DEF NewRequest, PostRules, GetState, PostRule, DeleteRule
        <4> QED BY <4>1, ControlAssumption DEF Arrive
      <3>2. CASE SwitchPolicy(r)
        BY <2>4, <2>5, <3>2 DEF SwitchPolicy, RulesFrame, Config
      <3>3. CASE Assign(r)
        BY <2>4, <3>3 DEF Assign, SetConfig, RulesFrame, Config
      <3>4. CASE RuleStep(r)
        BY <3>4 DEF RuleStep, RegisterRefused, RegisterRule, ListRule, TraverseOK, TraverseFails,
           UnregisterUnknown, UnregisterRule, UnlistRule, RuleFrame
      <3>5. CASE LockStep(r) \/ RejectUpdate(r) \/ SwitchFails(r)
        BY <3>5 DEF LockStep, ReadDefaults, LockInstall, LockState, RejectUpdate, SwitchFails,
           StateFrame, RulesFrame
      <3>6. CASE GrabMap(r) \/ GrabFails(r) \/ ReadPolicy(r) \/ ReportState(r)
        BY <3>6 DEF GrabMap, GrabFails, ReadPolicy, ReportState, StateFrame, RulesFrame
      <3> QED BY <1>1, <3>1, <3>2, <3>3, <3>4, <3>5, <3>6 DEF ServeStep, RuleStep
    <2>8. CASE RegisterRule(r)
      BY <2>1, <2>3, <2>6, <2>8 DEF RegisterRule, ReqTypeOK
    <2>9. CASE UnregisterRule(r)
      BY <2>1, <2>3, <2>4, <2>6, <2>9 DEF UnregisterRule, ReqTypeOK
    <2>10. CASE ListRule(r)
      BY <2>1, <2>3, <2>4, <2>6, <2>10 DEF ListRule, ReqTypeOK
    <2>11. CASE NewRequest(r)
      <3>1. UNCHANGED <<tracker, nextID, overtaken, listed>>
        BY <2>11 DEF NewRequest, PostRules, GetState, PostRule, DeleteRule, Arrive
      <3> QED BY <3>1, <2>1, <2>3, <2>6 DEF ReqTypeOK
    <2>12. CASE UnlistRule(r)
      BY <2>1, <2>3, <2>6, <2>12 DEF UnlistRule, ReqTypeOK
    <2>13. CASE LockStep(r) \/ RejectUpdate(r) \/ SwitchPolicy(r) \/ SwitchFails(r) \/ Assign(r)
                \/ GrabMap(r) \/ GrabFails(r) \/ ReadPolicy(r) \/ ReportState(r)
      <3>1. UNCHANGED <<tracker, nextID, overtaken, listed>>
        BY <2>13 DEF LockStep, ReadDefaults, LockInstall, LockState, RejectUpdate,
           SwitchPolicy, SwitchFails, Assign, GrabMap, GrabFails, ReadPolicy, ReportState,
           StateFrame, RulesFrame
      <3> QED BY <3>1, <2>1, <2>3, <2>6 DEF ReqTypeOK
    <2>14. CASE RegisterRefused(r) \/ TraverseOK(r) \/ TraverseFails(r) \/ UnregisterUnknown(r)
      <3>1. UNCHANGED <<tracker, nextID, overtaken, listed>>
        BY <2>14 DEF RegisterRefused, TraverseOK, TraverseFails, UnregisterUnknown
      <3> QED BY <3>1, <2>1, <2>3, <2>6 DEF ReqTypeOK
    <2> QED BY <1>1, <2>8, <2>9, <2>10, <2>11, <2>12, <2>13, <2>14 DEF ServeStep
  <1>2. CASE (CallStop /\ UNCHANGED cvars) \/ StopStep
    <2>1. DaemonTypeOK'
      BY <1>2, DaemonType DEF StopStep
    <2> QED BY <1>2, <2>1 DEF StopStep, cvars
  <1>3. CASE Shutdown
    <2>1. DaemonTypeOK'
      BY <1>3, DaemonType DEF Shutdown
    <2> QED BY <1>3, <2>1 DEF Shutdown
  <1>4. CASE UNCHANGED vars
    <2>1. DaemonTypeOK'
      BY <1>4, DaemonType DEF vars
    <2> QED BY <1>4, <2>1 DEF vars, cvars
  <1> QED BY <1>1, <1>2, <1>3, <1>4 DEF Next

(* Every variable of the control server stays in its type.                   *)
THEOREM TypeCorrect == Spec => []TypeOK
  BY InitType, NextType, PTL DEF Spec

-----------------------------------------------------------------------------
(* The policy, config and controlMu *)

\* The request is inside a critical section of controlMu.
Holds(q) ==
    \/ q.kind = "rules" /\ q.stage \in {"locked", "switched"}
    \/ q.kind = "state" /\ q.stage \in {"locked", "pinned", "reported"}

DoneOK(q, k) ==
    q.done => /\ q.kind = "rules" /\ q.stage = "switched"
              /\ k.rules = q.rules /\ k.decision = q.decision
ReportOK(q, p, c) ==
    q.kind = "state" /\ q.stage = "reported" =>
        /\ q.report.mode = p.mode /\ q.report.names = Names(p)
        /\ q.report.config = c
SeenOK(q, d) ==
    q.kind = "rules" =>
        /\ d \in q.seen
        /\ q.stage # "start" /\ q.given = NoDecision => q.decision \in q.seen

(* Whoever is inside a critical section holds the lock; the policy is the    *)
(* compiled check; and the check is the one of config, or of the request     *)
(* that has switched the policy and will assign config next.                 *)
LockInv == \A r \in Req : Holds(req[r]) <=> controlMu = r
RequestInv ==
    \A r \in Req : /\ DoneOK(req[r], check)
                   /\ ReportOK(req[r], policy, config)
                   /\ SeenOK(req[r], config.decision)
CheckInv ==
    /\ policy = Compile(check.rules, check.decision)
    /\ check = config \/ \E r \in Req : req[r].done
PolicyInv == LockInv /\ RequestInv /\ CheckInv

(* PolicyInv holds initially.                                                *)
LEMMA InitPolicy == Init => PolicyInv
  <1> SUFFICES ASSUME Init PROVE PolicyInv
    OBVIOUS
  <1>1. \A r \in Req : req[r] = NoRequest
    BY DEF Init
  <1>2. LockInv
    BY <1>1, NoRequestOK, ControlAssumption DEF Init, LockInv, Holds
  <1>3. RequestInv
    BY <1>1, NoRequestOK DEF RequestInv, DoneOK, ReportOK, SeenOK, NoRequest
  <1>4. CheckInv
    BY DEF Init, CheckInv
  <1> QED BY <1>2, <1>3, <1>4 DEF PolicyInv

\* Nobody else is inside a critical section.
LEMMA Alone ==
    ASSUME PolicyInv, NEW r \in Req, Holds(req[r]), NEW x \in Req, x # r
    PROVE  ~Holds(req[x]) /\ ~req[x].done
  BY DEF PolicyInv, LockInv, RequestInv, DoneOK, Holds

(* A step that leaves policy, check and config alone.                        *)
LEMMA QuietStep ==
    ASSUME TypeOK, PolicyInv, NEW r \in Req, NEW q, req' = [req EXCEPT ![r] = q],
           UNCHANGED <<config, policy, check>>,
           \/ UNCHANGED controlMu /\ (Holds(q) <=> Holds(req[r]))
           \/ controlMu = Free /\ controlMu' = r /\ Holds(q)
           \/ controlMu = r /\ controlMu' = Free /\ ~Holds(q),
           q.done <=> req[r].done,
           DoneOK(q, check), ReportOK(q, policy, config), SeenOK(q, config.decision)
    PROVE  PolicyInv'
  <1>1. req \in [Req -> Request] /\ req'[r] = q /\ \A x \in Req \ {r} : req'[x] = req[x]
    BY DEF TypeOK
  <1>2. LockInv'
    <2> SUFFICES ASSUME NEW x \in Req PROVE Holds(req'[x]) <=> controlMu' = x
      BY DEF LockInv
    <2>1. \A y \in Req : Holds(req[y]) <=> controlMu = y
      BY DEF PolicyInv, LockInv
    <2>2. CASE x = r
      BY <1>1, <2>1, <2>2, ControlAssumption
    <2>3. CASE x # r
      BY <1>1, <2>1, <2>3, ControlAssumption
    <2> QED BY <2>2, <2>3
  <1>3. RequestInv'
    <2> SUFFICES ASSUME NEW x \in Req
                 PROVE  /\ DoneOK(req'[x], check) /\ ReportOK(req'[x], policy, config)
                        /\ SeenOK(req'[x], config.decision)
      BY DEF RequestInv
    <2> QED BY <1>1 DEF PolicyInv, RequestInv
  <1>4. CheckInv'
    BY <1>1 DEF PolicyInv, CheckInv
  <1> QED BY <1>2, <1>3, <1>4 DEF PolicyInv

(* The step that switches the policy makes its request the one that is done. *)
LEMMA SwitchKeepsPolicy ==
    ASSUME TypeOK, PolicyInv, NEW r \in Req, SwitchPolicy(r)
    PROVE  PolicyInv'
  <1> DEFINE q == [req[r] EXCEPT !.stage = "switched", !.done = TRUE]
  <1>1. /\ req \in [Req -> Request] /\ req'[r] = q
        /\ \A x \in Req \ {r} : req'[x] = req[x]
    BY DEF TypeOK, SwitchPolicy
  <1>2. Holds(req[r]) /\ req[r].kind = "rules"
    BY DEF SwitchPolicy, At, Holds
  <1>3. q.kind = "rules" /\ q.stage = "switched" /\ q.done /\ q.rules = req[r].rules
        /\ q.decision = req[r].decision /\ q.given = req[r].given /\ q.seen = req[r].seen
    BY <1>1, <1>2 DEF Request
  <1>4. LockInv'
    BY <1>1, <1>2, <1>3 DEF PolicyInv, LockInv, SwitchPolicy, Holds
  <1>5. RequestInv'
    <2> SUFFICES ASSUME NEW x \in Req
                 PROVE  /\ DoneOK(req'[x], check') /\ ReportOK(req'[x], policy', config')
                        /\ SeenOK(req'[x], config'.decision)
      BY DEF RequestInv
    <2>1. UNCHANGED config /\ check'.rules = req[r].rules /\ check'.decision = req[r].decision
      BY DEF SwitchPolicy
    <2>2. SeenOK(req[x], config.decision) /\ SeenOK(req[r], config.decision)
      BY DEF PolicyInv, RequestInv
    <2>3. CASE x = r
      <3>1. DoneOK(q, check') /\ ReportOK(q, policy', config')
        BY <1>3, <2>1 DEF DoneOK, ReportOK
      <3>2. req[r].stage # "start"
        BY DEF SwitchPolicy, At
      <3>3. SeenOK(q, config.decision)
        BY <1>2, <1>3, <2>2, <3>2 DEF SeenOK
      <3> QED BY <1>1, <2>1, <2>3, <3>1, <3>3
    <2>4. CASE x # r
      <3>1. ~Holds(req[x]) /\ ~req[x].done
        BY <1>2, <2>4, Alone
      <3> QED BY <1>1, <2>1, <2>2, <2>4, <3>1 DEF DoneOK, ReportOK, Holds
    <2> QED BY <2>3, <2>4
  <1>6. CheckInv'
    BY <1>1, <1>3 DEF CheckInv, SwitchPolicy
  <1> QED BY <1>4, <1>5, <1>6 DEF PolicyInv

(* The step that assigns config ends the critical section with check = config. *)
LEMMA AssignKeepsPolicy ==
    ASSUME TypeOK, PolicyInv, NEW r \in Req, Assign(r)
    PROVE  PolicyInv'
  <1>1. /\ req \in [Req -> Request] /\ req'[r] = NoRequest
        /\ \A x \in Req \ {r} :
              req'[x] = IF req[x].kind = "rules"
                        THEN [req[x] EXCEPT !.seen = @ \cup {config'.decision}] ELSE req[x]
    BY DEF TypeOK, Assign, AnswerAndWitness
  <1>2. Holds(req[r]) /\ controlMu = r /\ controlMu' = Free
    BY DEF Assign, At, Holds, PolicyInv, LockInv
  <1>3. UNCHANGED <<check, policy>>
    BY DEF Assign
  <1>4. ASSUME NEW x \in Req, x # r
        PROVE  /\ req'[x].kind = req[x].kind /\ req'[x].stage = req[x].stage
               /\ req'[x].done = req[x].done /\ req'[x].given = req[x].given
               /\ req'[x].decision = req[x].decision
               /\ req[x].kind = "rules" => req'[x].seen = req[x].seen \cup {config'.decision}
    <2>1. req[x] \in Request
      BY <1>1
    <2> QED BY <1>1, <1>4, <2>1 DEF Request
  <1>5. NoRequest.kind = "none" /\ ~NoRequest.done
    BY DEF NoRequest
  <1>6. LockInv'
    <2> SUFFICES ASSUME NEW x \in Req PROVE ~Holds(req'[x])
      BY <1>2, ControlAssumption DEF LockInv
    <2>1. CASE x = r
      BY <1>1, <1>5, <2>1 DEF Holds
    <2>2. CASE x # r
      BY <1>2, <1>4, <2>2, Alone DEF Holds
    <2> QED BY <2>1, <2>2
  <1>7. RequestInv'
    <2> SUFFICES ASSUME NEW x \in Req
                 PROVE  /\ DoneOK(req'[x], check') /\ ReportOK(req'[x], policy', config')
                        /\ SeenOK(req'[x], config'.decision)
      BY DEF RequestInv
    <2>1. CASE x = r
      BY <1>1, <1>5, <2>1 DEF DoneOK, ReportOK, SeenOK
    <2>2. CASE x # r
      <3>1. ~Holds(req[x]) /\ ~req[x].done
        BY <1>2, <2>2, Alone
      <3>2. DoneOK(req'[x], check') /\ ReportOK(req'[x], policy', config')
        BY <1>4, <2>2, <3>1 DEF DoneOK, ReportOK, Holds
      <3>3. SeenOK(req[x], config.decision)
        BY DEF PolicyInv, RequestInv
      <3>4. SeenOK(req'[x], config'.decision)
        BY <1>4, <2>2, <3>3 DEF SeenOK
      <3> QED BY <3>2, <3>4
    <2> QED BY <2>1, <2>2
  <1>8. check' = config'
    <2>1. CASE req[r].done
      <3>1. check.rules = req[r].rules /\ check.decision = req[r].decision
        BY <2>1 DEF PolicyInv, RequestInv, DoneOK
      <3>2. check = [rules |-> check.rules, decision |-> check.decision]
        BY DEF TypeOK, Config
      <3> QED BY <1>3, <2>1, <3>1, <3>2 DEF Assign, SetConfig
    <2>2. CASE ~req[r].done
      <3>1. \A x \in Req : ~req[x].done
        BY <1>2, <2>2, Alone
      <3> QED BY <1>3, <2>2, <3>1 DEF PolicyInv, CheckInv, Assign
    <2> QED BY <2>1, <2>2
  <1>9. CheckInv'
    BY <1>3, <1>8 DEF PolicyInv, CheckInv
  <1> QED BY <1>6, <1>7, <1>9 DEF PolicyInv

(* An idle or answered request asks nothing of the others.                   *)
LEMMA AnswerKeepsPolicy ==
    ASSUME TypeOK, PolicyInv, NEW r \in Req, Answer(r), ~req[r].done,
           UNCHANGED <<config, policy, check>>,
           \/ UNCHANGED controlMu /\ ~Holds(req[r])
           \/ Holds(req[r]) /\ controlMu' = Free
    PROVE  PolicyInv'
  <1>1. /\ ~Holds(NoRequest) /\ ~NoRequest.done
        /\ DoneOK(NoRequest, check) /\ ReportOK(NoRequest, policy, config)
        /\ SeenOK(NoRequest, config.decision)
    BY DEF Holds, NoRequest, DoneOK, ReportOK, SeenOK
  <1>2. Holds(req[r]) => controlMu = r
    BY DEF PolicyInv, LockInv
  <1> QED BY <1>1, <1>2, QuietStep DEF Answer

(* A step of one request to another stage, inside or outside of the lock.    *)
LEMMA GotoKeepsPolicy ==
    ASSUME TypeOK, PolicyInv, NEW r \in Req, NEW s, Goto(r, s), ~req[r].done,
           UNCHANGED <<config, policy, check>>,
           req[r].kind = "rules" => req[r].stage # "start",
           req[r].kind = "state" => s # "reported",
           LET q == [req[r] EXCEPT !.stage = s]
           IN  \/ UNCHANGED controlMu /\ (Holds(q) <=> Holds(req[r]))
               \/ controlMu = Free /\ controlMu' = r /\ Holds(q)
    PROVE  PolicyInv'
  <1> DEFINE q == [req[r] EXCEPT !.stage = s]
  <1>1. req' = [req EXCEPT ![r] = q]
    BY DEF Goto
  <1>2. req[r] \in Request
    BY DEF TypeOK
  <1>3. /\ q.kind = req[r].kind /\ q.stage = s /\ q.done = req[r].done /\ q.seen = req[r].seen
        /\ q.given = req[r].given /\ q.decision = req[r].decision
    BY <1>2 DEF Request
  <1>4. DoneOK(q, check) /\ ReportOK(q, policy, config)
    BY <1>3 DEF DoneOK, ReportOK
  <1>5. SeenOK(req[r], config.decision)
    BY DEF PolicyInv, RequestInv
  <1>6. SeenOK(q, config.decision)
    BY <1>3, <1>5 DEF SeenOK
  <1> QED BY <1>1, <1>3, <1>4, <1>6, QuietStep

(* A request starts at "start", with the mark that is in force.              *)
LEMMA FreshRequest ==
    ASSUME NEW r \in Req, NewRequest(r)
    PROVE  \E q : /\ Arrive(r, q) /\ q.done = FALSE /\ q.stage = "start"
                  /\ q.kind = "rules" => q.seen = {config.decision}
  <1>1. CASE PostRules(r)
    <2>1. PICK rs \in Bodies, d \in Decision \cup {NoDecision} :
            Arrive(r, [NoRequest EXCEPT !.kind = "rules", !.rules = rs, !.given = d,
                                        !.seen = {config.decision}])
      BY <1>1 DEF PostRules
    <2> DEFINE q == [NoRequest EXCEPT !.kind = "rules", !.rules = rs, !.given = d,
                                      !.seen = {config.decision}]
    <2>2. q.done = FALSE /\ q.stage = "start" /\ q.seen = {config.decision}
      BY DEF NoRequest
    <2> QED BY <2>1, <2>2
  <1>2. CASE GetState(r)
    BY <1>2 DEF GetState, NoRequest
  <1>3. CASE PostRule(r)
    <2>1. PICK rs \in Bodies : Arrive(r, [NoRequest EXCEPT !.kind = "post", !.rules = rs])
      BY <1>3 DEF PostRule
    <2> DEFINE q == [NoRequest EXCEPT !.kind = "post", !.rules = rs]
    <2>2. q.done = FALSE /\ q.stage = "start" /\ q.kind = "post"
      BY DEF NoRequest
    <2> QED BY <2>1, <2>2
  <1>4. CASE DeleteRule(r)
    <2>1. PICK id \in 1..nextID : Arrive(r, [NoRequest EXCEPT !.kind = "delete", !.id = id])
      BY <1>4 DEF DeleteRule
    <2> DEFINE q == [NoRequest EXCEPT !.kind = "delete", !.id = id]
    <2>2. q.done = FALSE /\ q.stage = "start" /\ q.kind = "delete"
      BY DEF NoRequest
    <2> QED BY <2>1, <2>2
  <1> QED BY <1>1, <1>2, <1>3, <1>4 DEF NewRequest

(* Every step keeps PolicyInv.                                               *)
LEMMA NextPolicy == TypeOK /\ PolicyInv /\ [Next]_vars => PolicyInv'
  <1> SUFFICES ASSUME TypeOK, PolicyInv, [Next]_vars PROVE PolicyInv'
    OBVIOUS
  <1>1. ASSUME NEW r \in Req, NewRequest(r) PROVE PolicyInv'
    <2>1. PICK q : /\ Arrive(r, q) /\ q.done = FALSE /\ q.stage = "start"
                   /\ q.kind = "rules" => q.seen = {config.decision}
      BY <1>1, FreshRequest
    <2>2. req' = [req EXCEPT ![r] = q] /\ UNCHANGED <<config, policy, check, controlMu>>
          /\ req[r].kind = "none"
      BY <2>1 DEF Arrive
    <2>3. ~Holds(q) /\ ~Holds(req[r])
      BY <2>1, <2>2 DEF Holds
    <2>4. ~req[r].done
      BY <2>2 DEF PolicyInv, RequestInv, DoneOK
    <2>5. DoneOK(q, check) /\ ReportOK(q, policy, config) /\ SeenOK(q, config.decision)
      BY <2>1 DEF DoneOK, ReportOK, SeenOK
    <2> QED BY <2>1, <2>2, <2>3, <2>4, <2>5, QuietStep
  <1>2. ASSUME NEW r \in Req, LockStep(r) \/ ServeStep(r) PROVE PolicyInv'
    <2> USE DEF At
    <2>0. req[r] \in Request /\ (req[r].done => At(r, "rules", "switched"))
          /\ req[r].stage \in Stage[req[r].kind] /\ req[r].kind \in DOMAIN Stage
      BY DEF TypeOK, PolicyInv, RequestInv, DoneOK, Request
    <2>1. CASE ReadDefaults(r)
      <3> DEFINE q == [req[r] EXCEPT !.stage = "parsed", !.decision = WithDefault(r)]
      <3>1. req' = [req EXCEPT ![r] = q] /\ UNCHANGED <<config, policy, check, controlMu>>
            /\ At(r, "rules", "start")
        BY <2>1 DEF ReadDefaults
      <3>2. /\ q.kind = "rules" /\ q.stage = "parsed" /\ q.done = req[r].done
            /\ q.seen = req[r].seen /\ q.given = req[r].given /\ q.decision = WithDefault(r)
        BY <2>0, <3>1 DEF Request
      <3>3. ~Holds(q) /\ ~Holds(req[r]) /\ ~req[r].done
        BY <2>0, <3>1, <3>2 DEF Holds
      <3>4. DoneOK(q, check) /\ ReportOK(q, policy, config)
        BY <3>2, <3>3 DEF DoneOK, ReportOK
      <3>5. config.decision \in req[r].seen
        BY <3>1 DEF PolicyInv, RequestInv, SeenOK
      <3>6. SeenOK(q, config.decision)
        BY <3>2, <3>5 DEF SeenOK, WithDefault
      <3> QED BY <3>1, <3>2, <3>3, <3>4, <3>6, QuietStep
    <2>2. CASE LockInstall(r) \/ LockState(r)
      <3> DEFINE q == [req[r] EXCEPT !.stage = "locked"]
      <3>1. /\ Goto(r, "locked") /\ controlMu = Free /\ controlMu' = r
            /\ UNCHANGED <<config, policy, check>>
            /\ At(r, "rules", "parsed") \/ At(r, "state", "start")
        BY <2>2 DEF LockInstall, LockState, StateFrame
      <3>2. Holds(q)
        BY <2>0, <3>1 DEF Request, Holds
      <3> QED BY <2>0, <3>1, <3>2, GotoKeepsPolicy
    <2>3. CASE SwitchFails(r)
      <3> DEFINE q == [req[r] EXCEPT !.stage = "switched"]
      <3>1. /\ Goto(r, "switched") /\ UNCHANGED <<config, policy, check, controlMu>>
            /\ At(r, "rules", "locked")
        BY <2>3 DEF SwitchFails
      <3>2. Holds(q) /\ Holds(req[r])
        BY <2>0, <3>1 DEF Request, Holds
      <3> QED BY <2>0, <3>1, <3>2, GotoKeepsPolicy
    <2>4. CASE GrabMap(r)
      <3> DEFINE q == [req[r] EXCEPT !.stage = "pinned"]
      <3>1. /\ Goto(r, "pinned") /\ UNCHANGED <<config, policy, check, controlMu>>
            /\ At(r, "state", "locked")
        BY <2>4 DEF GrabMap, StateFrame
      <3>2. Holds(q) /\ Holds(req[r])
        BY <2>0, <3>1 DEF Request, Holds
      <3> QED BY <2>0, <3>1, <3>2, GotoKeepsPolicy
    <2>5. CASE GrabFails(r) \/ ReportState(r)
      <3>1. /\ Answer(r) /\ controlMu' = Free /\ UNCHANGED <<config, policy, check>>
            /\ At(r, "state", "locked") \/ At(r, "state", "reported")
        BY <2>5 DEF GrabFails, ReportState, StateFrame
      <3> QED BY <2>0, <3>1, AnswerKeepsPolicy DEF Holds
    <2>6. CASE ReadPolicy(r)
      <3> DEFINE t == [mode |-> policy.mode, names |-> Names(policy), config |-> config]
      <3> DEFINE q == [req[r] EXCEPT !.stage = "reported", !.report = t]
      <3>1. req' = [req EXCEPT ![r] = q] /\ UNCHANGED <<config, policy, check, controlMu>>
            /\ At(r, "state", "pinned")
        BY <2>6 DEF ReadPolicy, StateFrame
      <3>2. /\ q.kind = "state" /\ q.stage = "reported" /\ q.done = req[r].done
            /\ q.report = t
        BY <2>0, <3>1 DEF Request
      <3>3. Holds(q) /\ Holds(req[r]) /\ ~req[r].done
        BY <2>0, <3>1, <3>2 DEF Holds
      <3>4. DoneOK(q, check) /\ ReportOK(q, policy, config) /\ SeenOK(q, config.decision)
        BY <3>2, <3>3 DEF DoneOK, ReportOK, SeenOK
      <3> QED BY <3>1, <3>2, <3>3, <3>4, QuietStep
    <2>7. CASE RegisterRule(r)
      <3> DEFINE q == [req[r] EXCEPT !.stage = "registered", !.id = nextID, !.rules = InitRules]
      <3>1. req' = [req EXCEPT ![r] = q] /\ UNCHANGED <<config, policy, check, controlMu>>
            /\ At(r, "post", "start")
        BY <2>7 DEF RegisterRule, RuleFrame
      <3>2. q.kind = "post" /\ q.done = req[r].done /\ ~req[r].done
        BY <2>0, <3>1 DEF Request
      <3>3. ~Holds(q) /\ ~Holds(req[r]) /\ DoneOK(q, check) /\ ReportOK(q, policy, config)
            /\ SeenOK(q, config.decision)
        BY <3>1, <3>2 DEF Holds, DoneOK, ReportOK, SeenOK
      <3> QED BY <3>1, <3>2, <3>3, QuietStep
    <2>8. CASE RuleStep(r) /\ ~RegisterRule(r)
      <3>1. req[r].kind \in {"post", "delete"} /\ UNCHANGED <<config, policy, check, controlMu>>
        BY <2>0, <2>8, StageFacts DEF RuleStep, RegisterRefused, ListRule, TraverseOK,
           TraverseFails, UnregisterUnknown, UnregisterRule, UnlistRule, Unregistering, RuleFrame
      <3>2. ~Holds(req[r]) /\ ~req[r].done
        BY <2>0, <3>1 DEF Holds
      <3>3. ASSUME NEW s, Goto(r, s) PROVE PolicyInv'
        <4>1. ~Holds([req[r] EXCEPT !.stage = s])
          BY <2>0, <3>1 DEF Request, Holds
        <4> QED BY <3>1, <3>2, <3>3, <4>1, GotoKeepsPolicy
      <3>4. ASSUME Answer(r) PROVE PolicyInv'
        BY <3>1, <3>2, <3>4, AnswerKeepsPolicy
      <3>5. Answer(r) \/ \E s \in AllStages : Goto(r, s)
        BY <2>8 DEF RuleStep, RegisterRefused, ListRule, TraverseOK, TraverseFails,
           UnregisterUnknown, UnregisterRule, UnlistRule, AllStages
      <3> QED BY <3>3, <3>4, <3>5
    <2>9. CASE RejectUpdate(r)
      <3>1. Answer(r) /\ UNCHANGED <<config, policy, check, controlMu>> /\ At(r, "rules", "parsed")
        BY <2>9 DEF RejectUpdate
      <3> QED BY <2>0, <3>1, AnswerKeepsPolicy DEF Holds
    <2> QED BY <1>2, <2>1, <2>2, <2>3, <2>4, <2>5, <2>6, <2>7, <2>8, <2>9, SwitchKeepsPolicy,
               AssignKeepsPolicy DEF LockStep, ServeStep, RuleStep
  <1>3. CASE UNCHANGED <<config, policy, check, controlMu, req>>
    BY <1>3 DEF PolicyInv, LockInv, RequestInv, CheckInv
  <1> QED BY <1>1, <1>2, <1>3 DEF Next, StopStep, Shutdown, vars, cvars

(* What follows from the types and PolicyInv.                                *)
LEMMA PolicyInvImplies ==
    TypeOK /\ PolicyInv =>
        PolicyMatchesConfig /\ PolicyAgrees /\ ReportConsistent /\ DefaultsFresh
  <1> SUFFICES ASSUME TypeOK, PolicyInv
               PROVE  PolicyMatchesConfig /\ PolicyAgrees /\ ReportConsistent /\ DefaultsFresh
    OBVIOUS
  <1>1. \A r \in Req : req[r].done => Holds(req[r]) /\ req[r].kind = "rules"
    BY DEF PolicyInv, RequestInv, DoneOK, Holds
  <1>2. PolicyMatchesConfig
    BY <1>1, ControlAssumption DEF PolicyInv, LockInv, CheckInv, PolicyMatchesConfig
  <1>3. PolicyAgrees
    <2>1. check.rules \in Rules /\ check.decision \in Decision
      BY ControlAssumption DEF TypeOK, Config, Body
    <2> QED BY <2>1, CompileAgrees DEF PolicyInv, CheckInv, PolicyAgrees
  <1>4. ReportConsistent
    <2> SUFFICES ASSUME NEW r \in Req, At(r, "state", "reported")
                 PROVE  LET t == req[r].report
                            p == Compile(t.config.rules, t.config.decision)
                        IN  t.mode = p.mode /\ t.names = Names(p)
      BY DEF ReportConsistent
    <2>1. Holds(req[r]) /\ req[r].kind = "state"
      BY DEF At, Holds
    <2>2. check = config
      BY <1>1, <2>1, Alone DEF PolicyInv, CheckInv
    <2> QED BY <2>2 DEF PolicyInv, CheckInv, RequestInv, ReportOK, At
  <1>5. DefaultsFresh
    BY DEF PolicyInv, RequestInv, SeenOK, DefaultsFresh
  <1> QED BY <1>2, <1>3, <1>4, <1>5

(* Types and PolicyInv always hold.                                          *)
LEMMA PolicyInvariant == Spec => [](TypeOK /\ PolicyInv)
  BY InitPolicy, NextPolicy, TypeCorrect, PTL DEF Spec

(* Whenever controlMu is free the policy in force and the check are those of *)
(* config: an update assigns all three in one critical section, or none.     *)
THEOREM PolicyMatches == Spec => []PolicyMatchesConfig
  BY PolicyInvariant, PolicyInvImplies, PTL

(* Exec program and check callback always decide alike, updates in progress  *)
(* included, because one compiled policy replaces another.                   *)
THEOREM PolicyHonoursContract == Spec => []PolicyAgrees
  BY PolicyInvariant, PolicyInvImplies, PTL

(* What GET /state reads of the daemon belongs to what it reads of config,   *)
(* although it reads them one after the other.                               *)
THEOREM ReportsConsistent == Spec => []ReportConsistent
  BY PolicyInvariant, PolicyInvImplies, PTL

(* The mark that POST /rules takes for want of one in the body was in force  *)
(* at some time while the request was served.                                *)
THEOREM DefaultsAreFresh == Spec => []DefaultsFresh
  BY PolicyInvariant, PolicyInvImplies, PTL

-----------------------------------------------------------------------------
(* The multirule list and the tracker *)

\* Between RegisterRule and the list, and between UnregisterRule and the list.
Listing(q) == q.kind = "post" /\ q.stage = "registered"
Unlisting(q) == q.stage = "unlist"

(* An ID is given out once.  Whoever is about to list a rule is the only one *)
(* to do so, and the rule is tracked unless it has been overtaken.           *)
IDInv ==
    /\ \A id \in tracker \cup listed : id < nextID
    /\ \A r \in Req : Listing(req[r]) =>
          /\ req[r].id < nextID /\ req[r].id \notin listed
          /\ req[r].id \in tracker \cup overtaken
    /\ \A r \in Req : Unlisting(req[r]) => req[r].id < nextID /\ req[r].id \notin tracker
    /\ \A r, x \in Req : Listing(req[r]) /\ Listing(req[x]) /\ req[r].id = req[x].id => r = x
AgreeInv ==
    /\ \A id \in tracker \ listed : \E r \in Req : Listing(req[r]) /\ req[r].id = id
    /\ \A id \in listed \ tracker :
          id \in overtaken \/ \E r \in Req : Unlisting(req[r]) /\ req[r].id = id
ManagerInv == IDInv /\ AgreeInv

(* A step that touches neither rule list.                                    *)
LEMMA QuietForManager ==
    ASSUME ManagerInv, UNCHANGED <<tracker, listed, nextID, overtaken>>,
           \A x \in Req :
              /\ Listing(req'[x]) <=> Listing(req[x])
              /\ Unlisting(req'[x]) <=> Unlisting(req[x])
              /\ Listing(req[x]) \/ Unlisting(req[x]) => req'[x].id = req[x].id
    PROVE  ManagerInv'
  BY DEF ManagerInv, IDInv, AgreeInv

(* Only the request r moves, and neither before nor after the step is it     *)
(* between tracker and list.                                                 *)
LEMMA BystanderStep ==
    ASSUME TypeOK, ManagerInv, UNCHANGED <<tracker, listed, nextID, overtaken>>,
           NEW r \in Req, NEW q, req' = [req EXCEPT ![r] = q],
           ~Listing(req[r]), ~Unlisting(req[r]), ~Listing(q), ~Unlisting(q)
    PROVE  ManagerInv'
  <1>1. req'[r] = q /\ \A x \in Req \ {r} : req'[x] = req[x]
    BY DEF TypeOK
  <1> QED BY <1>1, QuietForManager

(* Every step keeps ManagerInv.                                              *)
LEMMA NextManager == TypeOK /\ ManagerInv /\ [Next]_vars => ManagerInv'
  <1> SUFFICES ASSUME TypeOK, ManagerInv, [Next]_vars PROVE ManagerInv'
    OBVIOUS
  <1> USE DEF At
  <1>0. /\ nextID \in Nat /\ tracker \subseteq Nat /\ listed \subseteq Nat
        /\ req \in [Req -> Request] /\ \A x \in Req : req[x] \in Request /\ req[x].id \in Nat
    BY DEF TypeOK, Request
  <1>1. ASSUME NEW r \in Req, NewRequest(r) PROVE ManagerInv'
    <2>1. PICK q : Arrive(r, q) /\ q.stage = "start"
      BY <1>1, FreshRequest
    <2>2. req[r].stage = "start"
      BY <2>1, StageFacts DEF Arrive, TypeOK
    <2> QED BY <2>1, <2>2, BystanderStep DEF Arrive, Listing, Unlisting
  <1>2. ASSUME NEW r \in Req, RegisterRule(r) PROVE ManagerInv'
    <2>1. /\ \A x \in Req : x # r => req'[x] = req[x]
          /\ tracker' = tracker \cup {nextID} /\ nextID' = nextID + 1
          /\ UNCHANGED <<listed, overtaken>> /\ At(r, "post", "start")
      BY <1>0, <1>2 DEF RegisterRule
    <2>2. Listing(req'[r]) /\ ~Unlisting(req'[r]) /\ req'[r].id = nextID
      BY <1>0, <1>2 DEF RegisterRule, Request, Listing, Unlisting
    <2>3. \A id \in tracker \cup listed : id # nextID
      BY <1>0 DEF ManagerInv, IDInv
    <2>4. \A x \in Req : Listing(req[x]) \/ Unlisting(req[x]) =>
              req[x].id < nextID /\ req[x].id < nextID + 1 /\ req[x].id # nextID
      BY <1>0 DEF ManagerInv, IDInv
    <2>5. IDInv'
      <3>1. \A id \in tracker' \cup listed' : id < nextID'
        BY <1>0, <2>1 DEF ManagerInv, IDInv
      <3>2. ASSUME NEW x \in Req, Listing(req'[x])
            PROVE  /\ req'[x].id < nextID' /\ req'[x].id \notin listed'
                   /\ req'[x].id \in tracker' \cup overtaken'
        <4>1. CASE x = r
          BY <1>0, <2>1, <2>2, <2>3, <4>1
        <4>2. CASE x # r
          BY <2>1, <2>4, <3>2, <4>2 DEF ManagerInv, IDInv
        <4> QED BY <4>1, <4>2
      <3>3. ASSUME NEW x \in Req, Unlisting(req'[x])
            PROVE  req'[x].id < nextID' /\ req'[x].id \notin tracker'
        BY <2>1, <2>2, <2>4, <3>3 DEF ManagerInv, IDInv
      <3>4. ASSUME NEW x \in Req, NEW y \in Req, Listing(req'[x]), Listing(req'[y]),
                   req'[x].id = req'[y].id
            PROVE  x = y
        <4>1. CASE x = r \/ y = r
          BY <2>1, <2>2, <2>4, <3>4, <4>1
        <4>2. CASE x # r /\ y # r
          BY <2>1, <3>4, <4>2 DEF ManagerInv, IDInv
        <4> QED BY <4>1, <4>2
      <3> QED BY <3>1, <3>2, <3>3, <3>4 DEF IDInv
    <2>6. AgreeInv'
      <3>1. ASSUME NEW id \in tracker' \ listed'
            PROVE  \E x \in Req : Listing(req'[x]) /\ req'[x].id = id
        <4>1. CASE id = nextID
          BY <2>2, <4>1
        <4>2. CASE id # nextID
          <5>1. PICK x \in Req : Listing(req[x]) /\ req[x].id = id
            BY <2>1, <3>1, <4>2 DEF ManagerInv, AgreeInv
          <5>2. x # r
            BY <2>1, <5>1 DEF Listing
          <5> QED BY <2>1, <5>1, <5>2
        <4> QED BY <4>1, <4>2
      <3>2. ASSUME NEW id \in listed' \ tracker', id \notin overtaken'
            PROVE  \E x \in Req : Unlisting(req'[x]) /\ req'[x].id = id
        <4>1. PICK x \in Req : Unlisting(req[x]) /\ req[x].id = id
          BY <2>1, <3>2 DEF ManagerInv, AgreeInv
        <4>2. x # r
          BY <2>1, <4>1 DEF Unlisting
        <4> QED BY <2>1, <4>1, <4>2
      <3> QED BY <3>1, <3>2 DEF AgreeInv
    <2> QED BY <2>5, <2>6 DEF ManagerInv
  <1>3. ASSUME NEW r \in Req, ListRule(r) PROVE ManagerInv'
    <2>1. /\ req'[r] = [req[r] EXCEPT !.stage = "traverse"]
          /\ \A x \in Req \ {r} : req'[x] = req[x]
          /\ listed' = listed \cup {req[r].id} /\ UNCHANGED <<tracker, nextID, overtaken>>
          /\ Listing(req[r])
      BY <1>0, <1>3 DEF ListRule, Goto, Listing
    <2>2. ~Listing(req'[r]) /\ ~Unlisting(req'[r]) /\ ~Unlisting(req[r])
      BY <1>0, <2>1 DEF Request, Listing, Unlisting
    <2>3. \A x \in Req \ {r} : Listing(req[x]) => req[x].id # req[r].id
      BY <2>1 DEF ManagerInv, IDInv
    <2>4. req[r].id < nextID /\ req[r].id \in tracker \cup overtaken
      BY <2>1 DEF ManagerInv, IDInv
    <2>5. IDInv'
      BY <2>1, <2>2, <2>3, <2>4 DEF ManagerInv, IDInv
    <2>6. AgreeInv'
      BY <2>1, <2>2, <2>4 DEF ManagerInv, AgreeInv
    <2> QED BY <2>5, <2>6 DEF ManagerInv
  <1>4. ASSUME NEW r \in Req, UnregisterRule(r) PROVE ManagerInv'
    <2>1. /\ req'[r] = [req[r] EXCEPT !.stage = "unlist"]
          /\ \A x \in Req \ {r} : req'[x] = req[x]
          /\ req[r].id \in tracker /\ tracker' = tracker \ {req[r].id}
          /\ overtaken' = IF req[r].id \in listed THEN overtaken ELSE overtaken \cup {req[r].id}
          /\ UNCHANGED <<listed, nextID>>
          /\ ~Listing(req[r]) /\ ~Unlisting(req[r])
      BY <1>0, <1>4 DEF UnregisterRule, Unregistering, Goto, Listing, Unlisting
    <2>2. ~Listing(req'[r]) /\ Unlisting(req'[r]) /\ req'[r].id = req[r].id
      BY <1>0, <2>1 DEF Request, Listing, Unlisting
    <2>3. IDInv'
      BY <2>1, <2>2 DEF ManagerInv, IDInv
    <2>4. AgreeInv'
      <3>1. ASSUME NEW id \in tracker' \ listed'
            PROVE  \E x \in Req : Listing(req'[x]) /\ req'[x].id = id
        <4>1. PICK x \in Req : Listing(req[x]) /\ req[x].id = id
          BY <2>1, <3>1 DEF ManagerInv, AgreeInv
        <4> QED BY <2>1, <4>1
      <3>2. ASSUME NEW id \in listed' \ tracker', id \notin overtaken'
            PROVE  \E x \in Req : Unlisting(req'[x]) /\ req'[x].id = id
        <4>1. CASE id = req[r].id
          BY <2>2, <4>1
        <4>2. CASE id # req[r].id
          <5>1. PICK x \in Req : Unlisting(req[x]) /\ req[x].id = id
            BY <2>1, <3>2, <4>2 DEF ManagerInv, AgreeInv
          <5> QED BY <2>1, <5>1
        <4> QED BY <4>1, <4>2
      <3> QED BY <3>1, <3>2 DEF AgreeInv
    <2> QED BY <2>3, <2>4 DEF ManagerInv
  <1>5. ASSUME NEW r \in Req, UnlistRule(r) PROVE ManagerInv'
    <2>1. /\ \A x \in Req \ {r} : req'[x] = req[x]
          /\ listed' = listed \ {req[r].id} /\ UNCHANGED <<tracker, nextID, overtaken>>
          /\ Unlisting(req[r])
      BY <1>0, <1>5 DEF UnlistRule, Goto, Answer, Unlisting
    <2>2. ~Listing(req'[r]) /\ ~Unlisting(req'[r]) /\ ~Listing(req[r])
      <3>1. CASE Goto(r, "traverse")
        BY <1>0, <2>1, <3>1 DEF Goto, Request, Listing, Unlisting
      <3>2. CASE Answer(r)
        BY <1>0, <2>1, <3>2, NoRequestOK DEF Answer, Listing, Unlisting
      <3> QED BY <1>5, <3>1, <3>2 DEF UnlistRule
    <2>3. req[r].id \notin tracker
      BY <2>1 DEF ManagerInv, IDInv
    <2>4. IDInv'
      BY <2>1, <2>2 DEF ManagerInv, IDInv
    <2>5. AgreeInv'
      BY <2>1, <2>2, <2>3 DEF ManagerInv, AgreeInv
    <2> QED BY <2>4, <2>5 DEF ManagerInv
  <1>6. ASSUME NEW r \in Req, Assign(r) PROVE ManagerInv'
    <2>1. \A x \in Req : x # r => /\ req'[x].kind = req[x].kind /\ req'[x].stage = req[x].stage
                                  /\ req'[x].id = req[x].id
      BY <1>0, <1>6 DEF Assign, AnswerAndWitness, Request
    <2>2. req'[r] = NoRequest /\ At(r, "rules", "switched")
          /\ UNCHANGED <<tracker, listed, nextID, overtaken>>
      BY <1>6 DEF Assign, AnswerAndWitness, RulesFrame
    <2> QED BY <2>1, <2>2, NoRequestOK, QuietForManager DEF Listing, Unlisting
  <1>7. ASSUME NEW r \in Req,
               \/ ReadDefaults(r) \/ SwitchPolicy(r) \/ ReadPolicy(r)
        PROVE  ManagerInv'
    <2>1. UNCHANGED <<tracker, listed, nextID, overtaken>>
          /\ ~Listing(req[r]) /\ ~Unlisting(req[r])
      BY <1>7 DEF ReadDefaults, SwitchPolicy, ReadPolicy, StateFrame, RulesFrame, Listing,
           Unlisting
    <2>2. PICK q : req' = [req EXCEPT ![r] = q] /\ q.stage \in {"parsed", "switched", "reported"}
      <3>1. CASE ReadDefaults(r)
        <4> DEFINE q == [req[r] EXCEPT !.stage = "parsed", !.decision = WithDefault(r)]
        <4>1. req' = [req EXCEPT ![r] = q]
          BY <3>1 DEF ReadDefaults
        <4>2. q.stage \in {"parsed", "switched", "reported"}
          BY <1>0 DEF Request
        <4> QED BY <4>1, <4>2
      <3>2. CASE SwitchPolicy(r)
        <4> DEFINE q == [req[r] EXCEPT !.stage = "switched", !.done = TRUE]
        <4>1. req' = [req EXCEPT ![r] = q]
          BY <3>2 DEF SwitchPolicy
        <4>2. q.stage \in {"parsed", "switched", "reported"}
          BY <1>0 DEF Request
        <4> QED BY <4>1, <4>2
      <3>3. CASE ReadPolicy(r)
        <4> DEFINE t == [mode |-> policy.mode, names |-> Names(policy), config |-> config]
        <4> DEFINE q == [req[r] EXCEPT !.stage = "reported", !.report = t]
        <4>1. req' = [req EXCEPT ![r] = q]
          BY <3>3 DEF ReadPolicy
        <4>2. q.stage \in {"parsed", "switched", "reported"}
          BY <1>0 DEF Request
        <4> QED BY <4>1, <4>2
      <3> QED BY <1>7, <3>1, <3>2, <3>3
    <2> QED BY <2>1, <2>2, BystanderStep DEF Listing, Unlisting
  <1>8. ASSUME NEW r \in Req,
               \/ LockInstall(r) \/ LockState(r) \/ RejectUpdate(r) \/ SwitchFails(r)
               \/ GrabMap(r) \/ GrabFails(r) \/ ReportState(r) \/ RegisterRefused(r)
               \/ TraverseOK(r) \/ TraverseFails(r) \/ UnregisterUnknown(r)
        PROVE  ManagerInv'
    <2>1. UNCHANGED <<tracker, listed, nextID, overtaken>>
          /\ ~Listing(req[r]) /\ ~Unlisting(req[r])
      BY <1>8 DEF LockInstall, LockState, RejectUpdate, SwitchFails, GrabMap, GrabFails,
           ReportState, RegisterRefused, TraverseOK, TraverseFails, UnregisterUnknown,
           Unregistering, StateFrame, RulesFrame, Listing, Unlisting
    <2>2. Answer(r) \/ \E s \in AllStages \ {"registered", "unlist"} : Goto(r, s)
      BY <1>8 DEF LockInstall, LockState, RejectUpdate, SwitchFails, GrabMap, GrabFails,
           ReportState, RegisterRefused, TraverseOK, TraverseFails, UnregisterUnknown, AllStages
    <2>3. CASE Answer(r)
      BY <2>1, <2>3, NoRequestOK, BystanderStep DEF Answer, Listing, Unlisting
    <2>4. ASSUME NEW s \in AllStages \ {"registered", "unlist"}, Goto(r, s) PROVE ManagerInv'
      <3> DEFINE q == [req[r] EXCEPT !.stage = s]
      <3>1. req' = [req EXCEPT ![r] = q] /\ q.stage = s
        BY <1>0, <2>4 DEF Goto, Request
      <3> QED BY <2>1, <2>4, <3>1, BystanderStep DEF Listing, Unlisting
    <2> QED BY <2>2, <2>3, <2>4
  <1>9. CASE UNCHANGED <<req, tracker, listed, nextID, overtaken>>
    BY <1>9 DEF ManagerInv, IDInv, AgreeInv
  <1> QED BY <1>1, <1>2, <1>3, <1>4, <1>5, <1>6, <1>7, <1>8, <1>9
          DEF Next, LockStep, ServeStep, StopStep, Shutdown, vars, cvars

(* The tracker and the list of multirules disagree only about rules whose    *)
(* registration or removal is in progress, and about those that a DELETE     *)
(* removed before they were listed.                                          *)
THEOREM ManagerCorrect == Spec => []ManagerAgrees
  <1>1. Init => ManagerInv
    BY NoRequestOK DEF Init, ManagerInv, IDInv, AgreeInv, Listing, Unlisting
  <1>2. ManagerInv => ManagerAgrees
    BY DEF ManagerInv, AgreeInv, ManagerAgrees, Listing, Unlisting, At
  <1> QED BY <1>1, <1>2, NextManager, TypeCorrect, PTL DEF Spec
=============================================================================
