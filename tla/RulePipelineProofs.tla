-------------------------- MODULE RulePipelineProofs --------------------------
(***************************************************************************)
(* Proofs about RulePipeline, for any devices, hosts, connections, targets *)
(* and files: what the compiler takes could have been saved, and of what   *)
(* was saved only a target may go missing; what is merged into the file is *)
(* accepted, leaves the user's part alone, and routes as it is wired.      *)
(***************************************************************************)
EXTENDS RulePipelineProps, OrderingProofs, SequenceTheorems, TLAPS

(* What the compiler asks of every filter it asks of every edge into it,   *)
(* so it asks for all that the save asks for. *)
LEMMA CompilerNotLaxer ==
  ASSUME NEW nodes, NEW g, Compiles(nodes, g)
  PROVE  ValidateEdges(nodes, g)
<1> SUFFICES ASSUME NEW e \in g PROVE Available(nodes, e) /\ Valid(e)
  BY DEF ValidateEdges
<1>1. Available(nodes, e) /\ (Enters(e) \/ Leaves(e))
  BY DEF Compiles
<1>2. CASE Leaves(e)
  BY <1>1, <1>2 DEF Valid
<1>3. CASE Enters(e)
  <2>1. e[2] \in Filters(g) /\ e \in Into(g, e[2])
    BY <1>3 DEF Filters, Into, Enters
  <2>2. Own(e)
    BY <2>1 DEF Compiles, CompilesFilter
  <2> QED BY <1>1, <1>3, <2>2 DEF Valid
<1> QED BY <1>1, <1>2, <1>3

(* The compiler is never laxer than the save (compiler.go:39-127,          *)
(* validator.go:33-85). *)
THEOREM NotLaxerHolds == Spec => []NotLaxer
<1>1. NotLaxer
  BY CompilerNotLaxer DEF NotLaxer
<1> QED BY <1>1, PTL

(* ------------------------ the lines of the file ------------------------ *)

LEMMA IsSeq ==
  ASSUME NEW S, NEW n \in Nat, NEW s, DOMAIN s = 1..n, s = [i \in 1..n |-> s[i]],
         \A i \in 1..n : s[i] \in S
  PROVE  s \in Seq(S) /\ Len(s) = n
BY IsASeq, LenProperties

(* The user's lines of a file are lines of it, and the user's. *)
LEMMA UsersRulesAre ==
  ASSUME NEW S, NEW rules \in Seq(S)
  PROVE  UsersRules(rules) \in Seq({x \in S : IsUsers(x)})
<1> DEFINE U == {i \in DOMAIN rules : IsUsers(rules[i])}
           n == Cardinality(U)
<1>1. DOMAIN rules = 1..Len(rules) /\ Len(rules) \in Nat /\ \A i \in DOMAIN rules : rules[i] \in S
  BY LenProperties, ElementOfSeq
<1>2. U \in SUBSET Nat /\ IsFiniteSet(U)
  <2>1. U \in SUBSET (1..Len(rules))
    BY <1>1
  <2>2. IsFiniteSet(1..Len(rules))
    BY <1>1, FS_Interval
  <2> QED BY <2>1, <2>2, FS_Subset
<1>3. /\ n \in Nat
      /\ DOMAIN InOrder(U) = 1..n
      /\ \A k \in 1..n : InOrder(U)[k] \in U
  BY <1>2, InOrderIsAll
<1>4. UsersRules(rules) = [k \in 1..n |-> rules[InOrder(U)[k]]]
  BY <1>3 DEF UsersRules
<1>5. \A k \in 1..n : UsersRules(rules)[k] \in {x \in S : IsUsers(x)}
  BY <1>1, <1>3, <1>4
<1> HIDE DEF n
<1> QED BY <1>3, <1>4, <1>5, IsSeq

(* They are what is left of a file that has FlowCanvas' lines before them. *)
LEMMA UsersRulesBehind ==
  ASSUME NEW S, NEW managed \in Seq(S), NEW users \in Seq(S),
         \A i \in DOMAIN managed : ~IsUsers(managed[i]),
         \A i \in DOMAIN users : IsUsers(users[i])
  PROVE  UsersRules(managed \o users) = users
<1> DEFINE m == Len(managed)
           n == Len(users)
           rules == managed \o users
<1>1. m \in Nat /\ n \in Nat /\ DOMAIN managed = 1..m /\ DOMAIN users = 1..n
  BY LenProperties
<1>2. /\ DOMAIN rules = 1..(m + n)
      /\ \A i \in 1..m : rules[i] = managed[i]
      /\ \A i \in 1..n : rules[m + i] = users[i]
  <2>1. /\ rules \in Seq(S) /\ Len(rules) = m + n
        /\ \A i \in 1..(m + n) : rules[i] = IF i <= m THEN managed[i] ELSE users[i - m]
    BY ConcatProperties
  <2> QED BY <2>1, <1>1, LenProperties
<1>3. {i \in DOMAIN rules : IsUsers(rules[i])} = (m + 1)..(m + n)
  <2>1. ASSUME NEW i \in 1..m PROVE ~IsUsers(rules[i])
    BY <1>1, <1>2, <2>1
  <2>2. ASSUME NEW i \in (m + 1)..(m + n) PROVE IsUsers(rules[i])
    <3>1. i - m \in 1..n /\ i = m + (i - m)
      BY <1>1
    <3> QED BY <1>1, <1>2, <3>1
  <2> HIDE DEF m, n, rules
  <2>3. 1..(m + n) = (1..m) \cup ((m + 1)..(m + n)) /\ (1..m) \cap ((m + 1)..(m + n)) = {}
    BY <1>1
  <2> QED BY <1>2, <2>1, <2>2, <2>3
<1> HIDE DEF m, n, rules
<1>4. InOrder((m + 1)..(m + n)) = [k \in 1..n |-> m + k]
  BY <1>1, IntervalInOrder
<1>5. UsersRules(rules) = [k \in 1..n |-> rules[m + k]]
  BY <1>3, <1>4 DEF UsersRules
<1>6. UsersRules(rules) = [k \in 1..n |-> users[k]]
  BY <1>2, <1>5
<1>7. users = [k \in 1..n |-> users[k]]
  BY <1>1, LenProperties DEF n
<1> QED BY <1>6, <1>7 DEF rules

(* The overlay has a line for every target that is wired, and no other. *)
LEMMA OverlayIs ==
  ASSUME NEW g, IsFiniteSet(g)
  PROVE  /\ OverlayRules(g) \in Seq({Managed(t) : t \in CompiledTargets(g)})
         /\ \A t \in CompiledTargets(g) :
              \E i \in 1..Len(OverlayRules(g)) : OverlayRules(g)[i] = Managed(t)
<1> DEFINE T == CompiledTargets(g)
           n == Cardinality(T)
           aim == [e \in g |-> e[2][2]]
           aims == {aim[e] : e \in g}
<1>1. T \in SUBSET Nat /\ IsFiniteSet(T)
  <2>1. T \subseteq aims
    <3> SUFFICES ASSUME NEW t \in T PROVE t \in aims
      OBVIOUS
    <3>1. PICK f : <<Filter(f), Target(t)>> \in g
      BY DEF CompiledTargets, WiredTo
    <3>2. aim[<<Filter(f), Target(t)>>] = t
      BY <3>1 DEF Target
    <3> QED BY <3>1, <3>2
  <2>2. aim \in Surjection(g, aims)
    BY DEF Surjection
  <2> HIDE DEF aim, aims
  <2>3. IsFiniteSet(aims)
    BY <2>2, FS_Surjection
  <2>4. IsFiniteSet(T)
    BY <2>1, <2>3, FS_Subset
  <2> QED BY <2>4, TargetsAssumption DEF CompiledTargets
<1> HIDE DEF T
<1>2. /\ n \in Nat
      /\ DOMAIN InOrder(T) = 1..n
      /\ \A k \in 1..n : InOrder(T)[k] \in T
      /\ \A t \in T : \E k \in 1..n : InOrder(T)[k] = t
  BY <1>1, InOrderIsAll
<1> HIDE DEF n
<1>3. OverlayRules(g) = [k \in 1..n |-> Managed(InOrder(T)[k])]
  BY <1>2 DEF OverlayRules, T
<1>4. OverlayRules(g) \in Seq({Managed(t) : t \in T}) /\ Len(OverlayRules(g)) = n
  BY <1>2, <1>3, IsSeq
<1> QED BY <1>2, <1>3, <1>4 DEF T

LEMMA TwoOwners ==
  \A x : /\ IsManaged(Managed(x)) /\ ~IsUsers(Managed(x))
         /\ IsUsers(User(x)) /\ ~IsManaged(User(x))
BY DEF IsManaged, IsUsers, Managed, User

(* The first n lines are those of the targets, the others the user's. *)
OverlayFirst(rules, g, n) ==
  /\ n \in Nat /\ Len(rules) \in Nat /\ n <= Len(rules)
  /\ DOMAIN rules = 1..Len(rules)
  /\ \A i \in 1..n : \E t \in CompiledTargets(g) : rules[i] = Managed(t)
  /\ \A i \in (n + 1)..Len(rules) : IsUsers(rules[i])
  /\ \A t \in CompiledTargets(g) : \E i \in 1..n : rules[i] = Managed(t)

(* After a merge FlowCanvas' lines, one for every target that is wired,    *)
(* come before the lines of the user. *)
LEMMA MergedRules ==
  ASSUME NEW S, NEW rules \in Seq(S), NEW g, IsFiniteSet(g),
         NEW merged, merged = ReplaceManagedRules(rules, g),
         NEW n, n = Len(OverlayRules(g))
  PROVE  /\ (\A t \in CompiledTargets(g) : Managed(t) \in S) => merged \in Seq(S)
         /\ OverlayFirst(merged, g, n)
         /\ UsersRules(merged) = UsersRules(rules)
<1> DEFINE O == OverlayRules(g)
           R == UsersRules(rules)
           M == {Managed(t) : t \in CompiledTargets(g)}
           U == {x \in S : IsUsers(x)}
<1>1. O \in Seq(M) /\ \A t \in CompiledTargets(g) : \E i \in 1..Len(O) : O[i] = Managed(t)
  BY OverlayIs
<1>2. R \in Seq(U)
  BY UsersRulesAre
<1>3. merged = O \o R
  BY DEF ReplaceManagedRules
<1>4. O \in Seq(M \cup U) /\ R \in Seq(M \cup U)
  BY <1>1, <1>2, SeqMonotonic
<1>5. \A i \in DOMAIN O : O[i] \in M /\ ~IsUsers(O[i])
  <2>1. \A i \in DOMAIN O : O[i] \in M
    BY <1>1, ElementOfSeq, LenProperties
  <2> QED BY <2>1, TwoOwners
<1>6. \A i \in DOMAIN R : R[i] \in U
  BY <1>2, ElementOfSeq, LenProperties
<1> HIDE DEF O, R, M
<1>7. UsersRules(merged) = R
  BY <1>3, <1>4, <1>5, <1>6, UsersRulesBehind
<1>8. /\ Len(O) \in Nat /\ Len(R) \in Nat
      /\ DOMAIN O = 1..Len(O) /\ DOMAIN R = 1..Len(R)
  BY <1>4, LenProperties
<1>9. /\ merged \in Seq(M \cup U)
      /\ Len(merged) = Len(O) + Len(R)
      /\ \A i \in 1..Len(O) : merged[i] = O[i]
      /\ \A i \in (Len(O) + 1)..Len(merged) : i - Len(O) \in 1..Len(R) /\ merged[i] = R[i - Len(O)]
  <2>1. /\ O \o R \in Seq(M \cup U) /\ Len(O \o R) = Len(O) + Len(R)
        /\ \A i \in 1..(Len(O) + Len(R)) : (O \o R)[i] = IF i <= Len(O) THEN O[i] ELSE R[i - Len(O)]
    BY <1>4, ConcatProperties
  <2> QED BY <2>1, <1>3, <1>8
<1>10. \A i \in 1..Len(O) : \E t \in CompiledTargets(g) : merged[i] = Managed(t)
  BY <1>5, <1>8, <1>9 DEF M
<1>11. \A i \in (Len(O) + 1)..Len(merged) : IsUsers(merged[i])
  BY <1>6, <1>8, <1>9
<1>12. \A t \in CompiledTargets(g) : \E i \in 1..Len(O) : merged[i] = Managed(t)
  BY <1>1, <1>9
<1>13. Len(merged) \in Nat /\ DOMAIN merged = 1..Len(merged)
  BY <1>9, LenProperties
<1>14. n = Len(O)
  BY DEF O
<1>15. (\A t \in CompiledTargets(g) : Managed(t) \in S) => merged \in Seq(S)
  <2> SUFFICES ASSUME \A t \in CompiledTargets(g) : Managed(t) \in S PROVE merged \in Seq(S)
    OBVIOUS
  <2>1. M \cup U \subseteq S
    BY DEF M
  <2> HIDE DEF U
  <2> QED BY <1>9, <2>1, SeqMonotonic
<1>16. OverlayFirst(merged, g, n)
  BY <1>8, <1>9, <1>10, <1>11, <1>12, <1>13, <1>14 DEF OverlayFirst
<1> QED BY <1>7, <1>15, <1>16 DEF R

LEMMA OverlayComesFirst ==
  ASSUME NEW rules \in Seq(Item), NEW g, IsFiniteSet(g)
  PROVE  OverlayFirst(ReplaceManagedRules(rules, g), g, Len(OverlayRules(g)))
BY MergedRules

LEMMA UsersRulesStay ==
  ASSUME NEW rules \in Seq(Item), NEW g, IsFiniteSet(g)
  PROVE  UsersRules(ReplaceManagedRules(rules, g)) = UsersRules(rules)
BY MergedRules

(* FlowCanvas' providers are those of the targets that are wired, and the  *)
(* user's stay as they are. *)
LEMMA MergedProviders ==
  ASSUME NEW providers, NEW g, NEW merged, merged = ReplaceManagedProviders(providers, g)
  PROVE  /\ \A t \in CompiledTargets(g) :
              Managed(t) \in DOMAIN merged /\ merged[Managed(t)] = Payload(g, t)
         /\ \A p \in DOMAIN providers :
              IsUsers(p) => p \in DOMAIN merged /\ merged[p] = providers[p]
         /\ \A p \in DOMAIN merged :
              (\E t \in CompiledTargets(g) : p = Managed(t)) \/ (p \in DOMAIN providers /\ IsUsers(p))
<1> DEFINE kept == {p \in DOMAIN providers : IsUsers(p)}
<1>1. /\ DOMAIN OverlayProviders(g) = {Managed(t) : t \in CompiledTargets(g)}
      /\ \A t \in CompiledTargets(g) : OverlayProviders(g)[Managed(t)] = Payload(g, t)
  BY DEF OverlayProviders, Managed
<1>2. merged = [p \in DOMAIN OverlayProviders(g) \cup kept |->
                  IF p \in kept THEN providers[p] ELSE OverlayProviders(g)[p]]
  BY DEF ReplaceManagedProviders
<1>3. DOMAIN merged = DOMAIN OverlayProviders(g) \cup kept
  BY <1>2
<1>4. ASSUME NEW t \in CompiledTargets(g)
      PROVE  Managed(t) \in DOMAIN merged /\ merged[Managed(t)] = Payload(g, t)
  <2>1. Managed(t) \notin kept /\ Managed(t) \in DOMAIN OverlayProviders(g)
    BY <1>1, TwoOwners
  <2> QED BY <1>1, <1>2, <2>1
<1>5. ASSUME NEW p \in DOMAIN providers, IsUsers(p)
      PROVE  p \in DOMAIN merged /\ merged[p] = providers[p]
  BY <1>2, <1>5
<1>6. ASSUME NEW p \in DOMAIN merged
      PROVE  (\E t \in CompiledTargets(g) : p = Managed(t)) \/ (p \in DOMAIN providers /\ IsUsers(p))
  BY <1>1, <1>3
<1> QED BY <1>4, <1>5, <1>6

LEMMA PayloadIs ==
  ASSUME NEW g, NEW t PROVE Payload(g, t) \subseteq Devices \X Hosts
<1> SUFFICES ASSUME NEW f \in WiredTo(g, t) PROVE Match(f) \in Devices \X Hosts
  BY DEF Payload
<1> QED BY DEF WiredTo, WiredTo, Match, Flow

(* ---------------------------- type correctness ------------------------- *)

LEMMA FlowsOfConnections ==
  ASSUME NEW c PROVE NormalizeConnection(c) \subseteq Flow
BY DEF NormalizeConnection

LEMMA ItemsAre ==
  /\ \A t \in Targets : Managed(t) \in Item
  /\ \A x \in UserRules \cup UserProviders : User(x) \in Item
BY DEF Item

(* The lines of a finite set of rules. *)
LEMMA SomeOrder ==
  ASSUME NEW S, IsFiniteSet(S) PROVE SetToSeq(S) \in Seq(S)
<1>1. Cardinality(S) \in Nat /\ ExistsBijection(1..Cardinality(S), S)
  BY FS_CardinalityType
<1>2. \E f \in [1..Cardinality(S) -> S] : IsInjective(f)
  BY <1>1 DEF ExistsBijection, Bijection, Injection
<1>3. SetToSeq(S) \in [1..Cardinality(S) -> S]
  BY <1>2 DEF SetToSeq
<1> QED BY <1>1, <1>3, IsASeq

LEMMA InitialFile ==
  Init => FileOK /\ own \in [providers : SUBSET Item, rules : Seq(Item)]
<1> SUFFICES ASSUME Init PROVE FileOK /\ own \in [providers : SUBSET Item, rules : Seq(Item)]
  OBVIOUS
<1> DEFINE R == {User(u) : u \in UserRules}
           user == [u \in UserRules |-> User(u)]
<1>1. IsFiniteSet(R)
  <2>1. user \in Surjection(UserRules, R)
    BY DEF Surjection
  <2> QED BY <2>1, FileIsFinite, FS_Surjection
<1>2. SetToSeq(R) \in Seq(R)
  BY <1>1, SomeOrder
<1>3. R \subseteq Item
  BY ItemsAre
<1> HIDE DEF R
<1>4. SetToSeq(R) \in Seq(Item)
  BY <1>2, <1>3, SeqMonotonic
<1>5. file = [providers |-> [p \in {User(x) : x \in UserProviders} |-> {}],
              rules |-> SetToSeq(R), shaped |-> TRUE]
  BY DEF Init, R
<1>6. FileOK
  BY <1>4, <1>5, ItemsAre DEF FileOK
<1>7. own = [providers |-> DOMAIN file.providers, rules |-> file.rules]
  BY DEF Init
<1> QED BY <1>6, <1>7 DEF FileOK

(* A merge of a file is a file. *)
LEMMA MergeKeepsFile ==
  ASSUME FileOK, NEW g, IsFiniteSet(g), file' = MergeManagedOverlay(file, g)
  PROVE  FileOK'
<1> DEFINE rules == ReplaceManagedRules(file.rules, g)
           providers == ReplaceManagedProviders(file.providers, g)
<1>1. \A t \in CompiledTargets(g) : Managed(t) \in Item
  BY ItemsAre DEF CompiledTargets
<1>2. file.rules \in Seq(Item)
  BY DEF FileOK
<1>3. rules \in Seq(Item)
  BY <1>1, <1>2, MergedRules
<1>4. rules = ReplaceManagedRules(file.rules, g) /\ providers = ReplaceManagedProviders(file.providers, g)
  OBVIOUS
<1> HIDE DEF rules, providers
<1>5. ASSUME NEW p \in DOMAIN providers
      PROVE  p \in Item /\ providers[p] \in SUBSET (Devices \X Hosts)
  <2>1. CASE \E t \in CompiledTargets(g) : p = Managed(t)
    <3>1. PICK t \in CompiledTargets(g) : p = Managed(t)
      BY <2>1
    <3>2. providers[p] = Payload(g, t)
      BY <1>4, <3>1, MergedProviders
    <3> QED BY <3>1, <3>2, <1>1, PayloadIs
  <2>2. CASE p \in DOMAIN file.providers /\ IsUsers(p)
    <3>1. providers[p] = file.providers[p]
      BY <1>4, <2>2, MergedProviders
    <3> QED BY <2>2, <3>1 DEF FileOK
  <2> QED BY <1>4, <1>5, <2>1, <2>2, MergedProviders
<1>6. providers = [p \in DOMAIN providers |-> providers[p]]
  BY <1>4 DEF ReplaceManagedProviders
<1>7. file' = [providers |-> providers, rules |-> rules, shaped |-> file.shaped]
  BY <1>4 DEF MergeManagedOverlay, FileOK
<1> QED BY <1>3, <1>5, <1>6, <1>7 DEF FileOK

(* So is what the user makes of it. *)
LEMMA EditKeepsFile ==
  ASSUME FileOK, own \in [providers : SUBSET Item, rules : Seq(Item)], Edit
  PROVE  FileOK' /\ own' \in [providers : SUBSET Item, rules : Seq(Item)]
<1>1. ASSUME NEW rules \in Edited(file.rules),
             file' = [file EXCEPT !.rules = rules],
             own' = [own EXCEPT !.rules = UsersRules(rules)]
      PROVE  FileOK' /\ own' \in [providers : SUBSET Item, rules : Seq(Item)]
  <2>1. \A u \in UserRules : User(u) \in Item
    BY ItemsAre
  <2>2. rules \in Seq(Item)
    <3>1. file.rules \in Seq(Item) /\ Len(file.rules) \in Nat /\ DOMAIN file.rules = 1..Len(file.rules)
      BY LenProperties DEF FileOK
    <3>2. ASSUME NEW u \in UserRules
          PROVE  <<User(u)>> \o file.rules \in Seq(Item) /\ file.rules \o <<User(u)>> \in Seq(Item)
      <4>1. <<User(u)>> \in Seq(Item)
        BY <2>1
      <4> QED BY <3>1, <4>1, ConcatProperties
    <3>3. ASSUME NEW i \in DOMAIN file.rules PROVE RemoveAt(file.rules, i) \in Seq(Item)
      <4>1. /\ SubSeq(file.rules, 1, i - 1) \in Seq(Item)
            /\ SubSeq(file.rules, i + 1, Len(file.rules)) \in Seq(Item)
        BY <3>1, SubSeqProperties
      <4> QED BY <4>1, ConcatProperties DEF RemoveAt
    <3> QED BY <1>1, <3>2, <3>3 DEF Edited
  <2>3. UsersRules(rules) \in Seq(Item)
    BY <2>2, UsersRulesAre, SeqMonotonic, {x \in Item : IsUsers(x)} \subseteq Item
  <2> QED BY <1>1, <2>2, <2>3 DEF FileOK
<1>2. ASSUME NEW p \in DOMAIN file.providers,
             file' = [file EXCEPT !.providers = Restrict(@, DOMAIN @ \ {p})],
             own' = [own EXCEPT !.providers = @ \ {p}]
      PROVE  FileOK' /\ own' \in [providers : SUBSET Item, rules : Seq(Item)]
  BY <1>2 DEF FileOK, Restrict
<1>3. ASSUME file' = [file EXCEPT !.shaped = ~@], UNCHANGED own
      PROVE  FileOK' /\ own' \in [providers : SUBSET Item, rules : Seq(Item)]
  BY <1>3 DEF FileOK
<1> QED BY <1>1, <1>2, <1>3 DEF Edit

(* The flows and devices that are recorded, the targets, the graph and the *)
(* file are what they should be. *)
THEOREM TypesHold == Spec => []TypeOK
<1>1. Init => TypeOK
  BY PipelineBounds, InitialFile, FS_EmptySet DEF Init, TypeOK
<1>2. TypeOK /\ [Next]_vars => TypeOK'
  <2> SUFFICES ASSUME TypeOK, [Next]_vars PROVE TypeOK'
    OBVIOUS
  <2> USE DEF TypeOK
  <2>1. ASSUME NEW c \in Connections, Observe(c) PROVE TypeOK'
    <3>1. NormalizeConnection(c) \subseteq Flow
      BY FlowsOfConnections
    <3>2. \A f \in NormalizeConnection(c) : f.device \in Devices
      BY <3>1 DEF Flow
    <3> QED BY <2>1, <3>1, <3>2 DEF Observe, FileOK
  <2>2. ASSUME NEW d \in Devices, Discover(d) PROVE TypeOK'
    BY <2>2 DEF Discover, FileOK
  <2>3. ASSUME NEW targets \in SUBSET Targets, ReplaceTargets(targets) PROVE TypeOK'
    BY <2>3 DEF ReplaceTargets, FileOK
  <2>4. ASSUME NEW g \in Drafts, SaveGraph(g) PROVE TypeOK'
    <3>1. g \subseteq Edge
      BY DEF Drafts
    <3>2. IsFiniteSet(g)
      BY FS_Subset, FS_AddElement DEF Drafts
    <3> QED BY <2>4, <3>1, <3>2 DEF SaveGraph, discovered, FileOK
  <2>5. ASSUME Apply PROVE TypeOK'
    <3>1. FileOK'
      BY <2>5, MergeKeepsFile DEF Apply
    <3> QED BY <2>5, <3>1 DEF Apply, discovered
  <2>6. ASSUME Edit PROVE TypeOK'
    <3>1. FileOK' /\ own' \in [providers : SUBSET Item, rules : Seq(Item)]
      BY <2>6, EditKeepsFile
    <3>2. edits' \in 0..MaxEdits
      BY <2>6, PipelineBounds DEF Edit
    <3>3. UNCHANGED <<devices, flows, offered, graph>>
      BY <2>6 DEF Edit, discovered
    <3> QED BY <3>1, <3>2, <3>3
  <2>7. ASSUME UNCHANGED vars PROVE TypeOK'
    BY <2>7 DEF vars, discovered, FileOK
  <2> QED BY <2>1, <2>2, <2>3, <2>4, <2>5, <2>6, <2>7 DEF Next
<1> QED BY <1>1, <1>2, PTL DEF Spec

(* ------------------------- what may go missing ------------------------- *)

(* Sources and filters are never deleted, so what was in the catalogue and *)
(* was not a target stays there. *)
LEMMA CatalogueGrows ==
  ASSUME devices \subseteq devices', flows \subseteq flows',
         NEW n \in Catalogue, n[1] # "target"
  PROVE  n \in Catalogue'
BY DEF Catalogue, Nodes, Source, Filter, Target

LEMMA SavedGraphStays ==
  ASSUME OnlyTargetsGoMissing, graph' = graph, devices \subseteq devices', flows \subseteq flows'
  PROVE  OnlyTargetsGoMissing'
<1> SUFFICES ASSUME NEW e \in graph
             PROVE  Valid(e) /\ e[1] \in Catalogue' /\ (e[2] \in Catalogue' \/ Leaves(e))
  BY DEF OnlyTargetsGoMissing
<1>1. Valid(e) /\ e[1] \in Catalogue /\ (e[2] \in Catalogue \/ Leaves(e))
  BY DEF OnlyTargetsGoMissing
<1>2. e[1][1] # "target" /\ (Enters(e) => e[2][1] # "target")
  BY <1>1 DEF Valid, Enters, Leaves
<1>3. e[1] \in Catalogue'
  BY <1>1, <1>2, CatalogueGrows
<1>4. Enters(e) \/ Leaves(e)
  BY <1>1 DEF Valid
<1>5. CASE Leaves(e)
  BY <1>1, <1>3, <1>5
<1>6. CASE Enters(e) /\ e[2] \in Catalogue
  BY <1>1, <1>2, <1>3, <1>6, CatalogueGrows
<1> QED BY <1>1, <1>4, <1>5, <1>6

(* Whatever is discovered after a save, a saved graph keeps its directions *)
(* and its owners, and only a target may go missing (validator.go:33-85,   *)
(* live_catalog.go:33-111). *)
THEOREM OnlyTargetsGoMissingHolds == Spec => []OnlyTargetsGoMissing
<1>1. Init => OnlyTargetsGoMissing
  BY DEF Init, OnlyTargetsGoMissing
<1>2. OnlyTargetsGoMissing /\ [Next]_vars => OnlyTargetsGoMissing'
  <2> SUFFICES ASSUME OnlyTargetsGoMissing, [Next]_vars PROVE OnlyTargetsGoMissing'
    OBVIOUS
  <2>1. ASSUME NEW g \in Drafts, SaveGraph(g) PROVE OnlyTargetsGoMissing'
    <3>1. Catalogue' = Catalogue
      BY <2>1 DEF SaveGraph, discovered, Catalogue, Nodes
    <3>2. \A e \in g : Available(Catalogue, e) /\ Valid(e)
      BY <2>1 DEF SaveGraph, ValidateEdges
    <3> QED BY <2>1, <3>1, <3>2 DEF SaveGraph, OnlyTargetsGoMissing, Available
  <2>2. CASE ~ \E g \in Drafts : SaveGraph(g)
    <3>1. graph' = graph /\ devices \subseteq devices' /\ flows \subseteq flows'
      BY <2>2 DEF Next, Observe, Discover, ReplaceTargets, Apply, Edit, vars, discovered
    <3> QED BY <3>1, SavedGraphStays
  <2> QED BY <2>1, <2>2
<1> QED BY <1>1, <1>2, PTL DEF Spec

(* --------------------------- the candidate ----------------------------- *)

(* What compiles can be written: its flows are known and their hosts safe, *)
(* and the names of its targets are.                                       *)
LEMMA CompiledIsSafe ==
  ASSUME NEW nodes, NEW g, Compiles(nodes, g), NEW t \in CompiledTargets(g)
  PROVE  /\ t \notin UnsafeTargets
         /\ \A f \in WiredTo(g, t) : f.host \notin UnsafeHosts /\ Filter(f) \in nodes
<1>1. ASSUME NEW f \in WiredTo(g, t)
      PROVE  t \notin UnsafeTargets /\ f.host \notin UnsafeHosts /\ Filter(f) \in nodes
  <2> DEFINE e == <<Filter(f), Target(t)>>
  <2>1. e \in g /\ e[1] = Filter(f) /\ e[2] = Target(t)
    BY DEF WiredTo
  <2>2. Filter(f) \in Filters(g) /\ e \in OutOf(g, Filter(f))
    BY <2>1 DEF Filters, OutOf, Filter
  <2>3. CompilesFilter(g, Filter(f)) /\ Filter(f) \in nodes
    BY <2>1, <2>2 DEF Compiles, Available
  <2> QED BY <2>1, <2>2, <2>3 DEF CompilesFilter, SafeMatch, SafeName, Filter, Target
<1>2. WiredTo(g, t) # {}
  BY DEF CompiledTargets
<1> QED BY <1>1, <1>2

LEMMA MergedFile ==
  ASSUME FileOK, NEW g, NEW merged, merged = MergeManagedOverlay(file, g)
  PROVE  /\ merged.rules = ReplaceManagedRules(file.rules, g)
         /\ merged.providers = ReplaceManagedProviders(file.providers, g)
         /\ merged.shaped = file.shaped
BY DEF FileOK, MergeManagedOverlay

(* The last validation of an apply accepts what FlowCanvas puts into a     *)
(* file that has its shape (config_merge.go:46-97).                        *)
THEOREM CandidateValidHolds == Spec => []CandidateValid
<1>1. TypeOK => CandidateValid
  <2> SUFFICES ASSUME TypeOK, Compiles(Catalogue, graph), file.shaped
               PROVE  ValidateManagedConfiguration(MergeManagedOverlay(file, graph))
    BY DEF CandidateValid
  <2>1. FileOK /\ IsFiniteSet(graph) /\ file.rules \in Seq(Item)
    BY DEF TypeOK, FileOK
  <2>2. PICK merged : merged = MergeManagedOverlay(file, graph)
    OBVIOUS
  <2>3. PICK rules, n : rules = ReplaceManagedRules(file.rules, graph) /\ n = Len(OverlayRules(graph))
    OBVIOUS
  <2>4. merged.rules = rules /\ merged.shaped = file.shaped
    BY <2>1, <2>2, <2>3, MergedFile
  <2>5. OverlayFirst(rules, graph, n)
    BY <2>1, <2>3, OverlayComesFirst
  <2>6. ASSUME NEW i \in DOMAIN rules, IsManaged(rules[i])
        PROVE  rules[i][2] \notin UnsafeTargets
    <3>1. ~IsUsers(rules[i])
      BY <2>6 DEF IsManaged, IsUsers
    <3>2. i \in 1..n
      BY <2>5, <3>1 DEF OverlayFirst
    <3>3. PICK t \in CompiledTargets(graph) : rules[i] = Managed(t)
      BY <2>5, <3>2 DEF OverlayFirst
    <3> QED BY <3>3, CompiledIsSafe DEF Managed
  <2> QED BY <2>2, <2>4, <2>6 DEF ValidateManagedConfiguration
<1> QED BY <1>1, TypesHold, PTL

(* --------------------------- the user's part --------------------------- *)

LEMMA UserPartInitial ==
  ASSUME Init PROVE UserPartKept
<1> DEFINE R == {User(u) : u \in UserRules}
<1>1. file.rules = SetToSeq(R) /\ DOMAIN file.providers = {User(x) : x \in UserProviders}
  BY DEF Init
<1>2. own = [providers |-> DOMAIN file.providers, rules |-> file.rules]
  BY DEF Init
<1>3. IsFiniteSet(R)
  <2> DEFINE user == [u \in UserRules |-> User(u)]
  <2>1. user \in Surjection(UserRules, R)
    BY DEF Surjection
  <2> QED BY <2>1, FileIsFinite, FS_Surjection
<1>4. \A x \in R : IsUsers(x)
  BY TwoOwners
<1> HIDE DEF R
<1>5. file.rules \in Seq(R)
  BY <1>1, <1>3, SomeOrder
<1>6. \A i \in DOMAIN file.rules : IsUsers(file.rules[i])
  BY <1>4, <1>5, ElementOfSeq, LenProperties
<1>7. UsersRules(<<>> \o file.rules) = file.rules
  <2>1. <<>> \in Seq(R) /\ DOMAIN <<>> = {}
    OBVIOUS
  <2> QED BY <1>5, <1>6, <2>1, UsersRulesBehind
<1>8. <<>> \o file.rules = file.rules
  BY <1>5, ConcatEmptySeq
<1>9. {p \in DOMAIN file.providers : IsUsers(p)} = DOMAIN file.providers
  BY <1>1, TwoOwners
<1> QED BY <1>2, <1>7, <1>8, <1>9 DEF UserPartKept

(* An apply leaves the user's lines and providers as they are. *)
LEMMA ApplyKeepsUserPart ==
  ASSUME TypeOK, UserPartKept, Apply PROVE UserPartKept'
<1>1. FileOK /\ IsFiniteSet(graph) /\ file.rules \in Seq(Item)
  BY DEF TypeOK, FileOK
<1>2. file' = MergeManagedOverlay(file, graph) /\ own' = own
  BY DEF Apply
<1>3. /\ file'.rules = ReplaceManagedRules(file.rules, graph)
      /\ file'.providers = ReplaceManagedProviders(file.providers, graph)
  BY <1>1, <1>2, MergedFile
<1>4. UsersRules(file'.rules) = UsersRules(file.rules)
  <2>1. UsersRules(ReplaceManagedRules(file.rules, graph)) = UsersRules(file.rules)
    BY <1>1, UsersRulesStay
  <2> QED BY <1>3, <2>1
<1>5. {p \in DOMAIN file'.providers : IsUsers(p)} = {p \in DOMAIN file.providers : IsUsers(p)}
  BY <1>3, MergedProviders, TwoOwners
<1> QED BY <1>2, <1>4, <1>5 DEF UserPartKept

(* An edit writes what the user then has. *)
LEMMA EditKeepsUserPart ==
  ASSUME TypeOK, UserPartKept, Edit PROVE UserPartKept'
<1>1. FileOK /\ own = [providers |-> own.providers, rules |-> own.rules]
  BY DEF TypeOK
<1>2. ASSUME NEW rules,
             file' = [file EXCEPT !.rules = rules],
             own' = [own EXCEPT !.rules = UsersRules(rules)]
      PROVE  UserPartKept'
  <2>1. file'.rules = rules /\ file'.providers = file.providers
    BY <1>1, <1>2 DEF FileOK
  <2>2. own'.rules = UsersRules(rules) /\ own'.providers = own.providers
    BY <1>1, <1>2
  <2> QED BY <2>1, <2>2 DEF UserPartKept
<1>3. ASSUME NEW q \in DOMAIN file.providers,
             file' = [file EXCEPT !.providers = Restrict(@, DOMAIN @ \ {q})],
             own' = [own EXCEPT !.providers = @ \ {q}]
      PROVE  UserPartKept'
  <2>1. file'.rules = file.rules /\ DOMAIN file'.providers = DOMAIN file.providers \ {q}
    BY <1>1, <1>3 DEF FileOK, Restrict
  <2>2. own'.rules = own.rules /\ own'.providers = own.providers \ {q}
    BY <1>1, <1>3
  <2> QED BY <2>1, <2>2 DEF UserPartKept
<1>4. ASSUME file' = [file EXCEPT !.shaped = ~@], UNCHANGED own PROVE UserPartKept'
  <2>1. file'.rules = file.rules /\ file'.providers = file.providers
    BY <1>1, <1>4 DEF FileOK
  <2> QED BY <1>4, <2>1 DEF UserPartKept
<1> QED BY <1>2, <1>3, <1>4 DEF Edit

(* However applies and edits alternate, what the user wrote is neither     *)
(* lost nor reordered nor doubled (config_merge.go:99-138).                *)
THEOREM UserPartKeptHolds == Spec => []UserPartKept
<1>1. Init => UserPartKept
  BY UserPartInitial
<1>2. TypeOK /\ UserPartKept /\ [Next]_vars => UserPartKept'
  <2> SUFFICES ASSUME TypeOK, UserPartKept, [Next]_vars PROVE UserPartKept'
    OBVIOUS
  <2>1. CASE Apply
    BY <2>1, ApplyKeepsUserPart
  <2>2. CASE Edit
    BY <2>2, EditKeepsUserPart
  <2>3. CASE ~Apply /\ ~Edit
    <3>1. UNCHANGED <<file, own>>
      BY <2>3 DEF Next, Observe, Discover, ReplaceTargets, SaveGraph, vars
    <3> QED BY <3>1 DEF UserPartKept
  <2> QED BY <2>1, <2>2, <2>3
<1> QED BY <1>1, <1>2, TypesHold, PTL DEF Spec

(* -------------------------- what is left behind ------------------------- *)

(* Two merges of the same user's part are the same. *)
LEMMA RulesForget ==
  ASSUME NEW rules \in Seq(Item), NEW g, IsFiniteSet(g), NEW h
  PROVE  ReplaceManagedRules(ReplaceManagedRules(rules, g), h) = ReplaceManagedRules(rules, h)
BY UsersRulesStay DEF ReplaceManagedRules

LEMMA ProvidersForget ==
  ASSUME NEW providers, NEW g, NEW h
  PROVE  ReplaceManagedProviders(ReplaceManagedProviders(providers, g), h)
           = ReplaceManagedProviders(providers, h)
<1> DEFINE merged == ReplaceManagedProviders(providers, g)
           kept(qs) == {q \in DOMAIN qs : IsUsers(q)}
<1>1. kept(merged) = kept(providers) /\ \A p \in kept(providers) : merged[p] = providers[p]
  BY MergedProviders, TwoOwners
<1> HIDE DEF merged
<1>2. ReplaceManagedProviders(merged, h)
        = [p \in DOMAIN OverlayProviders(h) \cup kept(merged) |->
             IF p \in kept(merged) THEN merged[p] ELSE OverlayProviders(h)[p]]
  BY DEF ReplaceManagedProviders
<1>3. ReplaceManagedProviders(providers, h)
        = [p \in DOMAIN OverlayProviders(h) \cup kept(providers) |->
             IF p \in kept(providers) THEN providers[p] ELSE OverlayProviders(h)[p]]
  BY DEF ReplaceManagedProviders
<1> HIDE DEF kept
<1> QED BY <1>1, <1>2, <1>3 DEF merged

LEMMA MergeIs ==
  ASSUME NEW p, NEW r, NEW s, NEW f, f = [providers |-> p, rules |-> r, shaped |-> s], NEW g,
         NEW providers, providers = ReplaceManagedProviders(p, g),
         NEW rules, rules = ReplaceManagedRules(r, g)
  PROVE  MergeManagedOverlay(f, g) = [providers |-> providers, rules |-> rules, shaped |-> s]
<1>1. MergeManagedOverlay(f, g)
        = [f EXCEPT !.providers = ReplaceManagedProviders(@, g), !.rules = ReplaceManagedRules(@, g)]
  BY DEF MergeManagedOverlay
<1> QED BY <1>1

(* What a merge writes depends on the user's part of the file and on the   *)
(* graph alone, not on the merge before it.                                *)
LEMMA MergeForgets ==
  ASSUME FileOK, NEW g, IsFiniteSet(g), NEW h
  PROVE  MergeManagedOverlay(MergeManagedOverlay(file, g), h) = MergeManagedOverlay(file, h)
<1>1. file.rules \in Seq(Item)
  BY DEF FileOK
<1>2. PICK f : f = MergeManagedOverlay(file, g)
  OBVIOUS
<1>3. PICK first, lines : /\ first = ReplaceManagedProviders(file.providers, g)
                          /\ lines = ReplaceManagedRules(file.rules, g)
  OBVIOUS
<1>4. PICK providers, rules : /\ providers = ReplaceManagedProviders(file.providers, h)
                              /\ rules = ReplaceManagedRules(file.rules, h)
  OBVIOUS
<1>5. f = [providers |-> first, rules |-> lines, shaped |-> file.shaped]
  BY <1>2, <1>3, MergeIs DEF FileOK
<1>6. providers = ReplaceManagedProviders(first, h)
  BY <1>3, <1>4, ProvidersForget
<1>7. rules = ReplaceManagedRules(lines, h)
  BY <1>1, <1>3, <1>4, RulesForget
<1>8. MergeManagedOverlay(f, h) = [providers |-> providers, rules |-> rules, shaped |-> file.shaped]
  BY <1>5, <1>6, <1>7, MergeIs
<1>9. MergeManagedOverlay(file, h)
        = [providers |-> providers, rules |-> rules, shaped |-> file.shaped]
  BY <1>4, MergeIs DEF FileOK
<1> QED BY <1>2, <1>8, <1>9

(* An apply takes every provider and line of an earlier one away           *)
(* (config_merge.go:99-138).                                               *)
THEOREM AppliesForgetHolds == Spec => []AppliesForget
<1>1. TypeOK => AppliesForget
  BY MergeForgets DEF TypeOK, AppliesForget
<1> QED BY <1>1, TypesHold, PTL

(* -------------------------- what is routed where ------------------------ *)

LEMMA MinIs ==
  ASSUME NEW T \in SUBSET Nat, T # {}
  PROVE  Min(T) \in T /\ \A y \in T : Min(T) <= y
BY LeastExists DEF Min

(* A line of FlowCanvas takes a flow only if a flow like it is wired to    *)
(* its target.                                                             *)
LEMMA TakenIsWired ==
  ASSUME FileOK, Compiles(Catalogue, graph), file' = MergeManagedOverlay(file, graph),
         NEW f, NEW t \in CompiledTargets(graph), Takes(file', Managed(t), f)
  PROVE  \E h \in flows : Alike(f, h) /\ Wired(h, t)
<1>1. file'.providers[Managed(t)] = Payload(graph, t)
  BY MergedFile, MergedProviders
<1>2. Match(f) \in Payload(graph, t)
  BY <1>1, TwoOwners DEF Takes
<1>3. PICK h \in WiredTo(graph, t) : Match(f) = Match(h)
  BY <1>2 DEF Payload
<1>4. Filter(h) \in Catalogue
  BY <1>3, CompiledIsSafe
<1>5. h \in flows
  BY <1>4 DEF Catalogue, Nodes, Filter, Source, Target
<1> QED BY <1>3, <1>5 DEF Alike, Wired, Match

(* And it takes every flow that is. *)
LEMMA WiredIsTaken ==
  ASSUME FileOK, Compiles(Catalogue, graph), file' = MergeManagedOverlay(file, graph),
         NEW t \in Targets, NEW f, Wired(f, t)
  PROVE  t \in CompiledTargets(graph) /\ Takes(file', Managed(t), f)
<1>1. t \in CompiledTargets(graph)
  BY DEF Wired, CompiledTargets
<1>2. /\ Managed(t) \in DOMAIN file'.providers
      /\ file'.providers[Managed(t)] = Payload(graph, t)
  BY <1>1, MergedFile, MergedProviders
<1>3. Match(f) \in Payload(graph, t)
  BY DEF Wired, Payload
<1>4. f.host \notin UnsafeHosts
  BY <1>1, CompiledIsSafe DEF Wired
<1> QED BY <1>1, <1>2, <1>3, <1>4 DEF Takes

(* After an apply the rule that takes a flow is FlowCanvas' only if the    *)
(* flow, or one with the same match, is wired to its target; and it is     *)
(* FlowCanvas' if the flow is wired.                                       *)
LEMMA RouteAfterApply ==
  ASSUME TypeOK, Apply, NEW f
  PROVE  /\ IsManaged(Route(file', f)) =>
              \E t \in Targets : /\ Route(file', f) = Managed(t)
                                 /\ \E h \in flows : Alike(f, h) /\ Wired(h, t)
         /\ (\E t \in Targets : Wired(f, t)) => IsManaged(Route(file', f))
<1> DEFINE taking == {i \in DOMAIN file'.rules : Takes(file', file'.rules[i], f)}
           n == Len(OverlayRules(graph))
           first == Min(taking)
<1>1. FileOK /\ IsFiniteSet(graph) /\ file.rules \in Seq(Item)
  BY DEF TypeOK, FileOK
<1>2. file' = MergeManagedOverlay(file, graph) /\ Compiles(Catalogue, graph)
  BY DEF Apply
<1>3. file'.rules = ReplaceManagedRules(file.rules, graph)
  BY <1>1, <1>2, MergedFile
<1>4. OverlayFirst(file'.rules, graph, n)
  <2> HIDE DEF n
  <2>1. OverlayFirst(ReplaceManagedRules(file.rules, graph), graph, Len(OverlayRules(graph)))
    BY <1>1, OverlayComesFirst
  <2> QED BY <1>3, <2>1 DEF n
<1> HIDE DEF n
<1>5. /\ n \in Nat /\ Len(file'.rules) \in Nat /\ n <= Len(file'.rules)
      /\ DOMAIN file'.rules = 1..Len(file'.rules)
      /\ \A i \in 1..n : \E t \in CompiledTargets(graph) : file'.rules[i] = Managed(t)
      /\ \A i \in (n + 1)..Len(file'.rules) : IsUsers(file'.rules[i])
      /\ \A t \in CompiledTargets(graph) : \E i \in 1..n : file'.rules[i] = Managed(t)
  BY <1>4 DEF OverlayFirst
<1>6. taking \in SUBSET Nat
  BY <1>5
<1>7. Route(file', f) = IF taking = {} THEN <<"none">> ELSE file'.rules[first]
  BY DEF Route
<1>8. taking # {} => first \in taking /\ \A i \in taking : first <= i
  <2> HIDE DEF taking
  <2> QED BY <1>6, MinIs
<1>9. ASSUME IsManaged(Route(file', f))
       PROVE  \E t \in Targets : /\ Route(file', f) = Managed(t)
                                 /\ \E h \in flows : Alike(f, h) /\ Wired(h, t)
  <2>1. taking # {} /\ first \in taking
    BY <1>7, <1>8, <1>9 DEF IsManaged
  <2>2. IsManaged(file'.rules[first])
    BY <1>7, <1>9, <2>1
  <2> HIDE DEF first
  <2>3. first \in 1..n
    BY <1>5, <2>1, <2>2 DEF IsManaged, IsUsers
  <2>4. PICK t \in CompiledTargets(graph) : file'.rules[first] = Managed(t)
    BY <1>5, <2>3
  <2>5. Takes(file', Managed(t), f)
    BY <2>1, <2>4
  <2>6. \E h \in flows : Alike(f, h) /\ Wired(h, t)
    BY <1>1, <1>2, <2>5, TakenIsWired
  <2>7. t \in Targets /\ Route(file', f) = Managed(t)
    BY <1>7, <2>1, <2>4 DEF CompiledTargets, first
  <2> QED BY <2>6, <2>7
<1>10. ASSUME NEW t \in Targets, Wired(f, t) PROVE IsManaged(Route(file', f))
  <2>1. t \in CompiledTargets(graph) /\ Takes(file', Managed(t), f)
    BY <1>1, <1>2, <1>10, WiredIsTaken
  <2>2. PICK i \in 1..n : file'.rules[i] = Managed(t)
    BY <1>5, <2>1
  <2>3. i \in taking
    <3>1. i \in DOMAIN file'.rules
      BY <1>5
    <3>2. Takes(file', file'.rules[i], f)
      BY <2>1, <2>2
    <3> QED BY <3>1, <3>2
  <2>4. first \in taking /\ first <= i
    BY <1>8, <2>3
  <2>5. Route(file', f) = file'.rules[first]
    BY <1>7, <2>3
  <2> HIDE DEF first
  <2>6. first \in 1..n
    BY <1>5, <1>6, <2>2, <2>4
  <2>7. PICK u \in CompiledTargets(graph) : file'.rules[first] = Managed(u)
    BY <1>5, <2>6
  <2> QED BY <2>5, <2>7, TwoOwners
<1> QED BY <1>9, <1>10

(* An apply routes every flow as it is wired and takes no other, unless    *)
(* flows with the same match are wired to different targets                *)
(* (config_merge.go:120-138). *)
THEOREM RoutedAsIntendedHolds == Spec => RoutedAsIntended
<1> DEFINE Intended ==
      \A f \in flows :
        /\ \A t \in Targets :
             Wired(f, t) /\ (\A h \in flows, u \in Targets : Alike(f, h) /\ Wired(h, u) => u = t)
               => Route(file', f) = Managed(t)
        /\ (\A h \in flows, u \in Targets : Alike(f, h) => ~Wired(h, u))
             => ~IsManaged(Route(file', f))
<1>1. TypeOK /\ Apply => Intended
  <2> SUFFICES ASSUME TypeOK, Apply, NEW f \in flows
               PROVE  /\ \A t \in Targets :
                           /\ Wired(f, t)
                           /\ \A h \in flows, u \in Targets : Alike(f, h) /\ Wired(h, u) => u = t
                           => Route(file', f) = Managed(t)
                      /\ (\A h \in flows, u \in Targets : Alike(f, h) => ~Wired(h, u))
                           => ~IsManaged(Route(file', f))
    OBVIOUS
  <2>1. ASSUME NEW t \in Targets, Wired(f, t),
               \A h \in flows, u \in Targets : Alike(f, h) /\ Wired(h, u) => u = t
        PROVE  Route(file', f) = Managed(t)
    <3>1. IsManaged(Route(file', f))
      BY <2>1, RouteAfterApply
    <3>2. PICK u \in Targets : /\ Route(file', f) = Managed(u)
                               /\ \E h \in flows : Alike(f, h) /\ Wired(h, u)
      BY <3>1, RouteAfterApply
    <3>3. u = t
      BY <2>1, <3>2
    <3> QED BY <3>2, <3>3
  <2>2. ASSUME \A h \in flows, u \in Targets : Alike(f, h) => ~Wired(h, u)
        PROVE  ~IsManaged(Route(file', f))
    BY <2>2, RouteAfterApply
  <2> QED BY <2>1, <2>2
<1> QED BY <1>1, TypesHold, PTL DEF RoutedAsIntended
=============================================================================
