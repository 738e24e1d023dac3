------------------------ MODULE MatterBindings_proofs ------------------------
(***************************************************************************)
(* Proofs about MatterBindings, for any devices, clusters, requests and    *)
(* faults: the state is well typed and no Access Control list overflows;   *)
(* and, where no node has two Binding lists, both halves of a binding are  *)
(* as the last request asked, and an entry is always granted.              *)
(***************************************************************************)
EXTENDS MatterBindings, FiniteSetTheorems, TLAPS

\* The form of a request, by its place in the code.
Form(q) ==
  /\ q.op = "bind" => q.pc \in {"acl", "grant", "granted", "list", "enter", "entered", "undo"}
  /\ q.op = "unbind" => q.pc \in {"list", "drop", "dropped", "acl", "revoke", "revoked"} /\ ~q.changed
  /\ q.op = "unbind" /\ q.pc # "list" => q.list \cap Wished(q) = {}
  /\ q.pc = "undo" => q.changed
  /\ q.pc = "grant" => HasRoom(q.acl, q)
  /\ Cardinality(Subjects(q.acl)) <= MaxEntries

TInv == TypeOK /\ \A r \in Pending : Form(req[r])

-----------------------------------------------------------------------------
(* Lemmas *)

\* Few subjects: a smaller list has no more of them.
LEMMA SubjectsLe ==
  ASSUME NEW l \in SUBSET Grants, NEW k \in SUBSET l, Cardinality(Subjects(l)) <= MaxEntries
  PROVE  Cardinality(Subjects(k)) <= MaxEntries
<1> DEFINE N == {Node(s) : s \in Sources}
           f == [s \in Sources |-> Node(s)]
<1>1. IsFiniteSet(N)
  <2>1. f \in Surjection(Sources, N)
    BY DEF Surjection
  <2> QED
    BY <2>1, FS_Surjection, BindingsOK
<1>2. Subjects(l) \subseteq N /\ Subjects(k) \subseteq Subjects(l)
  BY DEF Subjects, Grants
<1>3. IsFiniteSet(Subjects(l)) /\ IsFiniteSet(Subjects(k))
  BY <1>1, <1>2, FS_Subset
<1>4. /\ Cardinality(Subjects(k)) <= Cardinality(Subjects(l))
      /\ Cardinality(Subjects(l)) \in Nat /\ Cardinality(Subjects(k)) \in Nat
  BY <1>2, <1>3, FS_Subset, FS_CardinalityType
<1> HIDE DEF N, f
<1> QED
  BY <1>4, BindingsOK

LEMMA NoSubjects == Cardinality(Subjects({})) <= MaxEntries
<1>1. Subjects({}) = {}
  BY DEF Subjects
<1> QED
  BY <1>1, FS_EmptySet, BindingsOK

\* What a request wants is a set of grants, and a set of entries.
LEMMA WantedType ==
  ASSUME NEW q \in Request
  PROVE  /\ Wanted(q) \in SUBSET Grants /\ Wished(q) \in SUBSET Entries
         /\ ToRevoke(q) \subseteq Wanted(q)
         /\ Node(q.source) \in Nodes /\ Node(q.target) \in TargetNodes
BY DEF Request, Wanted, Wished, ToRevoke, Grants, Entries, Nodes, TargetNodes

-----------------------------------------------------------------------------
(* Types *)

LEMMA TInit == Init => TInv
<1> SUFFICES ASSUME Init PROVE TInv
  OBVIOUS
<1>1. acl \in [TargetNodes -> SUBSET Grants] /\ bound \in [Sources -> SUBSET Entries]
  BY DEF Init
<1>2. \A n \in TargetNodes : Cardinality(Subjects(acl[n])) <= MaxEntries
  BY NoSubjects DEF Init
<1>3. req \in [Reqs -> Request \cup {Idle}] /\ Pending = {}
  BY DEF Init, Pending
<1>4. requests \in 0 .. MaxRequests /\ faults \in 0 .. MaxFaults
  BY BindingsOK DEF Init
<1> QED
  BY <1>1, <1>2, <1>3, <1>4 DEF Init, TInv, TypeOK

\* A call costs a fault, or none.
LEMMA FaultCount ==
  ASSUME TypeOK, UNCHANGED faults \/ (Fault /\ \E f \in AllFaults : FaultLeft(f))
  PROVE  faults' \in 0 .. MaxFaults
BY BindingsOK DEF TypeOK, Fault, FaultLeft

\* A step of a request: its own record, one list of a device, the history.
LEMMA TStep ==
  ASSUME TInv, NEW r \in Pending, NEW p \in Request \cup {Idle}, req' = [req EXCEPT ![r] = p],
         p # Idle => Form(p),
         NEW t \in Targets, NEW l \in SUBSET Grants, Cardinality(Subjects(l)) <= MaxEntries,
         acl' = acl \/ acl' = [acl EXCEPT ![Node(t)] = l],
         NEW s \in Sources, NEW b \in SUBSET Entries,
         bound' = bound \/ bound' = [bound EXCEPT ![s] = b],
         asked' \subseteq Grants, unsettled' \subseteq Grants,
         faults' \in 0 .. MaxFaults, UNCHANGED <<paired, online, requests>>
  PROVE  TInv'
<1>1. req' \in [Reqs -> Request \cup {Idle}]
  BY DEF TInv, TypeOK, Pending
<1>2. bound' \in [Sources -> SUBSET Entries]
  BY DEF TInv, TypeOK
<1>3. Node(t) \in TargetNodes
  BY DEF TargetNodes
<1>4. acl' \in [TargetNodes -> SUBSET Grants] /\ \A n \in TargetNodes : Cardinality(Subjects(acl'[n])) <= MaxEntries
  <2>1. CASE acl' = acl
    BY <2>1 DEF TInv, TypeOK
  <2>2. CASE acl' = [acl EXCEPT ![Node(t)] = l]
    <3>1. acl' \in [TargetNodes -> SUBSET Grants]
      BY <2>2 DEF TInv, TypeOK
    <3>2. \A n \in TargetNodes : acl'[n] = IF n = Node(t) THEN l ELSE acl[n]
      BY <1>3, <2>2 DEF TInv, TypeOK
    <3> QED
      BY <3>1, <3>2 DEF TInv, TypeOK
  <2> QED
    BY <2>1, <2>2
<1>5. \A x \in Pending' : Form(req'[x])
  <2> SUFFICES ASSUME NEW x \in Pending' PROVE Form(req'[x])
    OBVIOUS
  <2>1. x \in Reqs /\ req'[x] # Idle /\ (x # r => req'[x] = req[x] /\ x \in Pending)
    BY DEF Pending, TInv, TypeOK
  <2>2. CASE x = r
    <3>1. req'[x] = p
      BY <2>1, <2>2 DEF TInv, TypeOK
    <3> QED
      BY <2>1, <3>1
  <2>3. CASE x # r
    BY <2>1, <2>3 DEF TInv
  <2> QED
    BY <2>2, <2>3
<1> QED
  BY <1>1, <1>2, <1>4, <1>5 DEF TInv, TypeOK

-----------------------------------------------------------------------------
(* What a step of a request may do *)

\* The list a request has read and is going to write back.
UsesAcl(q) == q.pc \in {"grant", "granted", "revoke"} \/ q.changed
UsesList(q) == q.pc \in {"enter", "drop"}

\* What a request that is alone on its devices has achieved so far.
Own(q) ==
  /\ q.op = "bind" /\ q.pc \in {"list", "enter", "entered", "undo"} /\ Node(q.target) \in paired
       => Wanted(q) \subseteq acl[Node(q.target)]
  /\ q.op = "unbind" /\ q.pc \in {"acl", "revoke", "revoked"} => Wished(q) \cap bound[q.source] = {}
  /\ q.pc = "revoked" => Wanted(q) \cap acl[Node(q.target)] = {}

\* Both lists are as it was asked to make them.
Result(q) ==
  /\ q.op = "bind" => /\ Node(q.target) \in paired => Wanted(q) \subseteq acl[Node(q.target)]
                      /\ Wished(q) \subseteq bound[q.source]
  /\ q.op = "unbind" => /\ Wanted(q) \cap acl[Node(q.target)] = {}
                        /\ Wished(q) \cap bound[q.source] = {}

\* It changes its own two lists only; of what it has read it changes only what it
\* was asked to; and it makes no entry before the grant, takes no grant before the entry.
AclEffect(q) ==
  \/ acl' = acl
  \/ /\ UsesAcl(q) /\ Node(q.target) \in paired
     /\ \E l \in SUBSET Grants :
          /\ acl' = [acl EXCEPT ![Node(q.target)] = l]
          /\ Cardinality(Subjects(l)) <= MaxEntries
          /\ \A g \in Grants \ Wanted(q) : g \in l <=> g \in q.acl

BoundEffect(q) ==
  \/ bound' = bound
  \/ /\ UsesList(q) /\ Node(q.source) \in paired
     /\ \E b \in SUBSET Entries :
          /\ bound' = [bound EXCEPT ![q.source] = b]
          /\ \A e \in Entries \ Wished(q) : e \in b <=> e \in q.list

Covered(q) ==
  \/ UNCHANGED deviceVars
  \/ Node(q.target) \in paired => Wanted(q) \subseteq acl'[Node(q.target)]
  \/ Wished(q) \cap bound'[q.source] = {}

\* The request goes on as p.
Follows(q, p) ==
  /\ p.op = q.op /\ p.source = q.source /\ p.target = q.target
  /\ p.clusters = q.clusters /\ p.alone = q.alone
  /\ Form(p)
  /\ UsesAcl(p) => \/ UsesAcl(q) /\ p.acl = q.acl
                   \/ acl' = acl /\ p.acl = acl[Node(q.target)]
  /\ UsesList(p) => bound' = bound /\ \A e \in Entries \ Wished(q) : e \in p.list <=> e \in bound[q.source]
  /\ Own(q) => Own(p)'
  /\ Own(q) => Covered(q)

Outcome(r, q) ==
  \/ Trouble(r, q)
  \/ Done(r, q) /\ (Own(q) => Result(q)')
  \/ \E p \in Request : /\ req' = [req EXCEPT ![r] = p] /\ UNCHANGED historyVars
                         /\ Follows(q, p)

Act(r, q) == AclEffect(q) /\ BoundEffect(q) /\ Outcome(r, q)

\* A step that only moves on and changes no list.
LEMMA Moves ==
  ASSUME NEW r, NEW q \in Request, UNCHANGED deviceVars, NEW p \in Request,
         req' = [req EXCEPT ![r] = p], UNCHANGED historyVars, Follows(q, p)
  PROVE  Act(r, q)
BY DEF Act, AclEffect, BoundEffect, Outcome, deviceVars

LEMMA RollsBack ==
  ASSUME NEW r, NEW q \in Request, Form(q), q.op = "bind", q.pc \in {"list", "enter", "entered"},
         RollBack(r, q), acl' = acl, BoundEffect(q), UNCHANGED paired, Own(q) => Covered(q)
  PROVE  Act(r, q)
<1>1. CASE q.changed
  <2> DEFINE p == [q EXCEPT !.pc = "undo"]
  <2>1. /\ p \in Request /\ req' = [req EXCEPT ![r] = p] /\ UNCHANGED historyVars
        /\ p.op = q.op /\ p.source = q.source /\ p.target = q.target /\ p.acl = q.acl
        /\ p.clusters = q.clusters /\ p.alone = q.alone /\ p.pc = "undo" /\ p.changed
    BY <1>1 DEF RollBack, Goto, Request
  <2> HIDE DEF p
  <2>2. Wanted(p) = Wanted(q)
    BY <2>1 DEF Wanted
  <2>3. Form(p)
    BY <2>1 DEF Form
  <2>4. Own(q) => Own(p)'
    BY <2>1, <2>2 DEF Own
  <2>5. Follows(q, p)
    BY <1>1, <2>1, <2>3, <2>4 DEF Follows, UsesAcl, UsesList
  <2> QED
    BY <2>1, <2>5 DEF Act, AclEffect, Outcome
<1>2. CASE ~q.changed
  BY <1>2 DEF RollBack, Act, Outcome, AclEffect
<1> QED
  BY <1>1, <1>2

-----------------------------------------------------------------------------
(* addBinding *)

LEMMA ReadAclActs ==
  ASSUME TInv, NEW r, NEW q \in Request, Form(q), ReadAcl(r, q), UNCHANGED paired
  PROVE  Act(r, q)
<1> DEFINE list == acl[Node(q.target)]
<1>1. list \in SUBSET Grants /\ Cardinality(Subjects(list)) <= MaxEntries
  BY WantedType DEF TInv, TypeOK
<1>2. UNCHANGED deviceVars /\ q.op = "bind" /\ q.pc = "acl"
  BY DEF ReadAcl
<1>3. CASE Trouble(r, q)
  BY <1>2, <1>3 DEF Act, AclEffect, BoundEffect, Outcome, deviceVars
<1>4. CASE Wanted(q) \subseteq list /\ Goto(r, q, "list")
  <2> DEFINE p == [q EXCEPT !.pc = "list"]
  <2>1. /\ p \in Request /\ req' = [req EXCEPT ![r] = p] /\ UNCHANGED historyVars
        /\ p.op = q.op /\ p.source = q.source /\ p.target = q.target /\ p.acl = q.acl
        /\ p.clusters = q.clusters /\ p.alone = q.alone /\ p.pc = "list" /\ p.changed = q.changed
    BY <1>4 DEF Goto, Request
  <2> HIDE DEF p
  <2>2. Wanted(p) = Wanted(q)
    BY <2>1 DEF Wanted
  <2>3. Form(p) /\ Own(p)'
    BY <1>2, <1>4, <2>1, <2>2 DEF Form, Own, deviceVars
  <2>4. Follows(q, p)
    BY <1>2, <2>1, <2>3 DEF Follows, UsesAcl, UsesList, Covered
  <2> QED
    BY <1>2, <2>1, <2>4, Moves
<1>5. CASE HasRoom(list, q) /\ Goto(r, [q EXCEPT !.acl = list], "grant")
  <2>1. PICK l \in SUBSET Grants : l = list
    BY <1>1
  <2> DEFINE p == [q EXCEPT !.acl = l, !.pc = "grant"]
  <2>2. /\ p \in Request /\ req' = [req EXCEPT ![r] = p] /\ UNCHANGED historyVars
        /\ p.op = q.op /\ p.source = q.source /\ p.target = q.target /\ p.acl = l
        /\ p.clusters = q.clusters /\ p.alone = q.alone /\ p.pc = "grant" /\ p.changed = q.changed
    BY <1>5, <2>1 DEF Goto, Request
  <2> HIDE DEF p
  <2>3. HasRoom(l, p) /\ Cardinality(Subjects(l)) <= MaxEntries
    BY <1>1, <1>5, <2>1, <2>2 DEF HasRoom, Wanted
  <2>4. Form(p) /\ Own(p)'
    BY <1>2, <2>2, <2>3 DEF Form, Own
  <2>5. Follows(q, p)
    BY <1>2, <2>1, <2>2, <2>4 DEF Follows, UsesAcl, UsesList, Covered, deviceVars
  <2> QED
    BY <1>2, <2>2, <2>5, Moves
<1> QED
  BY <1>3, <1>4, <1>5 DEF ReadAcl, Read

LEMMA GrantActs ==
  ASSUME TInv, NEW r, NEW q \in Request, Form(q), Grant(r, q), UNCHANGED paired
  PROVE  Act(r, q)
<1>1. /\ UNCHANGED bound /\ q.pc = "grant" /\ q.op = "bind" /\ Node(q.target) \in TargetNodes
      /\ q.acl \in SUBSET Grants /\ Wanted(q) \in SUBSET Grants
  BY WantedType DEF Grant, Form, Request
<1>2. Up(Node(q.target)) /\ SetAcl(q, q.acl \cup Wanted(q)) => AclEffect(q) /\ Wanted(q) \subseteq acl'[Node(q.target)]
  <2> SUFFICES ASSUME Up(Node(q.target)), SetAcl(q, q.acl \cup Wanted(q))
               PROVE  AclEffect(q) /\ Wanted(q) \subseteq acl'[Node(q.target)]
    OBVIOUS
  <2> DEFINE l == q.acl \cup Wanted(q)
  <2>1. l \in SUBSET Grants /\ Cardinality(Subjects(l)) <= MaxEntries /\ acl' = [acl EXCEPT ![Node(q.target)] = l]
        /\ l = q.acl \cup Wanted(q)
    BY <1>1 DEF Form, HasRoom, SetAcl
  <2> HIDE DEF l
  <2>2. acl'[Node(q.target)] = l
    BY <1>1, <2>1 DEF TInv, TypeOK
  <2> QED
    BY <1>1, <2>1, <2>2 DEF AclEffect, UsesAcl, Up
<1>3. CASE Trouble(r, q)
  BY <1>1, <1>2, <1>3 DEF Grant, Write, Act, AclEffect, BoundEffect, Outcome, Lost, Answers
<1>4. CASE Up(Node(q.target)) /\ SetAcl(q, q.acl \cup Wanted(q)) /\ Goto(r, q, "granted")
  <2> DEFINE p == [q EXCEPT !.pc = "granted"]
  <2>1. /\ p \in Request /\ req' = [req EXCEPT ![r] = p] /\ UNCHANGED historyVars
        /\ p.op = q.op /\ p.source = q.source /\ p.target = q.target /\ p.acl = q.acl
        /\ p.clusters = q.clusters /\ p.alone = q.alone /\ p.pc = "granted" /\ p.changed = q.changed
    BY <1>4 DEF Goto, Request
  <2> HIDE DEF p
  <2>2. Form(p) /\ Own(p)'
    BY <1>1, <2>1 DEF Form, Own
  <2>3. Follows(q, p)
    BY <1>1, <1>2, <1>4, <2>1, <2>2 DEF Follows, UsesAcl, UsesList, Covered
  <2> QED
    BY <1>1, <1>2, <1>4, <2>1, <2>3 DEF Act, BoundEffect, Outcome
<1> QED
  BY <1>3, <1>4 DEF Grant, Write, Answers

LEMMA CheckGrantActs ==
  ASSUME TInv, NEW r, NEW q \in Request, Form(q), CheckGrant(r, q), UNCHANGED paired
  PROVE  Act(r, q)
<1>1. UNCHANGED deviceVars /\ q.op = "bind" /\ q.pc = "granted"
  BY DEF CheckGrant, Form, Request
<1>2. CASE Trouble(r, q)
  BY <1>1, <1>2 DEF Act, AclEffect, BoundEffect, Outcome, deviceVars
<1>3. CASE Wanted(q) \subseteq acl[Node(q.target)] /\ Goto(r, [q EXCEPT !.changed = TRUE], "list")
  <2> DEFINE p == [q EXCEPT !.changed = TRUE, !.pc = "list"]
  <2>1. /\ p \in Request /\ req' = [req EXCEPT ![r] = p] /\ UNCHANGED historyVars
        /\ p.op = q.op /\ p.source = q.source /\ p.target = q.target /\ p.acl = q.acl
        /\ p.clusters = q.clusters /\ p.alone = q.alone /\ p.pc = "list" /\ p.changed
    BY <1>3 DEF Goto, Request
  <2> HIDE DEF p
  <2>2. Wanted(p) = Wanted(q)
    BY <2>1 DEF Wanted
  <2>3. Form(p) /\ Own(p)'
    BY <1>1, <1>3, <2>1, <2>2 DEF Form, Own, deviceVars
  <2>4. Follows(q, p)
    BY <1>1, <2>1, <2>3 DEF Follows, UsesAcl, UsesList, Covered
  <2> QED
    BY <1>1, <2>1, <2>4, Moves
<1> QED
  BY <1>2, <1>3 DEF CheckGrant, Read

LEMMA ReadListActs ==
  ASSUME TInv, NEW r, NEW q \in Request, Form(q), ReadList(r, q), UNCHANGED paired
  PROVE  Act(r, q)
<1>1. UNCHANGED deviceVars /\ q.op = "bind" /\ q.pc = "list" /\ acl' = acl /\ BoundEffect(q) /\ Covered(q)
  BY DEF ReadList, deviceVars, BoundEffect, Covered
<1>2. CASE Wished(q) \subseteq bound[q.source] /\ Done(r, q)
  <2>1. Own(q) => Result(q)'
    BY <1>1, <1>2 DEF Own, Result, deviceVars
  <2> QED
    BY <1>1, <1>2, <2>1 DEF Act, AclEffect, Outcome
<1>3. CASE Goto(r, [q EXCEPT !.list = bound[q.source]], "enter")
  <2>1. PICK b \in SUBSET Entries : b = bound[q.source]
    BY DEF TInv, TypeOK, Request
  <2> DEFINE p == [q EXCEPT !.list = b, !.pc = "enter"]
  <2>2. /\ p \in Request /\ req' = [req EXCEPT ![r] = p] /\ UNCHANGED historyVars
        /\ p.op = q.op /\ p.source = q.source /\ p.target = q.target /\ p.acl = q.acl /\ p.list = b
        /\ p.clusters = q.clusters /\ p.alone = q.alone /\ p.pc = "enter" /\ p.changed = q.changed
    BY <1>3, <2>1 DEF Goto, Request
  <2> HIDE DEF p
  <2>3. Wanted(p) = Wanted(q)
    BY <2>2 DEF Wanted
  <2>4. Form(p) /\ (Own(q) => Own(p)')
    BY <1>1, <2>2, <2>3 DEF Form, Own, deviceVars
  <2>5. Follows(q, p)
    BY <1>1, <2>1, <2>2, <2>4 DEF Follows, UsesAcl, UsesList, deviceVars
  <2> QED
    BY <1>1, <2>2, <2>5, Moves
<1>4. CASE RollBack(r, q)
  BY <1>1, <1>4, RollsBack
<1> QED
  BY <1>2, <1>3, <1>4 DEF ReadList, Read

LEMMA EnterActs ==
  ASSUME TInv, NEW r, NEW q \in Request, Form(q), Enter(r, q), UNCHANGED paired
  PROVE  Act(r, q)
<1>1. acl' = acl /\ q.pc = "enter" /\ q.op = "bind" /\ (Own(q) => Covered(q))
  BY DEF Enter, Form, Request, Own, Covered
<1>2. Up(Node(q.source)) /\ SetBound(q, q.list \cup Wished(q)) => BoundEffect(q)
  <2> SUFFICES ASSUME Up(Node(q.source)), SetBound(q, q.list \cup Wished(q)) PROVE BoundEffect(q)
    OBVIOUS
  <2> DEFINE b == q.list \cup Wished(q)
  <2>1. b \in SUBSET Entries /\ bound' = [bound EXCEPT ![q.source] = b] /\ b = q.list \cup Wished(q)
    BY WantedType DEF SetBound, Request
  <2> HIDE DEF b
  <2> QED
    BY <1>1, <2>1 DEF BoundEffect, UsesList, Up
<1>3. CASE RollBack(r, q) /\ BoundEffect(q)
  BY <1>1, <1>3, RollsBack
<1>4. CASE Up(Node(q.source)) /\ SetBound(q, q.list \cup Wished(q)) /\ Goto(r, q, "entered")
  <2> DEFINE p == [q EXCEPT !.pc = "entered"]
  <2>1. /\ p \in Request /\ req' = [req EXCEPT ![r] = p] /\ UNCHANGED historyVars
        /\ p.op = q.op /\ p.source = q.source /\ p.target = q.target /\ p.acl = q.acl
        /\ p.clusters = q.clusters /\ p.alone = q.alone /\ p.pc = "entered" /\ p.changed = q.changed
    BY <1>4 DEF Goto, Request
  <2> HIDE DEF p
  <2>2. Wanted(p) = Wanted(q)
    BY <2>1 DEF Wanted
  <2>3. Form(p) /\ (Own(q) => Own(p)')
    BY <1>1, <2>1, <2>2 DEF Form, Own
  <2>4. Follows(q, p)
    BY <1>1, <2>1, <2>3 DEF Follows, UsesAcl, UsesList
  <2> QED
    BY <1>1, <1>2, <1>4, <2>1, <2>4 DEF Act, AclEffect, Outcome
<1> QED
  BY <1>2, <1>3, <1>4 DEF Enter, Write, Answers, Lost, BoundEffect

LEMMA CheckEntryActs ==
  ASSUME TInv, NEW r, NEW q \in Request, Form(q), CheckEntry(r, q), UNCHANGED paired
  PROVE  Act(r, q)
<1>1. UNCHANGED deviceVars /\ q.op = "bind" /\ q.pc = "entered" /\ acl' = acl /\ BoundEffect(q) /\ Covered(q)
  BY DEF CheckEntry, Form, Request, deviceVars, BoundEffect, Covered
<1>2. CASE Wished(q) \subseteq bound[q.source] /\ Done(r, q)
  <2>1. Own(q) => Result(q)'
    BY <1>1, <1>2 DEF Own, Result, deviceVars
  <2> QED
    BY <1>1, <1>2, <2>1 DEF Act, AclEffect, Outcome
<1>3. CASE RollBack(r, q)
  BY <1>1, <1>3, RollsBack
<1> QED
  BY <1>2, <1>3 DEF CheckEntry, Read

LEMMA UndoActs ==
  ASSUME TInv, NEW r, NEW q \in Request, Form(q), Undo(r, q), UNCHANGED paired
  PROVE  Act(r, q)
<1>1. UNCHANGED bound /\ q.pc = "undo" /\ q.changed /\ Trouble(r, q)
  BY DEF Undo, Form
<1>2. AclEffect(q)
  BY <1>1 DEF Undo, AclEffect, UsesAcl, Answers, Lost, Up, SetAcl, Form, Request
<1> QED
  BY <1>1, <1>2 DEF Act, BoundEffect, Outcome

-----------------------------------------------------------------------------
(* removeBinding *)

\* With the entries gone, in q as the request is by then.
LEMMA RevokingActs ==
  ASSUME NEW r, NEW q \in Request, NEW q1 \in Request, Form(q1), q1.op = "unbind",
         q1.source = q.source, q1.target = q.target, q1.clusters = q.clusters,
         q1.alone = q.alone, q1.op = q.op,
         q1.list \cap Wished(q1) = {}, ~q1.changed,
         Wished(q) \cap bound[q.source] = {}, Revoking(r, q1),
         UNCHANGED <<deviceVars, paired>>
  PROVE  Act(r, q)
<1>1. Wanted(q1) = Wanted(q) /\ Wished(q1) = Wished(q) /\ UNCHANGED deviceVars
  BY DEF Wanted, Wished, deviceVars
<1>2. CASE Trouble(r, q1)
  BY <1>1, <1>2 DEF Trouble, Act, AclEffect, BoundEffect, Outcome, deviceVars
<1>3. CASE ToRevoke(q1) = {} /\ Done(r, q1)
  <2>1. StillBound(q1) \cap q1.clusters = {}
    BY DEF StillBound, Wished
  <2>2. Wanted(q) = {}
    BY <1>1, <1>3, <2>1 DEF ToRevoke, Wanted
  <2>3. Result(q)'
    BY <1>1, <2>2 DEF Result, deviceVars
  <2>4. Done(r, q)
    BY <1>1, <1>3 DEF Done
  <2> QED
    BY <1>1, <2>3, <2>4 DEF Act, AclEffect, BoundEffect, Outcome, deviceVars
<1>4. CASE Goto(r, q1, "acl")
  <2> DEFINE p == [q1 EXCEPT !.pc = "acl"]
  <2>1. /\ p \in Request /\ req' = [req EXCEPT ![r] = p] /\ UNCHANGED historyVars
        /\ p.op = q.op /\ p.source = q.source /\ p.target = q.target /\ p.acl = q1.acl
        /\ p.clusters = q.clusters /\ p.alone = q.alone /\ p.pc = "acl" /\ p.changed = q1.changed
        /\ p.list = q1.list
    BY <1>4 DEF Goto, Request
  <2> HIDE DEF p
  <2>2. Wished(p) = Wished(q)
    BY <2>1 DEF Wished
  <2>3. Form(p) /\ Own(p)'
    BY <1>1, <2>1, <2>2 DEF Form, Own, deviceVars
  <2>4. Follows(q, p)
    BY <1>1, <2>1, <2>3 DEF Follows, UsesAcl, UsesList, Covered
  <2> QED
    BY <1>1, <2>1, <2>4, Moves
<1> QED
  BY <1>2, <1>3, <1>4 DEF Revoking

LEMMA ReadListForUnbindActs ==
  ASSUME TInv, NEW r, NEW q \in Request, Form(q), ReadListForUnbind(r, q), UNCHANGED paired
  PROVE  Act(r, q)
<1>1. UNCHANGED deviceVars /\ q.op = "unbind" /\ q.pc = "list" /\ ~q.changed
  BY DEF ReadListForUnbind, Form
<1>2. PICK b \in SUBSET Entries : b = bound[q.source] \ Wished(q)
  BY DEF TInv, TypeOK, Request
<1> DEFINE q1 == [q EXCEPT !.list = b]
<1>3. /\ q1 \in Request /\ q1.list = b
      /\ q1.op = q.op /\ q1.source = q.source /\ q1.target = q.target /\ q1.acl = q.acl
      /\ q1.clusters = q.clusters /\ q1.alone = q.alone /\ q1.pc = "list" /\ q1.changed = q.changed
  BY <1>1, <1>2 DEF Request
<1>4. \/ Trouble(r, q)
      \/ Wished(q) \cap bound[q.source] # {} /\ Goto(r, q1, "drop")
      \/ Wished(q) \cap bound[q.source] = {} /\ Revoking(r, q1)
  <2>1. q1 = [q EXCEPT !.list = bound[q.source] \ Wished(q)]
    BY <1>2
  <2> HIDE DEF q1
  <2> QED
    BY <2>1 DEF ReadListForUnbind, Read
<1>5. CASE Trouble(r, q)
  BY <1>1, <1>5 DEF Act, AclEffect, BoundEffect, Outcome, deviceVars
<1>6. CASE Goto(r, q1, "drop")
  <2> DEFINE p == [q1 EXCEPT !.pc = "drop"]
  <2>1. /\ p \in Request /\ req' = [req EXCEPT ![r] = p] /\ UNCHANGED historyVars
        /\ p.op = q.op /\ p.source = q.source /\ p.target = q.target /\ p.acl = q.acl
        /\ p.clusters = q.clusters /\ p.alone = q.alone /\ p.pc = "drop" /\ p.changed = q.changed
        /\ p.list = b
    BY <1>3, <1>6 DEF Goto, Request
  <2> HIDE DEF p, q1
  <2>2. Wished(p) = Wished(q)
    BY <2>1 DEF Wished
  <2>3. Form(p) /\ Own(p)'
    BY <1>1, <1>2, <2>1, <2>2 DEF Form, Own
  <2>4. Follows(q, p)
    BY <1>1, <1>2, <2>1, <2>3 DEF Follows, UsesAcl, UsesList, Covered, deviceVars
  <2> QED
    BY <1>1, <2>1, <2>4, Moves
<1>7. CASE Wished(q) \cap bound[q.source] = {} /\ Revoking(r, q1)
  <2> HIDE DEF q1
  <2>1. Wished(q1) = Wished(q) /\ q1.list \cap Wished(q1) = {}
    BY <1>2, <1>3 DEF Wished
  <2>2. Form(q1)
    BY <1>1, <1>3 DEF Form
  <2> QED
    BY <1>1, <1>3, <1>7, <2>1, <2>2, RevokingActs
<1> QED
  BY <1>4, <1>5, <1>6, <1>7

LEMMA DropActs ==
  ASSUME TInv, NEW r, NEW q \in Request, Form(q), Drop(r, q), UNCHANGED paired
  PROVE  Act(r, q)
<1>1. acl' = acl /\ q.pc = "drop" /\ q.op = "unbind" /\ ~q.changed /\ q.list \cap Wished(q) = {}
  BY DEF Drop, Form, Request
<1>2. Up(Node(q.source)) /\ SetBound(q, q.list) => BoundEffect(q) /\ Wished(q) \cap bound'[q.source] = {}
  BY <1>1 DEF SetBound, BoundEffect, UsesList, Up, TInv, TypeOK, Request
<1>3. CASE Trouble(r, q)
  BY <1>1, <1>2, <1>3 DEF Drop, Write, Answers, Lost, Act, AclEffect, BoundEffect, Outcome
<1>4. CASE Up(Node(q.source)) /\ SetBound(q, q.list) /\ Goto(r, q, "dropped")
  <2> DEFINE p == [q EXCEPT !.pc = "dropped"]
  <2>1. /\ p \in Request /\ req' = [req EXCEPT ![r] = p] /\ UNCHANGED historyVars
        /\ p.op = q.op /\ p.source = q.source /\ p.target = q.target /\ p.acl = q.acl
        /\ p.clusters = q.clusters /\ p.alone = q.alone /\ p.pc = "dropped" /\ p.changed = q.changed
        /\ p.list = q.list
    BY <1>4 DEF Goto, Request
  <2> HIDE DEF p
  <2>2. Wished(p) = Wished(q)
    BY <2>1 DEF Wished
  <2>3. Form(p) /\ Own(p)'
    BY <1>1, <2>1, <2>2 DEF Form, Own
  <2>4. Follows(q, p)
    BY <1>1, <1>2, <1>4, <2>1, <2>3 DEF Follows, UsesAcl, UsesList, Covered
  <2> QED
    BY <1>1, <1>2, <1>4, <2>1, <2>4 DEF Act, AclEffect, Outcome
<1> QED
  BY <1>3, <1>4 DEF Drop, Write, Answers

LEMMA CheckDropActs ==
  ASSUME TInv, NEW r, NEW q \in Request, Form(q), CheckDrop(r, q), UNCHANGED paired
  PROVE  Act(r, q)
<1>1. UNCHANGED deviceVars /\ q.op = "unbind" /\ q.pc = "dropped" /\ ~q.changed /\ q.list \cap Wished(q) = {}
  BY DEF CheckDrop, Form, Request
<1>2. CASE Trouble(r, q)
  BY <1>1, <1>2 DEF Act, AclEffect, BoundEffect, Outcome, deviceVars
<1>3. CASE Wished(q) \cap bound[q.source] = {} /\ Revoking(r, q)
  BY <1>1, <1>3, RevokingActs
<1> QED
  BY <1>2, <1>3 DEF CheckDrop, Read

LEMMA ReadAclForUnbindActs ==
  ASSUME TInv, NEW r, NEW q \in Request, Form(q), ReadAclForUnbind(r, q), UNCHANGED paired
  PROVE  Act(r, q)
<1>1. UNCHANGED deviceVars /\ q.op = "unbind" /\ q.pc = "acl" /\ ~q.changed /\ q.list \cap Wished(q) = {}
  BY DEF ReadAclForUnbind, Form
<1>2. PICK l \in SUBSET Grants : l = acl[Node(q.target)] /\ Cardinality(Subjects(l)) <= MaxEntries
  BY WantedType DEF TInv, TypeOK
<1>3. ToRevoke(q) = Wanted(q)
  BY <1>1 DEF ToRevoke, Wanted, StillBound, Wished
<1>4. CASE Trouble(r, q)
  BY <1>1, <1>4 DEF Act, AclEffect, BoundEffect, Outcome, deviceVars
<1>5. CASE ToRevoke(q) \cap l = {} /\ Done(r, q)
  <2>1. Own(q) => Result(q)'
    BY <1>1, <1>2, <1>3, <1>5 DEF Own, Result, deviceVars
  <2> QED
    BY <1>1, <1>5, <2>1 DEF Act, AclEffect, BoundEffect, Outcome, deviceVars
<1>6. CASE Goto(r, [q EXCEPT !.acl = l], "revoke")
  <2> DEFINE p == [q EXCEPT !.acl = l, !.pc = "revoke"]
  <2>1. /\ p \in Request /\ req' = [req EXCEPT ![r] = p] /\ UNCHANGED historyVars
        /\ p.op = q.op /\ p.source = q.source /\ p.target = q.target /\ p.acl = l
        /\ p.clusters = q.clusters /\ p.alone = q.alone /\ p.pc = "revoke" /\ p.changed = q.changed
        /\ p.list = q.list
    BY <1>6 DEF Goto, Request
  <2> HIDE DEF p
  <2>2. Wished(p) = Wished(q)
    BY <2>1 DEF Wished
  <2>3. Form(p) /\ (Own(q) => Own(p)')
    BY <1>1, <1>2, <2>1, <2>2 DEF Form, Own, deviceVars
  <2>4. Follows(q, p)
    BY <1>1, <1>2, <2>1, <2>3 DEF Follows, UsesAcl, UsesList, Covered, deviceVars
  <2> QED
    BY <1>1, <2>1, <2>4, Moves
<1> QED
  BY <1>2, <1>4, <1>5, <1>6 DEF ReadAclForUnbind, Read

LEMMA RevokeActs ==
  ASSUME TInv, NEW r, NEW q \in Request, Form(q), Revoke(r, q), UNCHANGED paired
  PROVE  Act(r, q)
<1>1. /\ bound' = bound /\ q.pc = "revoke" /\ q.op = "unbind" /\ ~q.changed /\ q.list \cap Wished(q) = {}
      /\ Node(q.target) \in TargetNodes /\ q.acl \in SUBSET Grants
  BY WantedType DEF Revoke, Form, Request
<1>2. ToRevoke(q) = Wanted(q)
  BY <1>1 DEF ToRevoke, Wanted, StillBound, Wished
<1>3. Up(Node(q.target)) /\ SetAcl(q, q.acl \ ToRevoke(q)) =>
        AclEffect(q) /\ Wanted(q) \cap acl'[Node(q.target)] = {}
  <2> SUFFICES ASSUME Up(Node(q.target)), SetAcl(q, q.acl \ ToRevoke(q))
               PROVE  AclEffect(q) /\ Wanted(q) \cap acl'[Node(q.target)] = {}
    OBVIOUS
  <2> DEFINE l == q.acl \ Wanted(q)
  <2>1. l \in SUBSET q.acl /\ Cardinality(Subjects(l)) <= MaxEntries
    BY <1>1, SubjectsLe DEF Form
  <2>2. l \in SUBSET Grants /\ acl' = [acl EXCEPT ![Node(q.target)] = l] /\ l = q.acl \ Wanted(q)
    BY <1>1, <1>2 DEF SetAcl
  <2> HIDE DEF l
  <2>3. acl'[Node(q.target)] = l
    BY <1>1, <2>2 DEF TInv, TypeOK
  <2> QED
    BY <1>1, <2>1, <2>2, <2>3 DEF AclEffect, UsesAcl, Up
<1>4. Own(q) => Covered(q)
  BY <1>1 DEF Own, Covered
<1>5. CASE Trouble(r, q)
  BY <1>1, <1>3, <1>5 DEF Revoke, Write, Answers, Lost, Act, AclEffect, BoundEffect, Outcome
<1>6. CASE Up(Node(q.target)) /\ SetAcl(q, q.acl \ ToRevoke(q)) /\ Goto(r, q, "revoked")
  <2> DEFINE p == [q EXCEPT !.pc = "revoked"]
  <2>1. /\ p \in Request /\ req' = [req EXCEPT ![r] = p] /\ UNCHANGED historyVars
        /\ p.op = q.op /\ p.source = q.source /\ p.target = q.target /\ p.acl = q.acl
        /\ p.clusters = q.clusters /\ p.alone = q.alone /\ p.pc = "revoked" /\ p.changed = q.changed
        /\ p.list = q.list
    BY <1>6 DEF Goto, Request
  <2> HIDE DEF p
  <2>2. Wished(p) = Wished(q) /\ Wanted(p) = Wanted(q)
    BY <2>1 DEF Wished, Wanted
  <2>3. Form(p) /\ (Own(q) => Own(p)')
    BY <1>1, <1>3, <1>6, <2>1, <2>2 DEF Form, Own
  <2>4. Follows(q, p)
    BY <1>1, <1>4, <2>1, <2>3 DEF Follows, UsesAcl, UsesList
  <2> QED
    BY <1>1, <1>3, <1>6, <2>1, <2>4 DEF Act, BoundEffect, Outcome
<1> QED
  BY <1>5, <1>6 DEF Revoke, Write, Answers

LEMMA CheckRevokeActs ==
  ASSUME TInv, NEW r, NEW q \in Request, Form(q), CheckRevoke(r, q), UNCHANGED paired
  PROVE  Act(r, q)
<1>1. UNCHANGED deviceVars /\ q.op = "unbind" /\ q.pc = "revoked"
  BY DEF CheckRevoke, Form, Request
<1>2. CASE Trouble(r, q)
  BY <1>1, <1>2 DEF Act, AclEffect, BoundEffect, Outcome, deviceVars
<1>3. CASE Done(r, q)
  <2>1. Own(q) => Result(q)'
    BY <1>1 DEF Own, Result, deviceVars
  <2> QED
    BY <1>1, <1>3, <2>1 DEF Act, AclEffect, BoundEffect, Outcome, deviceVars
<1> QED
  BY <1>2, <1>3 DEF CheckRevoke, Read

-----------------------------------------------------------------------------
(* Every step of a request *)

LEMMA RequestActs ==
  ASSUME TInv, NEW r \in Pending, NEW q \in Request, q = req[r], RequestStep(r)
  PROVE  Act(r, q) /\ Form(q) /\ faults' \in 0 .. MaxFaults /\ UNCHANGED <<paired, online, requests>>
<1>1. Form(q) /\ UNCHANGED <<paired, online, requests>> /\ (BindStep(r, q) \/ UnbindStep(r, q))
  BY DEF RequestStep, TInv
<1>2. Act(r, q)
  BY <1>1, ReadAclActs, GrantActs, CheckGrantActs, ReadListActs, EnterActs, CheckEntryActs, UndoActs,
     ReadListForUnbindActs, DropActs, CheckDropActs, ReadAclForUnbindActs, RevokeActs, CheckRevokeActs
     DEF BindStep, UnbindStep
<1>3. faults' \in 0 .. MaxFaults
  <2>1. \A n : Answers(n) \/ Lost(n) \/ Refuses(n) => faults' \in 0 .. MaxFaults
    BY BindingsOK DEF Answers, Lost, Refuses, TInv, TypeOK, Fault, FaultLeft
  <2>2. \A n, a, f : Read(n, a, f) => faults' \in 0 .. MaxFaults
    BY <2>1 DEF Read
  <2>3. \A n, e, ne, a, f : Write(n, e, ne, a, f) => faults' \in 0 .. MaxFaults
    BY <2>1 DEF Write
  <2>4. BindStep(r, q) => faults' \in 0 .. MaxFaults
    BY <2>1, <2>2, <2>3 DEF BindStep, ReadAcl, Grant, CheckGrant, ReadList, Enter, CheckEntry, Undo
  <2>5. UnbindStep(r, q) => faults' \in 0 .. MaxFaults
    BY <2>2, <2>3 DEF UnbindStep, ReadListForUnbind, Drop, CheckDrop, ReadAclForUnbind, Revoke, CheckRevoke
  <2> QED
    BY <1>1, <2>4, <2>5
<1> QED
  BY <1>1, <1>2, <1>3

LEMMA RequestTypes ==
  ASSUME TInv, NEW r \in Pending, RequestStep(r)
  PROVE  TInv'
<1>1. PICK q \in Request : q = req[r]
  BY DEF TInv, TypeOK, Pending
<1>2. Act(r, q) /\ Form(q) /\ faults' \in 0 .. MaxFaults /\ UNCHANGED <<paired, online, requests>>
  BY <1>1, RequestActs
<1>3. q.source \in Sources /\ q.target \in Targets /\ Wanted(q) \subseteq Grants
  BY WantedType DEF Request
<1>4. PICK p \in Request \cup {Idle} : req' = [req EXCEPT ![r] = p] /\ (p # Idle => Form(p))
  BY <1>2 DEF Act, Outcome, Follows, Trouble, Done
<1>5. asked' \subseteq Grants /\ unsettled' \subseteq Grants
  BY <1>2, <1>3 DEF Act, Outcome, Trouble, Done, historyVars, TInv, TypeOK
<1>6. PICK l \in SUBSET Grants : /\ acl' = acl \/ acl' = [acl EXCEPT ![Node(q.target)] = l]
                                /\ Cardinality(Subjects(l)) <= MaxEntries
  BY <1>2, NoSubjects DEF Act, AclEffect
<1>7. PICK b \in SUBSET Entries : bound' = bound \/ bound' = [bound EXCEPT ![q.source] = b]
  BY <1>2 DEF Act, BoundEffect
<1> QED
  BY <1>2, <1>3, <1>4, <1>5, <1>6, <1>7, TStep

\* A request arrives, of either kind.
Fresh(q) ==
  /\ q \in Request
  /\ \/ q.op = "bind" /\ q.pc = "acl"
     \/ q.op = "unbind" /\ q.pc = "list"
  /\ q.acl = {} /\ ~q.changed

LEMMA FreshForm == ASSUME NEW q, Fresh(q) PROVE Form(q)
  BY NoSubjects DEF Fresh, Form

LEMMA Arrivals ==
  ASSUME NEW r \in Reqs, NEW s \in Sources, NEW t \in Targets, NEW cs \in SUBSET Clusters,
         Bind(r, s, t, cs) \/ Unbind(r, s, t, cs)
  PROVE  \E q \in Request : Fresh(q) /\ Arrive(r, q)
<1>1. ASSUME Bind(r, s, t, cs) PROVE \E q \in Request : Fresh(q) /\ Arrive(r, q)
  <2> DEFINE q == [Blank EXCEPT !.pc = "acl", !.source = s, !.target = t, !.clusters = cs]
  <2>1. q \in Request /\ Fresh(q)
    BY DEF Blank, Request, Fresh
  <2> QED
    BY <1>1, <2>1 DEF Bind
<1>2. ASSUME Unbind(r, s, t, cs) PROVE \E q \in Request : Fresh(q) /\ Arrive(r, q)
  <2> DEFINE q == [Blank EXCEPT !.op = "unbind", !.pc = "list",
                                !.source = s, !.target = t, !.clusters = cs]
  <2>1. q \in Request /\ Fresh(q)
    BY DEF Blank, Request, Fresh
  <2> QED
    BY <1>2, <2>1 DEF Unbind
<1> QED
  BY <1>1, <1>2

\* What an arrival does to the requests: the new one, those it meets, the rest.
LEMMA ArrivalCases ==
  ASSUME TInv, NEW r \in Reqs, NEW q \in Request, Arrive(r, q)
  PROVE  /\ r \notin Pending /\ Pending' = Pending \cup {r}
         /\ req' \in [Reqs -> Request \cup {Idle}]
         /\ req'[r] = [q EXCEPT !.alone = ({x \in Pending : Meets(q, x)} = {})]
         /\ \A x \in Pending : /\ x # r /\ req[x] \in Request
                                /\ req'[x] = IF Meets(q, x) THEN [req[x] EXCEPT !.alone = FALSE] ELSE req[x]
<1> DEFINE others == {x \in Pending : Meets(q, x)}
<1>1. /\ req[r] = Idle /\ r \notin Pending
      /\ req' = [x \in Reqs |-> IF x = r THEN [q EXCEPT !.alone = others = {}]
                               ELSE IF x \in others THEN [req[x] EXCEPT !.alone = FALSE] ELSE req[x]]
  BY DEF Arrive, Pending
<1>2. \A x \in Pending : x # r /\ x \in Reqs /\ req[x] \in Request
  BY <1>1 DEF Pending, TInv, TypeOK
<1>3. [q EXCEPT !.alone = (others = {})] \in Request
  BY DEF Request
<1>4. \A x \in Pending : [req[x] EXCEPT !.alone = FALSE] \in Request
  BY <1>2 DEF Request
<1>5. \A x \in Reqs \ Pending : req[x] = Idle
  BY DEF Pending
<1>6. req' \in [Reqs -> Request \cup {Idle}]
  BY <1>1, <1>2, <1>3, <1>4, <1>5
<1>7. Pending' = Pending \cup {r}
  <2>1. Idle \notin Request
    BY BindingsOK
  <2>2. \A x \in Reqs : req'[x] # Idle <=> x \in Pending \cup {r}
    BY <1>1, <1>2, <1>3, <1>4, <1>5, <2>1
  <2> QED
    BY <1>2, <2>2 DEF Pending
<1>8. req'[r] = [q EXCEPT !.alone = others = {}]
  BY <1>1
<1>9. \A x \in Pending : req'[x] = IF Meets(q, x) THEN [req[x] EXCEPT !.alone = FALSE] ELSE req[x]
  BY <1>1, <1>2
<1> QED
  BY <1>1, <1>2, <1>6, <1>7, <1>8, <1>9

LEMMA ArriveTypes ==
  ASSUME TInv, NEW r \in Reqs, NEW q \in Request, Fresh(q), Arrive(r, q)
  PROVE  TInv'
<1>1. /\ Pending' = Pending \cup {r}
      /\ req' \in [Reqs -> Request \cup {Idle}]
      /\ req'[r] = [q EXCEPT !.alone = ({x \in Pending : Meets(q, x)} = {})]
      /\ \A x \in Pending : /\ x # r /\ req[x] \in Request
                             /\ req'[x] = IF Meets(q, x) THEN [req[x] EXCEPT !.alone = FALSE] ELSE req[x]
  BY ArrivalCases
<1>2. \A p \in Request, a \in BOOLEAN : Form(p) => Form([p EXCEPT !.alone = a])
  <2> SUFFICES ASSUME NEW p \in Request, NEW a \in BOOLEAN, Form(p) PROVE Form([p EXCEPT !.alone = a])
    OBVIOUS
  <2> DEFINE n == [p EXCEPT !.alone = a]
  <2>1. /\ n.op = p.op /\ n.pc = p.pc /\ n.source = p.source /\ n.target = p.target
        /\ n.clusters = p.clusters /\ n.acl = p.acl /\ n.list = p.list /\ n.changed = p.changed
    BY DEF Request
  <2> HIDE DEF n
  <2>2. Wished(n) = Wished(p) /\ (HasRoom(p.acl, p) => HasRoom(n.acl, n))
    BY <2>1 DEF Wished, HasRoom, Wanted
  <2>3. Form(n)
    BY <2>1, <2>2 DEF Form
  <2> QED
    BY <2>3 DEF n
<1>3. \A x \in Pending' : Form(req'[x])
  BY <1>1, <1>2, FreshForm DEF TInv
<1>4. \A x \in Pending : Wanted(req[x]) \subseteq Grants
  BY <1>1, WantedType
<1>5. unsettled' \subseteq Grants
  BY <1>4, WantedType DEF Arrive, TInv, TypeOK
<1>6. requests' \in 0 .. MaxRequests
  BY BindingsOK DEF Arrive, TInv, TypeOK
<1> QED
  BY <1>1, <1>3, <1>5, <1>6 DEF Arrive, TInv, TypeOK, deviceVars

LEMMA CrashTypes == ASSUME TInv, Crash PROVE TInv'
<1>1. \A x \in Pending : Wanted(req[x]) \subseteq Grants
  BY WantedType DEF TInv, TypeOK, Pending
<1>2. unsettled' \subseteq Grants
  BY <1>1 DEF Crash, TInv, TypeOK
<1>3. req' = [r \in Reqs |-> Idle] /\ Pending' = {}
  BY DEF Crash, Pending
<1>4. faults' \in 0 .. MaxFaults
  BY BindingsOK DEF Crash, FaultLeft, Fault, TInv, TypeOK
<1> QED
  BY <1>2, <1>3, <1>4 DEF Crash, TInv, TypeOK, deviceVars

LEMMA DeviceTypes ==
  ASSUME TInv, NEW n \in Nodes, GoOffline(n) \/ ComeOnline(n) \/ Unpair(n)
  PROVE  TInv'
<1>1. /\ UNCHANGED <<req, historyVars, requests>> /\ paired' \subseteq Nodes /\ online' \subseteq Nodes
      /\ faults' \in 0 .. MaxFaults
  BY BindingsOK DEF GoOffline, ComeOnline, Unpair, FaultLeft, Fault, TInv, TypeOK
<1>2. CASE UNCHANGED deviceVars
  BY <1>1, <1>2 DEF TInv, TypeOK, deviceVars, historyVars, Pending
<1>3. CASE /\ acl' = [m \in TargetNodes |-> IF m = n THEN {} ELSE acl[m]]
           /\ bound' = [s \in Sources |-> IF Node(s) = n THEN {} ELSE bound[s]]
  <2>1. acl' \in [TargetNodes -> SUBSET Grants] /\ bound' \in [Sources -> SUBSET Entries]
    BY <1>3 DEF TInv, TypeOK
  <2>2. \A m \in TargetNodes : Cardinality(Subjects(acl'[m])) <= MaxEntries
    BY <1>3, NoSubjects DEF TInv, TypeOK
  <2> QED
    BY <1>1, <2>1, <2>2 DEF TInv, TypeOK, historyVars, Pending
<1> QED
  BY <1>2, <1>3 DEF GoOffline, ComeOnline, Unpair

LEMMA TypeStep == ASSUME TInv, [Next]_vars PROVE TInv'
<1>1. ASSUME NEW r \in Reqs, NEW s \in Sources, NEW t \in Targets, NEW cs \in SUBSET Clusters,
             Bind(r, s, t, cs) \/ Unbind(r, s, t, cs)
      PROVE  TInv'
  BY <1>1, Arrivals, ArriveTypes
<1>2. ASSUME NEW r \in Reqs, RequestStep(r) PROVE TInv'
  BY <1>2, RequestTypes DEF RequestStep
<1>3. CASE UNCHANGED vars
  BY <1>3 DEF vars, deviceVars, historyVars, TInv, TypeOK, Pending
<1> QED
  BY <1>1, <1>2, <1>3, DeviceTypes, CrashTypes DEF Next

\* The variables have their types, and no Access Control list ever holds more
\* subjects than its device has room for, whatever lists are written back from what
\* was read before (grantOperate of matter/bindings.js, the roll back of addBinding).
THEOREM TypeCorrect == Spec => []TypeOK
<1>1. TInv => TypeOK
  BY DEF TInv
<1> QED
  BY <1>1, TInit, TypeStep, PTL DEF Spec

-----------------------------------------------------------------------------
(* Both halves of a binding *)

\* No node has two Binding lists: what may be revoked is asked of one list only.
OneListPerNode == \A s1, s2 \in Sources : Node(s1) = Node(s2) => s1 = s2

\* What a request has read of a list is what is there, but for what it was asked
\* to change and what is unsettled.
AclAgrees(q) ==
  Node(q.target) \in paired =>
    \A g \in Grants \ (unsettled \cup Wanted(q)) :
      Node(g[2]) = Node(q.target) => (g \in q.acl <=> Granted(g))

ListAgrees(q) ==
  Node(q.source) \in paired =>
    \A g \in Grants \ (unsettled \cup Wanted(q)) :
      g[1] = Node(q.source) => (<<g[2], g[3]>> \in q.list <=> Entered(g))

Lists(q) ==
  /\ UsesAcl(q) => AclAgrees(q)
  /\ UsesList(q) => ListAgrees(q)
  /\ q.alone => Own(q)

\* Requests that meet know it, and what they want is unsettled.
Private ==
  /\ \A r \in Pending : ~req[r].alone => Wanted(req[r]) \subseteq unsettled
  /\ \A r, x \in Pending : r # x /\ Meets(req[r], x) => ~req[r].alone /\ ~req[x].alone

BInv == TInv /\ Private /\ (\A r \in Pending : Lists(req[r])) /\ EntryGranted /\ AsAsked

LEMMA GrantAt ==
  ASSUME NEW g \in Grants
  PROVE  /\ Node(g[2]) \in TargetNodes /\ <<g[2], g[3]>> \in Entries
         /\ \E s \in Sources : Node(s) = g[1]
         /\ \A q \in Request : g \in Wanted(q) => Node(g[2]) = Node(q.target) /\ g[1] = Node(q.source)
         /\ \A q \in Request : g[1] = Node(q.source) => (g \in Wanted(q) <=> <<g[2], g[3]>> \in Wished(q))
<1>1. g = <<g[1], g[2], g[3]>> /\ g[2] \in Targets /\ g[3] \in Clusters
  BY DEF Grants
<1>2. \E s \in Sources : Node(s) = g[1]
  BY DEF Grants
<1>3. ASSUME NEW q \in Request, g[1] = Node(q.source)
      PROVE  g \in Wanted(q) <=> <<g[2], g[3]>> \in Wished(q)
  BY <1>1, <1>3 DEF Wanted, Wished
<1>4. ASSUME NEW q \in Request, g \in Wanted(q)
      PROVE  Node(g[2]) = Node(q.target) /\ g[1] = Node(q.source)
  BY <1>4 DEF Wanted
<1> QED
  BY <1>1, <1>2, <1>3, <1>4 DEF TargetNodes, Entries

LEMMA EnteredAt ==
  ASSUME OneListPerNode, NEW s \in Sources, NEW g, g[1] = Node(s)
  PROVE  /\ Entered(g) <=> <<g[2], g[3]>> \in bound[s]
         /\ Entered(g)' <=> <<g[2], g[3]>> \in bound'[s]
  BY DEF OneListPerNode, Entered

\* A step of a request leaves alone what is not on its devices, and what is
\* settled and not its own.
LEMMA Keeps ==
  ASSUME OneListPerNode, TypeOK, NEW q \in Request, Lists(q), AclEffect(q), BoundEffect(q),
         NEW g \in Grants
  PROVE  /\ Node(g[2]) # Node(q.target) \/ g \notin unsettled \cup Wanted(q) => (Granted(g)' <=> Granted(g))
         /\ g[1] # Node(q.source) \/ g \notin unsettled \cup Wanted(q) => (Entered(g)' <=> Entered(g))
<1>1. ASSUME Node(g[2]) # Node(q.target) \/ g \notin unsettled \cup Wanted(q)
      PROVE  Granted(g)' <=> Granted(g)
  <2>1. CASE acl' = acl
    BY <2>1 DEF Granted
  <2>2. CASE acl' # acl
    <3>1. UsesAcl(q) /\ Node(q.target) \in paired
      BY <2>2 DEF AclEffect
    <3>2. PICK l \in SUBSET Grants : /\ acl' = [acl EXCEPT ![Node(q.target)] = l]
                                    /\ \A x \in Grants \ Wanted(q) : x \in l <=> x \in q.acl
      BY <2>2 DEF AclEffect
    <3>3. acl'[Node(g[2])] = IF Node(g[2]) = Node(q.target) THEN l ELSE acl[Node(g[2])]
      BY <3>2, GrantAt DEF TypeOK
    <3> QED
      BY <1>1, <3>1, <3>2, <3>3 DEF Granted, Lists, AclAgrees
  <2> QED
    BY <2>1, <2>2
<1>2. ASSUME g[1] # Node(q.source) \/ g \notin unsettled \cup Wanted(q)
      PROVE  Entered(g)' <=> Entered(g)
  <2>1. PICK s \in Sources : Node(s) = g[1]
    BY GrantAt
  <2>2. CASE bound' = bound
    BY <2>2 DEF Entered
  <2>3. CASE bound' # bound
    <3>1. UsesList(q) /\ Node(q.source) \in paired
      BY <2>3 DEF BoundEffect
    <3>2. PICK b \in SUBSET Entries : /\ bound' = [bound EXCEPT ![q.source] = b]
                                     /\ \A e \in Entries \ Wished(q) : e \in b <=> e \in q.list
      BY <2>3 DEF BoundEffect
    <3>3. bound'[s] = IF s = q.source THEN b ELSE bound[s]
      BY <3>2 DEF TypeOK
    <3>4. CASE s # q.source
      BY <2>1, <3>3, <3>4, EnteredAt
    <3>5. CASE s = q.source
      <4>1. g \notin unsettled \cup Wanted(q) /\ g[1] = Node(q.source)
        BY <1>2, <2>1, <3>5
      <4>2. <<g[2], g[3]>> \in q.list <=> Entered(g)
        BY <3>1, <4>1 DEF Lists, ListAgrees
      <4>3. <<g[2], g[3]>> \in Entries \ Wished(q)
        BY <4>1, GrantAt
      <4>4. <<g[2], g[3]>> \in b <=> <<g[2], g[3]>> \in q.list
        BY <3>2, <4>3
      <4>5. Entered(g)' <=> <<g[2], g[3]>> \in bound'[s]
        BY <2>1, EnteredAt
      <4> QED
        BY <3>3, <3>5, <4>2, <4>4, <4>5
    <3> QED
      BY <3>4, <3>5
  <2> QED
    BY <2>2, <2>3
<1> QED
  BY <1>1, <1>2

\* Who is pending after a step of r, and what is unsettled.
LEMMA OutcomeFacts ==
  ASSUME TypeOK, Private, NEW r \in Pending, NEW q \in Request, q = req[r], Outcome(r, q)
  PROVE  /\ \A x \in Pending \ {r} : x \in Pending' /\ req'[x] = req[x]
         /\ \A x \in Pending' \ {r} : x \in Pending /\ req'[x] = req[x]
         /\ unsettled \subseteq unsettled' \cup Wanted(q)
         /\ ~q.alone => unsettled \subseteq unsettled' /\ Wanted(q) \subseteq unsettled'
         /\ \A g \in Grants \ Wanted(q) : g \in asked' <=> g \in asked
         /\ r \in Pending' => \E p \in Request : /\ req'[r] = p /\ UNCHANGED historyVars /\ Follows(q, p)
         /\ r \notin Pending' => \/ Wanted(q) \subseteq unsettled'
                                 \/ Done(r, q) /\ (Own(q) => Result(q)')
<1>1. r \in Reqs /\ req \in [Reqs -> Request \cup {Idle}] /\ Idle \notin Request
  BY BindingsOK DEF Pending, TypeOK
<1>2. \E p \in Request \cup {Idle} : req' = [req EXCEPT ![r] = p]
  BY DEF Outcome, Trouble, Done
<1>3. \A x \in Reqs \ {r} : req'[x] = req[x]
  BY <1>1, <1>2
<1>4. DOMAIN req' = Reqs /\ Pending \subseteq Reqs /\ Pending' \subseteq Reqs
  BY <1>1, <1>2 DEF Pending
<1>5. \A x \in Reqs \ {r} : x \in Pending' <=> x \in Pending
  BY <1>3 DEF Pending
<1>6. ~q.alone => Wanted(q) \subseteq unsettled
  BY DEF Private
<1>7. CASE Trouble(r, q)
  <2>1. req'[r] = Idle /\ unsettled' = unsettled \cup Wanted(q) /\ asked' = asked
    BY <1>1, <1>7 DEF Trouble
  <2>2. r \notin Pending'
    BY <2>1 DEF Pending
  <2> QED
    BY <1>3, <1>4, <1>5, <2>1, <2>2
<1>8. CASE Done(r, q) /\ (Own(q) => Result(q)')
  <2>1. /\ req'[r] = Idle /\ unsettled' = IF q.alone THEN unsettled \ Wanted(q) ELSE unsettled
        /\ asked' = IF q.op = "bind" THEN asked \cup Wanted(q) ELSE asked \ Wanted(q)
    BY <1>1, <1>8 DEF Done
  <2>2. r \notin Pending'
    BY <2>1 DEF Pending
  <2> QED
    BY <1>3, <1>4, <1>5, <1>6, <1>8, <2>1, <2>2
<1>9. ASSUME NEW p \in Request, req' = [req EXCEPT ![r] = p], UNCHANGED historyVars, Follows(q, p)
      PROVE  /\ unsettled' = unsettled /\ asked' = asked /\ r \in Pending'
             /\ \E p1 \in Request : req'[r] = p1 /\ UNCHANGED historyVars /\ Follows(q, p1)
  <2>1. req'[r] = p /\ UNCHANGED historyVars /\ r \in Pending'
    BY <1>1, <1>9 DEF Pending
  <2> QED
    BY <1>9, <2>1 DEF historyVars
<1>10. CASE \E p \in Request : /\ req' = [req EXCEPT ![r] = p] /\ UNCHANGED historyVars
                              /\ Follows(q, p)
  BY <1>3, <1>4, <1>5, <1>6, <1>9, <1>10
<1> QED
  BY <1>7, <1>8, <1>10 DEF Outcome

\* Another request's reading of the lists stays good: what it relies on is settled,
\* and then nobody else is on its devices.
LEMMA Others ==
  ASSUME OneListPerNode, BInv, NEW r \in Pending, NEW q \in Request, q = req[r], Act(r, q),
         UNCHANGED paired, NEW x \in Pending \ {r}, NEW o \in Request, o = req[x]
  PROVE  Lists(o)'
<1>1. /\ unsettled \subseteq unsettled' \cup Wanted(q)
      /\ ~q.alone => unsettled \subseteq unsettled' /\ Wanted(q) \subseteq unsettled'
      /\ TypeOK /\ Private /\ Lists(q) /\ Lists(o) /\ AclEffect(q) /\ BoundEffect(q)
  BY OutcomeFacts DEF BInv, TInv, Act
<1>2. NodesOf(q) \cap NodesOf(o) # {} => ~q.alone /\ ~o.alone
  BY <1>1 DEF Private, Meets
<1>3. ASSUME NEW g \in Grants \ (unsettled' \cup Wanted(o)),
             Node(g[2]) = Node(o.target) \/ g[1] = Node(o.source)
      PROVE  g \notin unsettled /\ g \notin Wanted(q)
  <2>1. g \in Wanted(q) => ~q.alone
    BY <1>2, <1>3, GrantAt DEF NodesOf
  <2> QED
    BY <1>1, <1>3, <2>1
<1>4. UsesAcl(o) => AclAgrees(o)'
  <2> SUFFICES ASSUME UsesAcl(o), Node(o.target) \in paired,
                      NEW g \in Grants \ (unsettled' \cup Wanted(o)), Node(g[2]) = Node(o.target)
               PROVE  g \in o.acl <=> Granted(g)'
    BY DEF AclAgrees
  <2>1. g \notin unsettled /\ g \notin Wanted(q)
    BY <1>3
  <2>2. Granted(g)' <=> Granted(g)
    BY <1>1, <2>1, Keeps
  <2> QED
    BY <1>1, <2>1, <2>2 DEF Lists, AclAgrees
<1>5. UsesList(o) => ListAgrees(o)'
  <2> SUFFICES ASSUME UsesList(o), Node(o.source) \in paired,
                      NEW g \in Grants \ (unsettled' \cup Wanted(o)), g[1] = Node(o.source)
               PROVE  <<g[2], g[3]>> \in o.list <=> Entered(g)'
    BY DEF ListAgrees
  <2>1. g \notin unsettled /\ g \notin Wanted(q)
    BY <1>3
  <2>2. Entered(g)' <=> Entered(g)
    BY <1>1, <2>1, Keeps
  <2> QED
    BY <1>1, <2>1, <2>2 DEF Lists, ListAgrees
<1>6. o.alone => Own(o)'
  <2> SUFFICES ASSUME o.alone PROVE Own(o)'
    OBVIOUS
  <2>1. Node(o.target) # Node(q.target) /\ o.source # q.source
    BY <1>2 DEF NodesOf
  <2>2. acl'[Node(o.target)] = acl[Node(o.target)]
    BY <1>1, <2>1, WantedType DEF AclEffect, TypeOK
  <2>3. bound'[o.source] = bound[o.source]
    BY <1>1, <2>1 DEF BoundEffect, TypeOK, Request
  <2>4. Own(o)
    BY <1>1 DEF Lists
  <2> QED
    BY <2>2, <2>3, <2>4 DEF Own
<1> QED
  BY <1>4, <1>5, <1>6 DEF Lists, UsesAcl, UsesList

\* So does its own, when it goes on.
LEMMA GoesOn ==
  ASSUME OneListPerNode, BInv, NEW q \in Request, Lists(q), AclEffect(q), BoundEffect(q),
         UNCHANGED <<paired, unsettled>>, NEW p \in Request, Follows(q, p)
  PROVE  Lists(p)'
<1>1. /\ TypeOK /\ p.source = q.source /\ p.target = q.target /\ p.alone = q.alone
      /\ Wanted(p) = Wanted(q)
  BY DEF BInv, TInv, Follows, Wanted
<1>2. UsesAcl(p) => AclAgrees(p)'
  <2> SUFFICES ASSUME UsesAcl(p), Node(q.target) \in paired,
                      NEW g \in Grants \ (unsettled \cup Wanted(q)), Node(g[2]) = Node(q.target)
               PROVE  g \in p.acl <=> Granted(g)'
    BY <1>1 DEF AclAgrees
  <2>1. Granted(g)' <=> Granted(g)
    BY <1>1, Keeps
  <2>2. CASE UsesAcl(q) /\ p.acl = q.acl
    BY <2>1, <2>2 DEF Lists, AclAgrees
  <2>3. CASE p.acl = acl[Node(q.target)]
    BY <2>1, <2>3 DEF Granted
  <2> QED
    BY <2>2, <2>3 DEF Follows
<1>3. UsesList(p) => ListAgrees(p)'
  <2> SUFFICES ASSUME UsesList(p),
                      NEW g \in Grants \ (unsettled \cup Wanted(q)), g[1] = Node(q.source)
               PROVE  <<g[2], g[3]>> \in p.list <=> Entered(g)'
    BY <1>1 DEF ListAgrees
  <2>1. Entered(g)' <=> Entered(g)
    BY <1>1, Keeps
  <2>2. Entered(g) <=> <<g[2], g[3]>> \in bound[q.source]
    BY EnteredAt DEF Request
  <2>3. <<g[2], g[3]>> \in Entries \ Wished(q)
    BY GrantAt
  <2> QED
    BY <2>1, <2>2, <2>3 DEF Follows
<1>4. p.alone => Own(p)'
  BY <1>1 DEF Lists, Follows
<1> QED
  BY <1>2, <1>3, <1>4 DEF Lists, UsesAcl, UsesList

LEMMA PrivateStep ==
  ASSUME BInv, NEW r \in Pending, NEW q \in Request, q = req[r], Outcome(r, q)
  PROVE  Private'
<1>1. /\ TypeOK /\ Private
      /\ \A x \in Pending' \ {r} : x \in Pending /\ req'[x] = req[x] /\ req[x] \in Request
      /\ unsettled \subseteq unsettled' \cup Wanted(q)
      /\ ~q.alone => unsettled \subseteq unsettled' /\ Wanted(q) \subseteq unsettled'
      /\ r \in Pending' => \E p \in Request : req'[r] = p /\ UNCHANGED historyVars /\ Follows(q, p)
  BY OutcomeFacts DEF BInv, TInv, TypeOK, Pending
<1>2. r \in Pending' => /\ req'[r].alone = q.alone /\ req'[r] \in Request
                        /\ Wanted(req'[r]) = Wanted(q) /\ NodesOf(req'[r]) = NodesOf(q)
  BY <1>1 DEF Follows, Wanted, NodesOf
<1>3. ASSUME NEW x \in Pending', ~req'[x].alone PROVE Wanted(req'[x]) \subseteq unsettled'
  <2>1. CASE x = r
    BY <1>1, <1>2, <1>3, <2>1
  <2>2. CASE x # r
    <3>1. x \in Pending /\ req'[x] = req[x] /\ req[x] \in Request
      BY <1>1, <2>2
    <3>2. Wanted(req[x]) \subseteq unsettled
      BY <1>1, <1>3, <3>1 DEF Private
    <3>3. q.alone => Wanted(req[x]) \cap Wanted(q) = {}
      <4> SUFFICES ASSUME NEW g \in Wanted(req[x]), g \in Wanted(q) PROVE ~q.alone
        OBVIOUS
      <4>1. Node(q.target) = Node(req[x].target)
        BY DEF Wanted
      <4>2. Meets(req[r], x)
        BY <4>1 DEF Meets, NodesOf
      <4> QED
        BY <1>1, <2>2, <3>1, <4>2 DEF Private
    <3> QED
      BY <1>1, <3>1, <3>2, <3>3
  <2> QED
    BY <2>1, <2>2
<1>4. ASSUME NEW x \in Pending', NEW y \in Pending', x # y, Meets(req[x], y)'
      PROVE  ~req'[x].alone /\ ~req'[y].alone
  <2>1. NodesOf(req'[x]) \cap NodesOf(req'[y]) # {}
    BY <1>4 DEF Meets
  <2>2. \A z \in Pending' : z \in Pending /\ req'[z].alone = req[z].alone /\ NodesOf(req'[z]) = NodesOf(req[z])
    BY <1>1, <1>2
  <2>3. Meets(req[x], y)
    BY <2>1, <2>2 DEF Meets
  <2> QED
    BY <1>1, <1>4, <2>2, <2>3 DEF Private
<1> QED
  BY <1>3, <1>4 DEF Private

LEMMA BothStep ==
  ASSUME OneListPerNode, BInv, NEW r \in Pending, NEW q \in Request, q = req[r], Act(r, q),
         UNCHANGED paired, NEW g \in Grants \ unsettled', BothPaired(g)
  PROVE  /\ Entered(g)' => Granted(g)'
         /\ ~UnderWay(g)' => (Granted(g)' <=> g \in asked') /\ (Entered(g)' <=> g \in asked')
<1>1. /\ TypeOK /\ Private /\ Lists(q) /\ AclEffect(q) /\ BoundEffect(q) /\ EntryGranted /\ AsAsked
      /\ \A x \in Pending \ {r} : x \in Pending' /\ req'[x] = req[x]
      /\ unsettled \subseteq unsettled' \cup Wanted(q)
      /\ ~q.alone => Wanted(q) \subseteq unsettled'
      /\ \A x \in Grants \ Wanted(q) : x \in asked' <=> x \in asked
      /\ r \in Pending' => \E p \in Request : /\ req'[r] = p /\ UNCHANGED historyVars /\ Follows(q, p)
      /\ r \notin Pending' => Wanted(q) \subseteq unsettled' \/ (Done(r, q) /\ (Own(q) => Result(q)'))
  BY OutcomeFacts DEF BInv, TInv, Act
<1>2. CASE g \notin Wanted(q)
  <2>1. g \notin unsettled /\ (g \in asked' <=> g \in asked)
    BY <1>1, <1>2
  <2>2. (Granted(g)' <=> Granted(g)) /\ (Entered(g)' <=> Entered(g))
    BY <1>1, <1>2, <2>1, Keeps
  <2>3. UnderWay(g) => UnderWay(g)'
    BY <1>1, <1>2 DEF UnderWay
  <2> QED
    BY <1>1, <2>1, <2>2, <2>3 DEF EntryGranted, AsAsked
<1>3. CASE g \in Wanted(q)
  <2>1. q.alone /\ Own(q) /\ Node(g[2]) = Node(q.target) /\ g[1] = Node(q.source)
        /\ <<g[2], g[3]>> \in Wished(q) /\ q.source \in Sources
        /\ Node(q.target) \in paired
    BY <1>1, <1>3, GrantAt DEF Lists, Request, BothPaired
  <2>2. (Entered(g) <=> <<g[2], g[3]>> \in bound[q.source]) /\ (Entered(g)' <=> <<g[2], g[3]>> \in bound'[q.source])
    BY <2>1, EnteredAt
  <2>3. CASE r \in Pending'
    <3>1. PICK p \in Request : req'[r] = p /\ UNCHANGED historyVars /\ Follows(q, p)
      BY <1>1, <2>3
    <3>2. UnderWay(g)'
      BY <1>3, <2>3, <3>1 DEF UnderWay, Follows, Wanted
    <3>3. g \notin unsettled /\ Covered(q)
      BY <2>1, <3>1 DEF historyVars, Follows
    <3>4. CASE UNCHANGED deviceVars
      <4>1. (Granted(g)' <=> Granted(g)) /\ (Entered(g)' <=> Entered(g))
        BY <2>2, <3>4 DEF Granted, deviceVars
      <4> QED
        BY <1>1, <3>2, <3>3, <4>1 DEF EntryGranted
    <3>5. CASE Wanted(q) \subseteq acl'[Node(q.target)]
      BY <1>3, <2>1, <3>2, <3>5 DEF Granted
    <3>6. CASE Wished(q) \cap bound'[q.source] = {}
      BY <2>1, <2>2, <3>2, <3>6
    <3> QED
      BY <2>1, <3>3, <3>4, <3>5, <3>6 DEF Covered
  <2>4. CASE r \notin Pending'
    <3>1. Done(r, q) /\ Result(q)'
      BY <1>1, <1>3, <2>1, <2>4
    <3>2. Node(q.target) \in paired'
      BY <2>1
    <3>3. CASE q.op = "bind"
      <4>1. Granted(g)' /\ Entered(g)'
        BY <1>3, <2>1, <2>2, <3>1, <3>2, <3>3 DEF Result, Granted
      <4> QED
        BY <1>3, <3>1, <3>3, <4>1 DEF Done
    <3>4. CASE q.op = "unbind"
      <4>1. ~Granted(g)' /\ ~Entered(g)'
        BY <1>3, <2>1, <2>2, <3>1, <3>4 DEF Result, Granted
      <4> QED
        BY <1>3, <3>1, <3>4, <4>1 DEF Done
    <3> QED
      BY <3>3, <3>4 DEF Request
  <2> QED
    BY <2>3, <2>4
<1> QED
  BY <1>2, <1>3

LEMMA RequestKeeps ==
  ASSUME OneListPerNode, BInv, NEW r \in Pending, RequestStep(r), TInv'
  PROVE  BInv'
<1>1. PICK q \in Request : q = req[r]
  BY DEF BInv, TInv, TypeOK, Pending
<1>2. Act(r, q) /\ UNCHANGED paired /\ Lists(q)
  BY <1>1, RequestActs DEF BInv
<1>3. Private'
  BY <1>1, <1>2, PrivateStep DEF Act
<1>4. \A x \in Pending' : Lists(req[x])'
  <2> SUFFICES ASSUME NEW x \in Pending' PROVE Lists(req[x])'
    OBVIOUS
  <2>1. CASE x = r
    <3>1. PICK p \in Request : req'[r] = p /\ UNCHANGED historyVars /\ Follows(q, p)
      BY <1>1, <1>2, <2>1, OutcomeFacts DEF BInv, TInv, Act
    <3>2. Lists(p)'
      BY <1>2, <3>1, GoesOn DEF Act, historyVars
    <3> QED
      BY <2>1, <3>1, <3>2 DEF Lists, UsesAcl, UsesList, AclAgrees, ListAgrees, Own
  <2>2. CASE x # r
    <3>1. x \in Pending \ {r} /\ req'[x] = req[x]
      BY <1>1, <1>2, <2>2, OutcomeFacts DEF BInv, TInv, Act
    <3>2. PICK o \in Request : o = req[x]
      BY <3>1 DEF BInv, TInv, TypeOK, Pending
    <3>3. Lists(o)'
      BY <1>1, <1>2, <3>1, <3>2, Others
    <3> QED
      BY <3>1, <3>2, <3>3 DEF Lists, UsesAcl, UsesList, AclAgrees, ListAgrees, Own
  <2> QED
    BY <2>1, <2>2
<1>5. EntryGranted' /\ AsAsked'
  <2>1. \A g \in Grants \ unsettled' : BothPaired(g)' => BothPaired(g)
    BY <1>2 DEF BothPaired
  <2> QED
    BY <1>1, <1>2, <2>1, BothStep DEF EntryGranted, AsAsked
<1> QED
  BY <1>3, <1>4, <1>5 DEF BInv

\* A request that arrives has read nothing and achieved nothing.
LEMMA ArriveKeeps ==
  ASSUME BInv, NEW r \in Reqs, NEW q \in Request, Fresh(q), Arrive(r, q), TInv'
  PROVE  BInv'
<1> DEFINE others == {x \in Pending : Meets(q, x)}
           n == [q EXCEPT !.alone = (others = {})]
<1>1. /\ r \notin Pending /\ Pending' = Pending \cup {r} /\ req'[r] = n
      /\ \A x \in Pending : /\ x # r /\ req[x] \in Request
                             /\ req'[x] = IF Meets(q, x) THEN [req[x] EXCEPT !.alone = FALSE] ELSE req[x]
  BY ArrivalCases DEF BInv
<1>2. /\ UNCHANGED <<paired, deviceVars, asked>>
      /\ unsettled' = IF others = {} THEN unsettled
                      ELSE unsettled \cup Wanted(q) \cup UNION {Wanted(req[x]) : x \in others}
  BY DEF Arrive
<1>3. /\ n.op = q.op /\ n.pc = q.pc /\ n.source = q.source /\ n.target = q.target
      /\ n.clusters = q.clusters /\ n.acl = q.acl /\ n.list = q.list /\ n.changed = q.changed
      /\ n.alone = (others = {})
  BY DEF Request
<1> HIDE DEF n
<1>4. Wanted(n) = Wanted(q) /\ NodesOf(n) = NodesOf(q)
  BY <1>3 DEF Wanted, NodesOf
<1>5. unsettled \subseteq unsettled'
  BY <1>2
<1>6. ASSUME NEW x \in Pending
      PROVE  /\ Wanted(req'[x]) = Wanted(req[x]) /\ NodesOf(req'[x]) = NodesOf(req[x])
             /\ req'[x].alone => req[x].alone /\ ~Meets(q, x)
             /\ ~req'[x].alone => ~req[x].alone \/ x \in others
             /\ x \in others => ~req'[x].alone
  <2> DEFINE o == [req[x] EXCEPT !.alone = FALSE]
  <2>1. /\ o.source = req[x].source /\ o.target = req[x].target /\ o.clusters = req[x].clusters
        /\ o.alone = FALSE
    BY <1>1 DEF Request
  <2>2. req'[x] = IF Meets(q, x) THEN o ELSE req[x]
    BY <1>1
  <2> HIDE DEF o
  <2> QED
    BY <2>1, <2>2 DEF Wanted, NodesOf
<1>7. Private'
  <2>1. ASSUME NEW x \in Pending', ~req'[x].alone PROVE Wanted(req'[x]) \subseteq unsettled'
    <3>1. CASE x = r
      BY <1>1, <1>2, <1>3, <1>4, <2>1, <3>1
    <3>2. CASE x \in Pending /\ ~req[x].alone
      BY <1>5, <1>6, <3>2 DEF BInv, Private
    <3>3. CASE x \in others
      BY <1>2, <1>6, <3>3
    <3> QED
      BY <1>1, <1>6, <2>1, <3>1, <3>2, <3>3
  <2>2. ASSUME NEW x \in Pending', NEW y \in Pending', x # y, NodesOf(req'[x]) \cap NodesOf(req'[y]) # {}
        PROVE  ~req'[x].alone
    <3>1. CASE x = r
      <4>1. y \in Pending /\ Meets(q, y)
        BY <1>1, <1>4, <1>6, <2>2, <3>1 DEF Meets
      <4> QED
        BY <1>1, <1>3, <3>1, <4>1
    <3>2. CASE y = r /\ x \in Pending
      <4>1. Meets(q, x)
        BY <1>1, <1>4, <1>6, <2>2, <3>2 DEF Meets
      <4> QED
        BY <1>6, <3>2, <4>1
    <3>3. CASE x \in Pending /\ y \in Pending
      <4>1. Meets(req[x], y)
        BY <1>6, <2>2, <3>3 DEF Meets
      <4> QED
        BY <1>6, <2>2, <3>3, <4>1 DEF BInv, Private
    <3> QED
      BY <1>1, <2>2, <3>1, <3>2, <3>3
  <2>3. \A x, y \in Pending' : Meets(req[x], y)' => NodesOf(req'[x]) \cap NodesOf(req'[y]) # {}
                                                 /\ NodesOf(req'[y]) \cap NodesOf(req'[x]) # {}
    BY DEF Meets
  <2> QED
    BY <2>1, <2>2, <2>3 DEF Private
<1>8. ASSUME NEW x \in Pending' PROVE Lists(req[x])'
  <2>1. CASE x = r
    BY <1>1, <1>3, <2>1 DEF Fresh, Lists, UsesAcl, UsesList, Own
  <2>2. CASE x # r
    <3>1. x \in Pending /\ Lists(req[x])
      BY <1>1, <2>2 DEF BInv
    <3>2. PICK o \in Request : o = req[x]
      BY <1>1, <3>1
    <3> DEFINE m == [o EXCEPT !.alone = FALSE]
    <3>3. PICK p \in Request : p = req'[x]
      <4>1. m \in Request
        BY DEF Request
      <4> QED
        BY <1>1, <3>1, <3>2, <4>1
    <3>4. /\ p.op = o.op /\ p.pc = o.pc /\ p.source = o.source /\ p.target = o.target
          /\ p.clusters = o.clusters /\ p.acl = o.acl /\ p.list = o.list /\ p.changed = o.changed
          /\ p.alone => o.alone
      <4>1. p = o \/ p = m
        BY <1>1, <3>1, <3>2, <3>3
      <4> QED
        BY <4>1 DEF Request
    <3>5. Wanted(p) = Wanted(o) /\ Wished(p) = Wished(o) /\ Lists(o)
      BY <3>1, <3>2, <3>4 DEF Wanted, Wished
    <3>6. UsesAcl(p) => AclAgrees(p)'
      BY <1>2, <1>5, <3>4, <3>5 DEF Lists, UsesAcl, AclAgrees, Granted, deviceVars
    <3>7. UsesList(p) => ListAgrees(p)'
      BY <1>2, <1>5, <3>4, <3>5 DEF Lists, UsesList, ListAgrees, Entered, deviceVars
    <3>8. p.alone => Own(p)'
      BY <1>2, <3>4, <3>5 DEF Lists, Own, deviceVars
    <3> QED
      BY <3>3, <3>6, <3>7, <3>8 DEF Lists, UsesAcl, UsesList, AclAgrees, ListAgrees, Own
  <2> QED
    BY <2>1, <2>2
<1>9. EntryGranted' /\ AsAsked'
  <2>1. \A g : UnderWay(g) => UnderWay(g)'
    BY <1>1, <1>6 DEF UnderWay
  <2>2. \A g : (Granted(g)' <=> Granted(g)) /\ (Entered(g)' <=> Entered(g)) /\ (BothPaired(g)' <=> BothPaired(g))
    BY <1>2 DEF Granted, Entered, BothPaired, deviceVars
  <2> QED
    BY <1>2, <1>5, <2>1, <2>2 DEF BInv, EntryGranted, AsAsked
<1> QED
  BY <1>7, <1>8, <1>9 DEF BInv

LEMMA CrashKeeps == ASSUME BInv, Crash, TInv' PROVE BInv'
<1>1. Pending' = {}
  BY DEF Crash, Pending
<1>2. /\ unsettled' = unsettled \cup UNION {Wanted(req[r]) : r \in Pending}
      /\ UNCHANGED <<paired, deviceVars, asked>>
  BY DEF Crash
<1>3. \A g \in Grants \ unsettled' : g \notin unsettled /\ ~UnderWay(g)
  BY <1>2 DEF UnderWay
<1>4. \A g : (Granted(g)' <=> Granted(g)) /\ (Entered(g)' <=> Entered(g)) /\ (BothPaired(g)' <=> BothPaired(g))
  BY <1>2 DEF Granted, Entered, BothPaired, deviceVars
<1> QED
  BY <1>1, <1>2, <1>3, <1>4 DEF BInv, Private, EntryGranted, AsAsked

\* What a device forgets when it is removed is no longer asked for.
LEMMA DeviceKeeps ==
  ASSUME BInv, NEW n \in Nodes, GoOffline(n) \/ ComeOnline(n) \/ Unpair(n), TInv'
  PROVE  BInv'
<1>1. UNCHANGED <<req, asked, unsettled>> /\ Pending' = Pending /\ paired' \subseteq paired
  BY DEF GoOffline, ComeOnline, Unpair, historyVars, Pending
<1>2. CASE UNCHANGED <<paired, deviceVars>>
  BY <1>1, <1>2 DEF BInv, Private, Meets, Lists, UsesAcl, UsesList, AclAgrees, ListAgrees, Own,
     EntryGranted, AsAsked, Granted, Entered, UnderWay, BothPaired, deviceVars
<1>3. CASE Unpair(n)
  <2>1. n \notin paired'
    BY <1>3 DEF Unpair
  <2>2. \/ UNCHANGED deviceVars
        \/ /\ acl' = [m \in TargetNodes |-> IF m = n THEN {} ELSE acl[m]]
           /\ bound' = [s \in Sources |-> IF Node(s) = n THEN {} ELSE bound[s]]
    BY <1>3 DEF Unpair
  <2>3. \A m \in TargetNodes : acl'[m] = acl[m] \/ (m = n /\ acl'[m] = {})
    BY <2>2 DEF deviceVars
  <2>4. \A s \in Sources : bound'[s] = bound[s] \/ (Node(s) = n /\ bound'[s] = {})
    BY <2>2 DEF deviceVars
  <2>5. ASSUME NEW g \in Grants
        PROVE  /\ Node(g[2]) \in paired' => (Granted(g)' <=> Granted(g))
               /\ g[1] \in paired' => (Entered(g)' <=> Entered(g))
    <3>1. Node(g[2]) \in TargetNodes
      BY GrantAt
    <3> QED
      BY <2>1, <2>3, <2>4, <3>1 DEF Granted, Entered
  <2>6. ASSUME NEW g \in Grants, BothPaired(g)'
        PROVE  BothPaired(g) /\ (Granted(g)' <=> Granted(g)) /\ (Entered(g)' <=> Entered(g))
    BY <1>1, <2>5, <2>6 DEF BothPaired
  <2>7. Private'
    BY <1>1 DEF BInv, Private, Meets
  <2>8. ASSUME NEW x \in Pending PROVE Lists(req[x])'
    <3>1. PICK q \in Request : q = req[x]
      BY DEF BInv, TInv, TypeOK, Pending
    <3>2. Lists(q) /\ req'[x] = q
      BY <1>1, <3>1 DEF BInv
    <3>3. UsesAcl(q) => AclAgrees(q)'
      <4> SUFFICES ASSUME UsesAcl(q), Node(q.target) \in paired',
                          NEW g \in Grants \ (unsettled \cup Wanted(q)), Node(g[2]) = Node(q.target)
                   PROVE  g \in q.acl <=> Granted(g)'
        BY <1>1 DEF AclAgrees
      <4>1. Granted(g)' <=> Granted(g)
        BY <2>5
      <4> QED
        BY <1>1, <3>2, <4>1 DEF Lists, AclAgrees
    <3>4. UsesList(q) => ListAgrees(q)'
      <4> SUFFICES ASSUME UsesList(q), Node(q.source) \in paired',
                          NEW g \in Grants \ (unsettled \cup Wanted(q)), g[1] = Node(q.source)
                   PROVE  <<g[2], g[3]>> \in q.list <=> Entered(g)'
        BY <1>1 DEF ListAgrees
      <4>1. Entered(g)' <=> Entered(g)
        BY <2>5
      <4> QED
        BY <1>1, <3>2, <4>1 DEF Lists, ListAgrees
    <3>5. q.alone => Own(q)'
      <4>1. /\ \/ acl'[Node(q.target)] = acl[Node(q.target)]
               \/ Node(q.target) = n /\ acl'[Node(q.target)] = {}
            /\ (bound'[q.source] = bound[q.source] \/ bound'[q.source] = {})
        BY <2>3, <2>4, WantedType DEF Request
      <4>2. Node(q.target) \in paired' => acl'[Node(q.target)] = acl[Node(q.target)]
        BY <2>1, <4>1
      <4> QED
        BY <1>1, <3>2, <4>1, <4>2 DEF Lists, Own
    <3> QED
      BY <3>2, <3>3, <3>4, <3>5 DEF Lists, UsesAcl, UsesList, AclAgrees, ListAgrees, Own
  <2>9. \A g : UnderWay(g)' <=> UnderWay(g)
    BY <1>1 DEF UnderWay
  <2>10. EntryGranted' /\ AsAsked'
    BY <1>1, <2>6, <2>9 DEF BInv, EntryGranted, AsAsked
  <2> QED
    BY <1>1, <2>7, <2>8, <2>10 DEF BInv
<1> QED
  BY <1>2, <1>3 DEF GoOffline, ComeOnline

LEMMA BInit == Init => BInv
<1> SUFFICES ASSUME Init PROVE BInv
  OBVIOUS
<1>1. Pending = {} /\ asked = {}
  BY DEF Init, Pending
<1>2. \A g \in Grants : ~Granted(g) /\ ~Entered(g)
  BY GrantAt DEF Init, Granted, Entered
<1> QED
  BY <1>1, <1>2, TInit DEF BInv, Private, EntryGranted, AsAsked

LEMMA BStep == ASSUME OneListPerNode, BInv, [Next]_vars PROVE BInv'
<1>0. TInv'
  BY TypeStep DEF BInv
<1>1. ASSUME NEW r \in Reqs, NEW s \in Sources, NEW t \in Targets, NEW cs \in SUBSET Clusters,
             Bind(r, s, t, cs) \/ Unbind(r, s, t, cs)
      PROVE  BInv'
  BY <1>0, <1>1, Arrivals, ArriveKeeps
<1>2. ASSUME NEW r \in Reqs, RequestStep(r) PROVE BInv'
  BY <1>0, <1>2, RequestKeeps DEF RequestStep
<1>3. CASE UNCHANGED vars
  BY <1>0, <1>3 DEF vars, deviceVars, historyVars, BInv, Private, Pending, Meets, Lists, UsesAcl, UsesList,
     AclAgrees, ListAgrees, Own, EntryGranted, AsAsked, Granted, Entered, UnderWay, BothPaired
<1> QED
  BY <1>0, <1>1, <1>2, <1>3, DeviceKeeps, CrashKeeps DEF Next

\* An entry in a source's Binding list is granted by its target at every moment,
\* whatever devices and requests there are and whatever fails between two calls, but
\* for bindings whose last request had trouble (addBinding and removeBinding of
\* matter/controller.js).  It takes that no node has two Binding lists: the grant of
\* one would be revoked while the other still needs it.
THEOREM AlwaysGranted ==
  ASSUME OneListPerNode
  PROVE  Spec => []EntryGranted
<1>1. BInv => EntryGranted
  BY DEF BInv
<1>2. BInv /\ [Next]_vars => BInv'
  BY BStep
<1> QED
  BY <1>1, <1>2, BInit, PTL DEF Spec

\* A request that was answered with a success, and ran alone on its devices, has
\* left both lists as it was asked to, and they stay so until the next request for
\* that binding, whatever happens to others (addBinding and removeBinding of
\* matter/controller.js), where no node has two Binding lists.
THEOREM BothHalves ==
  ASSUME OneListPerNode
  PROVE  Spec => []AsAsked
<1>1. BInv => AsAsked
  BY DEF BInv
<1>2. BInv /\ [Next]_vars => BInv'
  BY BStep
<1> QED
  BY <1>1, <1>2, BInit, PTL DEF Spec
=============================================================================
