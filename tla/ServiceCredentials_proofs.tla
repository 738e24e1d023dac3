---------------------- MODULE ServiceCredentials_proofs ----------------------
(***************************************************************************)
(* Proofs about ServiceCredentials, for any instances, names and bounds:   *)
(* the state is well typed, a client's password changes only by a request  *)
(* that may change it, and what an env file says and what the broker knows *)
(* agree whenever no request has left the identity half done.              *)
(***************************************************************************)
EXTENDS ServiceCredentials, TLAPS

Creating == {"createRole", "addACL", "createClient", "setPassword", "addClientRole"}

\* An env file names the instance's own identity or none, and its user goes with it.
EnvOK(u, e) ==
  /\ e \in Env
  /\ IF e.marker = None THEN e.user \notin Ident
     ELSE e.marker = IdentOf[u] /\ e.user = IdentOf[u] /\ ~e.she

\* The form of a request, by its place in the code.
Shape(r) ==
  /\ r \in Request /\ EnvOK(r.unit, r.env)
  /\ r.pc = "uninstall" => r.kind = "uninstall"
  /\ r.kind = "uninstall" => r.pc \in {"read", "uninstall", "deleteClient", "deleteRole"}
  /\ r.pc \in {"deleteClient", "deleteRole"} =>
       r.env.marker = IdentFor(r) /\ (r.kind = "uninstall" \/ r.mode # "dynsec")
  /\ r.mode = "stored" => r.pc = "read" /\ r.kind = "put"
  /\ r.pc \in Creating =>
       r.mode = "dynsec" /\ r.pass # NoPass /\ ~r.env.she /\ (r.rotate \/ r.env.marker = None)
  /\ r.pc \in {"read", "createRole"} => ~r.changed
  /\ r.pc = "apply" /\ r.mode = "dynsec" => ~r.changed
  /\ r.pc \in {"apply", "uninstall"} /\ r.changed => ~r.clean
  /\ r.pc = "deleteClient" => (r.kind = "uninstall" => r.changed) /\ (r.changed /\ r.clean => r.kind = "uninstall")
  /\ r.pc \in {"deleteRole", "addACL", "createClient", "setPassword", "addClientRole"} => r.changed

TInv ==
  /\ TypeOK
  /\ \A q \in Active : Shape(req[q])
  /\ \A u \in Unit : env[u] # Absent => EnvOK(u, env[u])

\* No identity in the env file of an instance.
NoMark(u) == env[u] = Absent \/ env[u].marker = None

\* While nothing was changed, an identity a request's env file names is in the file
\* that is there, and one that is uninstalled without an identity has none.
Fits(r) ==
  /\ (r.pc = "read" /\ r.kind = "put") \/ r.pc \in {"apply", "write"} =>
       (r.env.marker # None => env[r.unit] = r.env)
  /\ r.pc = "uninstall" => (r.env.marker = None => NoMark(r.unit))

\* What a clean request has achieved by the time it has changed something.
Achieved(r) ==
  LET i == IdentFor(r) IN
  /\ r.kind = "uninstall" /\ r.pc \in {"deleteClient", "deleteRole"} => env[r.unit] = Absent
  /\ r.pc = "deleteRole" => client[i] = NoPass
  /\ r.pc \in {"createClient", "setPassword", "addClientRole"} => role[i] = "granted"
  /\ r.pc = "addClientRole" => client[i] = r.pass
  /\ r.pc = "write" /\ r.env.marker = None => client[i] = NoPass /\ role[i] = None
  /\ r.pc = "write" /\ r.env.marker # None =>
       /\ client[i] = r.env.pass /\ client[i] # NoPass
       /\ role[i] = "granted" /\ i \in assigned

-----------------------------------------------------------------------------
(* What a step of a request may do *)

\* It touches its own instance's file and its own identity.
Frame(r) ==
  /\ \A v \in Unit \ {r.unit} : env'[v] = env[v]
  /\ \A j \in Ident \ {IdentFor(r)} :
       client'[j] = client[j] /\ role'[j] = role[j] /\ (j \in assigned' <=> j \in assigned)

\* The request goes on or ends as s.  As long as it counts as having changed nothing
\* it has not touched an identity; when it is clean and ends, the identity is right.
Calmly(r) ==
  /\ ~r.changed /\ UNCHANGED brokerVars
  /\ Fits(r) => env' = env \/ (NoMark(r.unit) /\ NoMark(r.unit)')

Rightly(r) ==
  LET i == IdentFor(r) IN
  \/ NoMark(r.unit)' /\ (i \in dropped' \/ (client'[i] = NoPass /\ role'[i] = None))
  \/ /\ env'[r.unit] # Absent /\ env'[r.unit].marker # None /\ env'[r.unit].pass = client'[i]
     /\ client'[i] # NoPass /\ role'[i] = "granted" /\ i \in assigned'

\* Only the request's own identity is forgotten, or remembered again.
Drops(r, s) ==
  /\ \A j \in Ident \ {IdentFor(r)} : j \in dropped' <=> j \in dropped
  /\ dropped' \subseteq dropped \cup {IdentFor(r)}
  /\ ~s.changed => dropped' = dropped

Outcome(q, r) ==
  \E s \in Request :
    /\ s.unit = r.unit /\ (s.clean => r.clean)
    /\ ~s.changed => Calmly(r)
    /\ \/ /\ Goto(q, s) /\ Shape(s) /\ UNCHANGED history
          /\ ~s.changed /\ Fits(r) => Fits(s)'
          /\ s.changed /\ s.clean /\ (r.changed => Achieved(r)) => Achieved(s)'
       \/ /\ EndTrouble(q, s) /\ Drops(r, s)
          /\ s.changed /\ s.clean /\ (r.changed => Achieved(r)) => Rightly(r)

Typed ==
  /\ env' \in [Unit -> Env \cup {Absent}]
  /\ \A u \in Unit : env'[u] # Absent => EnvOK(u, env'[u])
  /\ client' \in [Ident -> 0..MaxPass]
  /\ role' \in [Ident -> {None, "bare", "granted"}]
  /\ assigned' \subseteq {i \in Ident : client'[i] # NoPass /\ role'[i] # None}
  /\ made' \in 0..MaxPass

Act(q, r) == Frame(r) /\ Outcome(q, r) /\ Typed

-----------------------------------------------------------------------------
(* Lemmas *)

LEMMA BlankOK == \A u \in Unit : EnvOK(u, Blank)
  BY CredentialsAssumption DEF Blank, EnvOK, Env, NoPass

\* The identity of a request is its instance's.
LEMMA IdentType == ASSUME NEW r \in Request PROVE IdentFor(r) \in Ident /\ r.unit \in Unit /\ IdentFor(r) # None
  BY CredentialsAssumption DEF IdentFor, Request

\* A step that leaves files and broker alone.
LEMMA Quiet ==
  ASSUME TInv, NEW r \in Request, UNCHANGED <<env, client, role, assigned>>, made' \in 0..MaxPass
  PROVE  Frame(r) /\ Typed /\ (~r.changed => Calmly(r))
  BY DEF TInv, TypeOK, Frame, Typed, Calmly, brokerVars

\* A request that ends.
LEMMA Ends ==
  ASSUME NEW q, NEW r \in Request, NEW s \in Request, s.unit = r.unit, s.clean => r.clean, End(q, s),
         ~s.changed => Calmly(r),
         s.changed /\ s.clean /\ (r.changed => Achieved(r)) => Rightly(r)
  PROVE  Outcome(q, r)
<1>1. EndTrouble(q, s) /\ Drops(r, s)
  BY DEF End, Drops, IdentFor
<1> QED
  BY <1>1 DEF Outcome

\* A request that fails is not clean.
LEMMA Fails ==
  ASSUME NEW q, NEW r \in Request, NEW s \in Request, s.unit = r.unit, Fail(q, s), ~s.changed => Calmly(r)
  PROVE  Outcome(q, r)
<1> DEFINE n == [s EXCEPT !.clean = FALSE]
<1>1. n \in Request /\ n.unit = r.unit /\ n.clean = FALSE /\ n.changed = s.changed /\ End(q, n)
  BY DEF Request, Fail
<1> HIDE DEF n
<1> QED
  BY <1>1, Ends

\* One role, one client, one file is changed.
LEMMA RoleFrame ==
  ASSUME TInv, NEW r \in Request, NEW v \in {None, "bare", "granted"},
         role' = [role EXCEPT ![IdentFor(r)] = v], UNCHANGED <<env, client, made>>,
         assigned' \subseteq assigned, assigned \subseteq assigned' \cup {IdentFor(r)},
         v = None => IdentFor(r) \notin assigned'
  PROVE  Frame(r) /\ Typed /\ role'[IdentFor(r)] = v
  BY IdentType DEF TInv, TypeOK, Frame, Typed

LEMMA ClientFrame ==
  ASSUME TInv, NEW r \in Request, NEW v \in 0..MaxPass,
         client' = [client EXCEPT ![IdentFor(r)] = v], UNCHANGED <<env, role, made>>,
         assigned' \subseteq assigned, assigned \subseteq assigned' \cup {IdentFor(r)},
         v = NoPass => IdentFor(r) \notin assigned'
  PROVE  Frame(r) /\ Typed /\ client'[IdentFor(r)] = v
  BY IdentType DEF TInv, TypeOK, Frame, Typed

LEMMA FileFrame ==
  ASSUME TInv, NEW r \in Request, NEW e \in Env \cup {Absent}, e # Absent => EnvOK(r.unit, e),
         env' = [env EXCEPT ![r.unit] = e], UNCHANGED <<brokerVars, made>>
  PROVE  Frame(r) /\ Typed /\ env'[r.unit] = e
<1>1. r.unit \in Unit /\ env \in [Unit -> Env \cup {Absent}]
  BY IdentType DEF TInv, TypeOK
<1>2. \A u \in Unit : env'[u] = IF u = r.unit THEN e ELSE env[u]
  BY <1>1
<1>3. env' \in [Unit -> Env \cup {Absent}]
  BY <1>1
<1> QED
  BY <1>1, <1>2, <1>3 DEF TInv, TypeOK, Frame, Typed, brokerVars

-----------------------------------------------------------------------------
(* The steps *)

LEMMA ReadActs ==
  ASSUME TInv, NEW q, NEW r, Shape(r), Read(q, r)
  PROVE  Act(q, r)
<1>1. /\ r \in Request /\ r.pc = "read" /\ r.kind \in {"put", "file"} /\ ~r.changed
      /\ UNCHANGED <<env, brokerVars, made>> /\ r.unit \in Unit
  BY IdentType DEF Read, Shape
<1>2. Frame(r) /\ Typed /\ Calmly(r)
  BY <1>1, Quiet DEF TInv, TypeOK, brokerVars
<1>3. CASE Fail(q, r)
  BY <1>1, <1>2, <1>3, Fails DEF Act
<1>4. CASE ~Fail(q, r)
  <2>1. PICK c \in Env : c = env[r.unit] /\ EnvOK(r.unit, c)
    BY <1>1, <1>4 DEF Read, TInv, TypeOK
  <2>2. UNCHANGED history /\ env[r.unit] = c /\ env'[r.unit] = c /\ c # Absent
    BY <1>1, <1>4, <2>1, CredentialsAssumption DEF Read
  <2>3. CASE r.kind = "file"
    <3> DEFINE s == [r EXCEPT !.pc = "write", !.env = c]
    <3>1. Goto(q, s)
      BY <1>4, <2>1, <2>3 DEF Read
    <3>2. /\ s \in Request /\ s.unit = r.unit /\ s.pc = "write" /\ s.env = c /\ s.kind = r.kind
          /\ s.mode = r.mode /\ s.changed = r.changed /\ s.clean = r.clean
      BY <1>1 DEF Request
    <3> HIDE DEF s
    <3>3. Shape(s)
      BY <1>1, <2>1, <2>3, <3>2 DEF Shape, Creating
    <3>4. Fits(s)'
      BY <2>2, <3>2 DEF Fits, NoMark
    <3> QED
      BY <1>1, <1>2, <2>2, <3>1, <3>2, <3>3, <3>4 DEF Act, Outcome
  <2>4. CASE r.kind = "put"
    <3>1. PICK mode \in Mode : mode = IF r.mode = "stored" THEN ModeOf(c) ELSE r.mode
      BY <1>1 DEF ModeOf, Mode, Request
    <3>2. PICK b \in Env : b = Merge(c, r.env)
      BY <1>1, CredentialsAssumption DEF Merge, Env, Request, NoPass
    <3> DEFINE s == [r EXCEPT !.pc = "apply", !.mode = mode, !.env = b]
    <3>3. Goto(q, s)
      BY <1>4, <2>1, <2>4, <3>1, <3>2 DEF Read
    <3>4. /\ s \in Request /\ s.unit = r.unit /\ s.pc = "apply" /\ s.env = b /\ s.kind = r.kind
          /\ s.mode = mode /\ s.changed = r.changed /\ s.clean = r.clean
      BY <1>1 DEF Request
    <3> HIDE DEF s
    <3>5. b.marker = r.env.marker /\ b.user = r.env.user /\ b.she = r.env.she
          /\ (c = r.env => b = c)
      BY <1>1, <3>2 DEF Merge, Request, Env
    <3>6. Shape(s)
      BY <1>1, <2>4, <3>1, <3>4, <3>5 DEF Shape, Creating, EnvOK, Mode
    <3>7. Fits(r) => Fits(s)'
      BY <1>1, <2>2, <2>4, <3>1, <3>4, <3>5 DEF Fits, NoMark
    <3> QED
      BY <1>1, <1>2, <2>2, <3>3, <3>4, <3>6, <3>7 DEF Act, Outcome
  <2> QED
    BY <1>1, <2>3, <2>4
<1> QED
  BY <1>3, <1>4

LEMMA ReadForUninstallActs ==
  ASSUME TInv, NEW q, NEW r, Shape(r), ReadForUninstall(q, r)
  PROVE  Act(q, r)
<1>1. /\ r \in Request /\ r.pc = "read" /\ r.kind = "uninstall" /\ ~r.changed
      /\ UNCHANGED <<env, brokerVars, made, history>> /\ r.unit \in Unit
  BY IdentType DEF ReadForUninstall, Shape
<1>2. Frame(r) /\ Typed /\ Calmly(r)
  BY <1>1, Quiet DEF TInv, TypeOK, brokerVars
<1>3. PICK c \in Env : /\ c = IF env[r.unit] = Absent THEN Blank ELSE env[r.unit]
                       /\ EnvOK(r.unit, c)
  BY <1>1, BlankOK DEF TInv, TypeOK, EnvOK
<1>4. c.marker = None => NoMark(r.unit)'
  BY <1>1, <1>3 DEF NoMark
<1>5. CASE Goto(q, [r EXCEPT !.pc = "uninstall", !.env = c])
  <2> DEFINE s == [r EXCEPT !.pc = "uninstall", !.env = c]
  <2>1. /\ s \in Request /\ s.unit = r.unit /\ s.pc = "uninstall" /\ s.env = c /\ s.kind = r.kind
        /\ s.mode = r.mode /\ s.changed = r.changed /\ s.clean = r.clean /\ Goto(q, s)
    BY <1>1, <1>5 DEF Request
  <2> HIDE DEF s
  <2>2. Shape(s) /\ Fits(s)'
    BY <1>1, <1>3, <1>4, <2>1 DEF Shape, Creating, Fits
  <2> QED
    BY <1>1, <1>2, <2>1, <2>2 DEF Act, Outcome
<1>6. CASE Goto(q, [r EXCEPT !.pc = "uninstall", !.env = Blank, !.clean = FALSE, !.changed = TRUE])
  <2> DEFINE s == [r EXCEPT !.pc = "uninstall", !.env = Blank, !.clean = FALSE, !.changed = TRUE]
  <2>1. /\ s \in Request /\ s.unit = r.unit /\ s.pc = "uninstall" /\ s.env = Blank /\ s.kind = r.kind
        /\ s.mode = r.mode /\ s.changed = TRUE /\ s.clean = FALSE /\ Goto(q, s)
    BY <1>1, <1>6, BlankOK DEF Request, EnvOK
  <2> HIDE DEF s
  <2>2. Shape(s)
    BY <1>1, <2>1, BlankOK DEF Shape, Creating
  <2> QED
    BY <1>1, <1>2, <2>1, <2>2 DEF Act, Outcome
<1> QED
  BY <1>3, <1>5, <1>6 DEF ReadForUninstall

LEMMA UninstallActs ==
  ASSUME TInv, NEW q, NEW r, Shape(r), Uninstall(q, r)
  PROVE  Act(q, r)
<1>1. /\ r \in Request /\ r.pc = "uninstall" /\ r.kind = "uninstall" /\ r.unit \in Unit
      /\ UNCHANGED <<brokerVars, made>>
  BY IdentType DEF Uninstall, Shape
<1>2. env' = env \/ env' = [env EXCEPT ![r.unit] = Absent]
  BY DEF Uninstall
<1>3. Frame(r) /\ Typed
  BY <1>1, <1>2, Quiet, FileFrame DEF TInv, TypeOK, brokerVars
<1>4. env' = [env EXCEPT ![r.unit] = Absent] => env'[r.unit] = Absent
  BY <1>1 DEF TInv, TypeOK
<1>5. CASE Fail(q, [r EXCEPT !.changed = TRUE])
  <2> DEFINE s == [r EXCEPT !.changed = TRUE]
  <2>1. s \in Request /\ s.unit = r.unit /\ s.changed /\ Fail(q, s)
    BY <1>1, <1>5 DEF Request
  <2> HIDE DEF s
  <2> QED
    BY <1>1, <1>3, <2>1, Fails DEF Act
<1>6. CASE env' = [env EXCEPT ![r.unit] = Absent] /\ r.env.marker = None /\ End(q, r)
  <2>1. ~r.changed => Calmly(r)
    BY <1>1, <1>4, <1>6 DEF Calmly, Fits, NoMark
  <2>2. r.changed => ~r.clean
    BY <1>1 DEF Shape
  <2> QED
    BY <1>1, <1>3, <1>6, <2>1, <2>2, Ends DEF Act
<1>7. CASE /\ env' = [env EXCEPT ![r.unit] = Absent] /\ r.env.marker # None
           /\ Goto(q, [r EXCEPT !.pc = "deleteClient", !.changed = TRUE]) /\ UNCHANGED history
  <2> DEFINE s == [r EXCEPT !.pc = "deleteClient", !.changed = TRUE]
  <2>1. /\ s \in Request /\ s.unit = r.unit /\ s.pc = "deleteClient" /\ s.env = r.env /\ s.kind = r.kind
        /\ s.mode = r.mode /\ s.changed = TRUE /\ s.clean = r.clean /\ Goto(q, s)
    BY <1>1, <1>7 DEF Request
  <2> HIDE DEF s
  <2>2. Shape(s)
    BY <1>1, <1>7, <2>1 DEF Shape, Creating, EnvOK, IdentFor
  <2>3. Achieved(s)'
    BY <1>4, <1>7, <2>1 DEF Achieved
  <2> QED
    BY <1>1, <1>3, <1>7, <2>1, <2>2, <2>3 DEF Act, Outcome
<1> QED
  BY <1>5, <1>6, <1>7 DEF Uninstall

\* The rest of applyBrokerMode: it is ready to write, or makes an identity.
LEMMA Continues ==
  ASSUME TInv, NEW q, NEW r \in Request, r.mode \in Mode, NEW e, EnvOK(r.unit, e),
         r.mode = "dynsec" \/ e.marker = None, Continue(q, r, e)
  PROVE  /\ UNCHANGED history /\ made' \in 0..MaxPass
         /\ \E s \in Request :
              /\ Goto(q, s) /\ s.unit = r.unit /\ s.kind = r.kind /\ s.mode = r.mode /\ s.rotate = r.rotate
              /\ s.changed = r.changed /\ s.clean = r.clean /\ EnvOK(r.unit, s.env) /\ s.env.marker = e.marker
              /\ \/ /\ s.pc = "write" /\ (e.marker = None => r.mode # "dynsec")
                    /\ e.marker # None => s.env = e
                 \/ /\ s.pc = "createRole" /\ r.mode = "dynsec" /\ s.pass # NoPass /\ ~s.env.she
                    /\ (r.rotate \/ e.marker = None)
<1>0. e \in Env /\ made \in 0..MaxPass /\ MaxPass \in Nat
  BY CredentialsAssumption DEF TInv, TypeOK, EnvOK
<1>1. PICK o \in Env : o = [e EXCEPT !.she = FALSE]
  BY <1>0 DEF Env
<1>2. o.marker = e.marker /\ o.user = e.user /\ o.she = FALSE /\ EnvOK(r.unit, o) /\ (e.marker # None => o = e)
  BY <1>0, <1>1 DEF EnvOK, Env
<1>3. NoPass \in 0..MaxPass
  BY CredentialsAssumption DEF NoPass
<1>4. PICK w \in Env : w = [e EXCEPT !.she = TRUE, !.user = "she", !.pass = NoPass]
  BY <1>0, <1>3 DEF Env
<1>5. w.marker = e.marker /\ (e.marker = None => EnvOK(r.unit, w))
  BY <1>0, <1>4, CredentialsAssumption DEF EnvOK, Env
<1>6. CASE /\ Goto(q, [r EXCEPT !.pc = "write", !.env = o])
           /\ (r.mode = "own" \/ (r.mode = "dynsec" /\ ModeOf(e) = "dynsec"))
           /\ UNCHANGED <<history, made>>
  <2> DEFINE s == [r EXCEPT !.pc = "write", !.env = o]
  <2>1. /\ s \in Request /\ s.unit = r.unit /\ s.pc = "write" /\ s.env = o /\ s.kind = r.kind
        /\ s.mode = r.mode /\ s.changed = r.changed /\ s.clean = r.clean /\ s.rotate = r.rotate /\ Goto(q, s)
    BY <1>6 DEF Request
  <2> HIDE DEF s
  <2>2. e.marker = None => r.mode # "dynsec"
    BY <1>6 DEF ModeOf
  <2> QED
    BY <1>0, <1>2, <1>6, <2>1, <2>2
<1>7. CASE Goto(q, [r EXCEPT !.pc = "write", !.env = w]) /\ r.mode = "she" /\ UNCHANGED <<history, made>>
  <2> DEFINE s == [r EXCEPT !.pc = "write", !.env = w]
  <2>1. /\ s \in Request /\ s.unit = r.unit /\ s.pc = "write" /\ s.env = w /\ s.kind = r.kind
        /\ s.mode = r.mode /\ s.changed = r.changed /\ s.clean = r.clean /\ s.rotate = r.rotate /\ Goto(q, s)
    BY <1>7 DEF Request
  <2> HIDE DEF s
  <2> QED
    BY <1>0, <1>5, <1>7, <2>1
<1>8. CASE /\ Goto(q, [r EXCEPT !.pc = "createRole", !.pass = made + 1, !.env = o]) /\ r.mode = "dynsec"
           /\ (r.rotate \/ ModeOf(e) # "dynsec")
           /\ made < MaxPass /\ made' = made + 1 /\ UNCHANGED history
  <2>1. PICK n \in 0..MaxPass : n = made + 1 /\ n # NoPass /\ made' = n
    BY <1>0, <1>8 DEF NoPass
  <2> DEFINE s == [r EXCEPT !.pc = "createRole", !.pass = n, !.env = o]
  <2>2. /\ s \in Request /\ s.unit = r.unit /\ s.pc = "createRole" /\ s.env = o /\ s.kind = r.kind /\ s.pass = n
        /\ s.mode = r.mode /\ s.changed = r.changed /\ s.clean = r.clean /\ s.rotate = r.rotate /\ Goto(q, s)
    BY <1>8, <2>1 DEF Request
  <2> HIDE DEF s
  <2>3. r.rotate \/ e.marker = None
    BY <1>8 DEF ModeOf
  <2> QED
    BY <1>2, <1>8, <2>1, <2>2, <2>3
<1>9. CASE r.mode = "own"
  BY <1>1, <1>6, <1>9 DEF Continue
<1>10. CASE r.mode = "she"
  BY <1>4, <1>7, <1>10 DEF Continue
<1>11. CASE r.mode = "dynsec" /\ ModeOf(e) = "dynsec" /\ ~r.rotate
  BY <1>1, <1>6, <1>11 DEF Continue
<1>12. CASE r.mode = "dynsec" /\ ~(ModeOf(e) = "dynsec" /\ ~r.rotate)
  BY <1>1, <1>8, <1>12 DEF Continue, Request
<1> QED
  BY <1>9, <1>10, <1>11, <1>12 DEF Mode

LEMMA ApplyActs ==
  ASSUME TInv, NEW q, NEW r, Shape(r), Apply(q, r)
  PROVE  Act(q, r)
<1>1. /\ r \in Request /\ r.pc = "apply" /\ r.kind # "uninstall" /\ r.mode \in Mode /\ EnvOK(r.unit, r.env)
      /\ UNCHANGED <<env, brokerVars>> /\ r.unit \in Unit
  BY IdentType DEF Apply, Shape, Request
<1>2. made' \in 0..MaxPass => Frame(r) /\ Typed /\ (~r.changed => Calmly(r))
  BY <1>1, Quiet DEF brokerVars
<1>3. made \in 0..MaxPass
  BY DEF TInv, TypeOK
<1>4. CASE Fail(q, r) /\ UNCHANGED made
  BY <1>1, <1>2, <1>3, <1>4, Fails DEF Act
<1>5. CASE /\ r.mode # "dynsec" /\ r.env.marker # None
           /\ Goto(q, [r EXCEPT !.pc = "deleteClient"]) /\ UNCHANGED <<history, made>>
  <2> DEFINE s == [r EXCEPT !.pc = "deleteClient"]
  <2>1. /\ s \in Request /\ s.unit = r.unit /\ s.pc = "deleteClient" /\ s.env = r.env /\ s.kind = r.kind
        /\ s.mode = r.mode /\ s.changed = r.changed /\ s.clean = r.clean /\ Goto(q, s)
    BY <1>1, <1>5 DEF Request
  <2> HIDE DEF s
  <2>2. Shape(s)
    BY <1>1, <1>5, <2>1 DEF Shape, Creating, EnvOK, IdentFor, Mode
  <2>3. Fits(s)' /\ ~(s.changed /\ s.clean)
    BY <1>1, <2>1 DEF Fits, Shape
  <2> QED
    BY <1>1, <1>2, <1>3, <1>5, <2>1, <2>2, <2>3 DEF Act, Outcome
<1>6. CASE (r.mode = "dynsec" \/ r.env.marker = None) /\ Continue(q, r, r.env)
  <2> DEFINE e == r.env
  <2>1. /\ UNCHANGED history /\ made' \in 0..MaxPass
        /\ \E s \in Request :
              /\ Goto(q, s) /\ s.unit = r.unit /\ s.kind = r.kind /\ s.mode = r.mode /\ s.rotate = r.rotate
              /\ s.changed = r.changed /\ s.clean = r.clean /\ EnvOK(r.unit, s.env) /\ s.env.marker = e.marker
              /\ \/ /\ s.pc = "write" /\ (e.marker = None => r.mode # "dynsec")
                    /\ e.marker # None => s.env = e
                 \/ /\ s.pc = "createRole" /\ r.mode = "dynsec" /\ s.pass # NoPass /\ ~s.env.she
                    /\ (r.rotate \/ e.marker = None)
    BY <1>1, <1>6, Continues
  <2>2. PICK s \in Request :
              /\ Goto(q, s) /\ s.unit = r.unit /\ s.kind = r.kind /\ s.mode = r.mode /\ s.rotate = r.rotate
              /\ s.changed = r.changed /\ s.clean = r.clean /\ EnvOK(r.unit, s.env) /\ s.env.marker = e.marker
              /\ \/ /\ s.pc = "write" /\ (e.marker = None => r.mode # "dynsec")
                    /\ e.marker # None => s.env = e
                 \/ /\ s.pc = "createRole" /\ r.mode = "dynsec" /\ s.pass # NoPass /\ ~s.env.she
                    /\ (r.rotate \/ e.marker = None)
    BY <2>1
  <2>3. Shape(s)
    BY <1>1, <2>2 DEF Shape, Creating, Mode
  <2>4. ~s.changed /\ Fits(r) => Fits(s)'
    BY <1>1, <2>2 DEF Fits, NoMark
  <2>5. ~(s.changed /\ s.clean)
    BY <1>1, <2>2 DEF Shape
  <2> QED
    BY <1>1, <1>2, <2>1, <2>2, <2>3, <2>4, <2>5 DEF Act, Outcome
<1> QED
  BY <1>4, <1>5, <1>6 DEF Apply, ModeOf

LEMMA DeleteClientActs ==
  ASSUME TInv, NEW q, NEW r, Shape(r), DeleteClient(q, r)
  PROVE  Act(q, r)
<1>1. /\ r \in Request /\ r.pc = "deleteClient" /\ r.env.marker = IdentFor(r) /\ EnvOK(r.unit, r.env)
      /\ r.kind = "uninstall" \/ r.mode # "dynsec"
      /\ UNCHANGED <<env, role, history, made>>
  BY DEF DeleteClient, Shape
<1>2. made \in 0..MaxPass /\ NoPass \in 0..MaxPass
  BY CredentialsAssumption DEF TInv, TypeOK, NoPass
<1> DEFINE s(c) == [r EXCEPT !.pc = "deleteRole", !.changed = TRUE, !.clean = c]
<1>3. ASSUME NEW c \in BOOLEAN
      PROVE  /\ s(c) \in Request /\ s(c).unit = r.unit /\ s(c).pc = "deleteRole" /\ s(c).env = r.env
             /\ s(c).kind = r.kind /\ s(c).mode = r.mode /\ s(c).changed = TRUE /\ s(c).clean = c
  BY <1>1 DEF Request
<1>4. [r EXCEPT !.pc = "deleteRole", !.changed = TRUE] = s(r.clean) /\ r.clean \in BOOLEAN
  BY <1>1 DEF Request
<1>5. [r EXCEPT !.pc = "deleteRole", !.changed = TRUE, !.clean = FALSE] = s(FALSE)
  OBVIOUS
<1> HIDE DEF s
<1>6. ASSUME NEW c \in BOOLEAN PROVE Shape(s(c))
  BY <1>1, <1>3 DEF Shape, Creating, IdentFor
<1>7. CASE /\ client' = [client EXCEPT ![IdentFor(r)] = NoPass] /\ assigned' = assigned \ {IdentFor(r)}
           /\ Goto(q, s(r.clean))
  <2>1. Frame(r) /\ Typed /\ client'[IdentFor(r)] = NoPass
    BY <1>1, <1>2, <1>7, ClientFrame
  <2>2. (r.changed => Achieved(r)) => Achieved(s(r.clean))'
    <3> SUFFICES ASSUME r.changed => Achieved(r) PROVE Achieved(s(r.clean))'
      OBVIOUS
    <3>1. r.kind = "uninstall" => env'[r.unit] = Absent
      BY <1>1 DEF Shape, Achieved
    <3>2. PICK t \in Request : t = s(r.clean) /\ t.unit = r.unit /\ t.pc = "deleteRole" /\ t.kind = r.kind
      BY <1>3, <1>4
    <3>3. Achieved(t)'
      BY <2>1, <3>1, <3>2 DEF Achieved, IdentFor
    <3> QED
      BY <3>2, <3>3
  <2> QED
    BY <1>1, <1>3, <1>4, <1>6, <1>7, <2>1, <2>2 DEF Act, Outcome
<1>8. CASE UNCHANGED <<client, assigned>> /\ Goto(q, s(FALSE))
  <2>1. Frame(r) /\ Typed
    BY <1>1, <1>2, <1>8, Quiet
  <2> QED
    BY <1>1, <1>3, <1>6, <1>8, <2>1 DEF Act, Outcome
<1> QED
  BY <1>1, <1>4, <1>5, <1>7, <1>8 DEF DeleteClient

\* The role went, or its deletion failed; then the request goes on with a stripped env.
LEMMA DeleteRoleActs ==
  ASSUME TInv, NEW q, NEW r, Shape(r), DeleteRole(q, r)
  PROVE  Act(q, r)
<1>1. /\ r \in Request /\ r.pc = "deleteRole" /\ r.env.marker = IdentFor(r) /\ EnvOK(r.unit, r.env)
      /\ r.mode \in Mode /\ (r.kind # "uninstall" => r.mode # "dynsec") /\ r.changed
      /\ UNCHANGED <<env, client>> /\ r.clean \in BOOLEAN
  BY DEF DeleteRole, Shape, Request
<1>2. PICK e : e = [r.env EXCEPT !.marker = None, !.user = None, !.pass = NoPass]
  OBVIOUS
<1>3. EnvOK(r.unit, e) /\ e.marker = None /\ made \in 0..MaxPass
  <2>1. NoPass \in 0..MaxPass /\ None \notin Ident /\ made \in 0..MaxPass
    BY CredentialsAssumption DEF NoPass, TInv, TypeOK
  <2>2. r.env \in Env
    BY <1>1 DEF EnvOK
  <2>3. e \in Env /\ e.marker = None /\ e.user = None
    BY <1>2, <2>1, <2>2 DEF Env
  <2> QED
    BY <2>1, <2>3 DEF EnvOK
<1>4. \/ role' = [role EXCEPT ![IdentFor(r)] = None] /\ assigned' = assigned \ {IdentFor(r)}
      \/ UNCHANGED <<role, assigned>>
  BY <1>1 DEF DeleteRole
<1>5. PICK t \in Request :
        /\ t \in {r, [r EXCEPT !.clean = FALSE]} /\ t.unit = r.unit /\ t.kind = r.kind /\ t.mode = r.mode
        /\ t.changed = TRUE /\ (t.clean => r.clean /\ role' = [role EXCEPT ![IdentFor(r)] = None])
        /\ \/ r.kind = "uninstall" /\ End(q, t) /\ UNCHANGED made
           \/ r.kind # "uninstall" /\ Continue(q, t, e)
           \/ Fail(q, t) /\ UNCHANGED made
  <2> DEFINE f == [r EXCEPT !.clean = FALSE]
  <2>1. f \in Request /\ f.unit = r.unit /\ f.kind = r.kind /\ f.mode = r.mode /\ f.changed = TRUE /\ ~f.clean
    BY <1>1 DEF Request
  <2>2. \/ /\ role' = [role EXCEPT ![IdentFor(r)] = None]
           /\ IF r.kind = "uninstall" THEN End(q, r) /\ UNCHANGED made ELSE Continue(q, r, e)
        \/ IF f.kind = "uninstall" THEN End(q, f) /\ UNCHANGED made ELSE Continue(q, f, e)
        \/ Fail(q, r) /\ UNCHANGED made /\ role' = [role EXCEPT ![IdentFor(r)] = None]
    BY <1>1, <1>2 DEF DeleteRole
  <2> HIDE DEF f
  <2>3. f \in {r, [r EXCEPT !.clean = FALSE]}
    BY DEF f
  <2>4. CASE /\ role' = [role EXCEPT ![IdentFor(r)] = None]
             /\ IF r.kind = "uninstall" THEN End(q, r) /\ UNCHANGED made ELSE Continue(q, r, e)
    BY <1>1, <2>4
  <2>5. CASE IF f.kind = "uninstall" THEN End(q, f) /\ UNCHANGED made ELSE Continue(q, f, e)
    BY <2>1, <2>3, <2>5
  <2>6. CASE Fail(q, r) /\ UNCHANGED made /\ role' = [role EXCEPT ![IdentFor(r)] = None]
    BY <1>1, <2>6
  <2> QED
    BY <2>2, <2>4, <2>5, <2>6
<1>6. made' \in 0..MaxPass => Frame(r) /\ Typed
  <2> SUFFICES ASSUME made' \in 0..MaxPass PROVE Frame(r) /\ Typed
    OBVIOUS
  <2>1. CASE role' = [role EXCEPT ![IdentFor(r)] = None] /\ assigned' = assigned \ {IdentFor(r)}
    BY <1>1, <2>1, IdentType DEF TInv, TypeOK, Frame, Typed
  <2>2. CASE UNCHANGED <<role, assigned>>
    BY <1>1, <2>2, Quiet
  <2> QED
    BY <1>4, <2>1, <2>2
<1>7. t.clean => role'[IdentFor(r)] = None
  BY <1>1, <1>5, IdentType DEF TInv, TypeOK
<1>8. CASE r.kind = "uninstall" /\ End(q, t) /\ UNCHANGED made
  <2>1. (r.changed => Achieved(r)) /\ t.clean => Rightly(r)
    BY <1>1, <1>7, <1>8 DEF Achieved, Rightly, NoMark
  <2> QED
    BY <1>1, <1>3, <1>5, <1>6, <1>8, <2>1, Ends DEF Act
<1>9. CASE Fail(q, t) /\ UNCHANGED made
  BY <1>1, <1>3, <1>5, <1>6, <1>9, Fails DEF Act
<1>10. CASE r.kind # "uninstall" /\ Continue(q, t, e)
  <2>1. /\ UNCHANGED history /\ made' \in 0..MaxPass
        /\ \E s \in Request :
              /\ Goto(q, s) /\ s.unit = t.unit /\ s.kind = t.kind /\ s.mode = t.mode /\ s.rotate = t.rotate
              /\ s.changed = t.changed /\ s.clean = t.clean /\ EnvOK(t.unit, s.env) /\ s.env.marker = e.marker
              /\ \/ /\ s.pc = "write" /\ (e.marker = None => t.mode # "dynsec")
                    /\ e.marker # None => s.env = e
                 \/ /\ s.pc = "createRole" /\ t.mode = "dynsec" /\ s.pass # NoPass /\ ~s.env.she
                    /\ (t.rotate \/ e.marker = None)
    BY <1>1, <1>3, <1>5, <1>10, Continues
  <2>2. PICK s \in Request :
              /\ Goto(q, s) /\ s.unit = r.unit /\ s.kind = r.kind /\ s.mode = r.mode
              /\ s.changed = TRUE /\ s.clean = t.clean /\ EnvOK(r.unit, s.env) /\ s.env.marker = None
              /\ s.pc = "write"
    BY <1>1, <1>3, <1>5, <1>10, <2>1
  <2>3. Shape(s)
    BY <1>1, <1>10, <2>2 DEF Shape, Creating, Mode
  <2>4. Achieved(r) /\ s.clean => Achieved(s)'
    BY <1>1, <1>5, <1>7, <2>2 DEF Achieved, IdentFor
  <2> QED
    BY <1>1, <1>5, <1>6, <2>1, <2>2, <2>3, <2>4 DEF Act, Outcome
<1> QED
  BY <1>5, <1>8, <1>9, <1>10

LEMMA CreateRoleActs ==
  ASSUME TInv, NEW q, NEW r, Shape(r), CreateRole(q, r)
  PROVE  Act(q, r)
<1>1. /\ r \in Request /\ r.pc = "createRole" /\ ~r.changed /\ r.mode = "dynsec" /\ r.unit \in Unit
      /\ UNCHANGED <<env, client, assigned, made>> /\ IdentFor(r) \in Ident
  BY IdentType DEF CreateRole, Shape, Creating
<1>2. PICK v \in {None, "bare", "granted"} : v = IF role[IdentFor(r)] = None THEN "bare" ELSE role[IdentFor(r)]
  BY <1>1 DEF TInv, TypeOK
<1>3. role' = role \/ role' = [role EXCEPT ![IdentFor(r)] = v]
  BY <1>2 DEF CreateRole
<1>4. v = None => IdentFor(r) \notin assigned
  BY <1>1, <1>2 DEF TInv, TypeOK
<1>5. Frame(r) /\ Typed
  BY <1>1, <1>3, <1>4, Quiet, RoleFrame DEF TInv, TypeOK
<1>6. CASE Goto(q, [r EXCEPT !.pc = "addACL", !.changed = TRUE]) /\ UNCHANGED history
  <2> DEFINE s == [r EXCEPT !.pc = "addACL", !.changed = TRUE]
  <2>1. /\ s \in Request /\ s.unit = r.unit /\ s.pc = "addACL" /\ s.env = r.env /\ s.kind = r.kind /\ s.pass = r.pass
        /\ s.mode = r.mode /\ s.rotate = r.rotate /\ s.changed = TRUE /\ s.clean = r.clean /\ Goto(q, s)
    BY <1>1, <1>6 DEF Request
  <2> HIDE DEF s
  <2>2. Shape(s)
    BY <1>1, <2>1 DEF Shape, Creating
  <2>3. Achieved(s)'
    BY <2>1 DEF Achieved
  <2> QED
    BY <1>1, <1>5, <1>6, <2>1, <2>2, <2>3 DEF Act, Outcome
<1>7. CASE Fail(q, [r EXCEPT !.changed = (role' # role)])
  <2>1. PICK c \in BOOLEAN : c = (role' # role)
    OBVIOUS
  <2> DEFINE s == [r EXCEPT !.changed = c]
  <2>2. s \in Request /\ s.unit = r.unit /\ s.changed = c /\ Fail(q, s)
    BY <1>1, <1>7, <2>1 DEF Request
  <2> HIDE DEF s
  <2>3. ~c => Calmly(r)
    BY <1>1, <2>1 DEF Calmly, brokerVars
  <2> QED
    BY <1>1, <1>5, <2>2, <2>3, Fails DEF Act
<1> QED
  BY <1>6, <1>7 DEF CreateRole

LEMMA AddACLActs ==
  ASSUME TInv, NEW q, NEW r, Shape(r), AddACL(q, r)
  PROVE  Act(q, r)
<1>1. /\ r \in Request /\ r.pc = "addACL" /\ r.changed /\ r.mode = "dynsec" /\ r.unit \in Unit
      /\ UNCHANGED <<env, client, assigned, made>> /\ IdentFor(r) \in Ident /\ made \in 0..MaxPass
  BY IdentType DEF AddACL, Shape, Creating, TInv, TypeOK
<1>2. CASE UNCHANGED role /\ Fail(q, r)
  BY <1>1, <1>2, Quiet, Fails DEF Act
<1>3. CASE /\ role' = [role EXCEPT ![IdentFor(r)] = "granted"]
           /\ Goto(q, [r EXCEPT !.pc = "createClient"]) /\ UNCHANGED history
  <2> DEFINE s == [r EXCEPT !.pc = "createClient"]
  <2>1. /\ s \in Request /\ s.unit = r.unit /\ s.pc = "createClient" /\ s.env = r.env /\ s.kind = r.kind /\ s.pass = r.pass
        /\ s.mode = r.mode /\ s.rotate = r.rotate /\ s.changed = r.changed /\ s.clean = r.clean /\ Goto(q, s)
    BY <1>1, <1>3 DEF Request
  <2> HIDE DEF s
  <2>2. Shape(s)
    BY <1>1, <2>1 DEF Shape, Creating
  <2>3. role'[IdentFor(r)] = "granted" /\ Frame(r) /\ Typed
    <3>1. "granted" # None
      BY CredentialsAssumption
    <3> QED
      BY <1>1, <1>3, <3>1, RoleFrame
  <2>4. Achieved(s)'
    BY <2>1, <2>3 DEF Achieved, IdentFor
  <2> QED
    BY <1>1, <1>3, <2>1, <2>2, <2>3, <2>4 DEF Act, Outcome
<1> QED
  BY <1>2, <1>3 DEF AddACL

\* The client gets the new password, by either command.
LEMMA PasswordActs ==
  ASSUME TInv, NEW q, NEW r, Shape(r), CreateClient(q, r) \/ SetPassword(q, r)
  PROVE  Act(q, r)
<1>1. /\ r \in Request /\ r.pc \in {"createClient", "setPassword"} /\ r.changed /\ r.mode = "dynsec" /\ r.unit \in Unit
      /\ UNCHANGED <<env, role, assigned, made>> /\ IdentFor(r) \in Ident /\ made \in 0..MaxPass
      /\ r.pass \in 0..MaxPass /\ r.pass # NoPass
  BY IdentType DEF CreateClient, SetPassword, Shape, Creating, TInv, TypeOK, Request
<1>2. client' = client \/ client' = [client EXCEPT ![IdentFor(r)] = r.pass]
  BY DEF CreateClient, SetPassword
<1>3. /\ Frame(r) /\ Typed
      /\ client' = [client EXCEPT ![IdentFor(r)] = r.pass] => client'[IdentFor(r)] = r.pass
  BY <1>1, <1>2, Quiet, ClientFrame
<1>4. CASE Fail(q, r)
  BY <1>1, <1>3, <1>4, Fails DEF Act
<1>5. CASE /\ client' = [client EXCEPT ![IdentFor(r)] = r.pass]
           /\ Goto(q, [r EXCEPT !.pc = "addClientRole"]) /\ UNCHANGED history
  <2> DEFINE s == [r EXCEPT !.pc = "addClientRole"]
  <2>1. /\ s \in Request /\ s.unit = r.unit /\ s.pc = "addClientRole" /\ s.env = r.env /\ s.kind = r.kind /\ s.pass = r.pass
        /\ s.mode = r.mode /\ s.rotate = r.rotate /\ s.changed = r.changed /\ s.clean = r.clean /\ Goto(q, s)
    BY <1>1, <1>5 DEF Request
  <2> HIDE DEF s
  <2>2. Shape(s)
    BY <1>1, <2>1 DEF Shape, Creating
  <2>3. Achieved(r) => Achieved(s)'
    BY <1>1, <1>3, <1>5, <2>1 DEF Achieved, IdentFor
  <2> QED
    BY <1>1, <1>3, <1>5, <2>1, <2>2, <2>3 DEF Act, Outcome
<1>6. CASE r.pc = "createClient" /\ client' = client /\ Goto(q, [r EXCEPT !.pc = "setPassword"]) /\ UNCHANGED history
  <2> DEFINE s == [r EXCEPT !.pc = "setPassword"]
  <2>1. /\ s \in Request /\ s.unit = r.unit /\ s.pc = "setPassword" /\ s.env = r.env /\ s.kind = r.kind /\ s.pass = r.pass
        /\ s.mode = r.mode /\ s.rotate = r.rotate /\ s.changed = r.changed /\ s.clean = r.clean /\ Goto(q, s)
    BY <1>1, <1>6 DEF Request
  <2> HIDE DEF s
  <2>2. Shape(s)
    BY <1>1, <2>1 DEF Shape, Creating
  <2>3. Achieved(r) => Achieved(s)'
    BY <1>1, <1>6, <2>1 DEF Achieved, IdentFor
  <2> QED
    BY <1>1, <1>3, <1>6, <2>1, <2>2, <2>3 DEF Act, Outcome
<1> QED
  BY <1>4, <1>5, <1>6 DEF CreateClient, SetPassword

LEMMA AddClientRoleActs ==
  ASSUME TInv, NEW q, NEW r, Shape(r), AddClientRole(q, r)
  PROVE  Act(q, r)
<1>1. /\ r \in Request /\ r.pc = "addClientRole" /\ r.changed /\ r.mode = "dynsec" /\ r.unit \in Unit
      /\ UNCHANGED <<env, client, role, made>> /\ IdentFor(r) \in Ident /\ made \in 0..MaxPass
      /\ EnvOK(r.unit, r.env) /\ r.pass \in 0..MaxPass /\ r.pass # NoPass /\ ~r.env.she /\ IdentFor(r) # None
      /\ IdentFor(r) = IdentOf[r.unit]
  BY IdentType DEF AddClientRole, Shape, Creating, TInv, TypeOK, Request, IdentFor
<1>2. \/ assigned' = assigned
      \/ /\ assigned' = assigned \cup {IdentFor(r)} /\ client[IdentFor(r)] # NoPass /\ role[IdentFor(r)] # None
  BY DEF AddClientRole
<1>3. Frame(r) /\ Typed
  BY <1>1, <1>2 DEF TInv, TypeOK, Frame, Typed
<1>4. CASE Fail(q, r)
  BY <1>1, <1>3, <1>4, Fails DEF Act
<1>5. CASE ~Fail(q, r)
  <2>1. PICK e \in Env : /\ e = [r.env EXCEPT !.marker = IdentFor(r), !.user = IdentFor(r), !.pass = r.pass]
                         /\ e.marker = IdentFor(r) /\ e.user = IdentFor(r) /\ e.pass = r.pass /\ ~e.she
    <3> DEFINE e == [r.env EXCEPT !.marker = IdentFor(r), !.user = IdentFor(r), !.pass = r.pass]
    <3>1. r.env \in Env
      BY <1>1 DEF EnvOK
    <3>2. e.marker = IdentFor(r) /\ e.user = IdentFor(r) /\ e.pass = r.pass /\ e.she = r.env.she
      BY <3>1 DEF Env
    <3>3. e \in Env
      BY <1>1, <3>1 DEF Env
    <3> HIDE DEF e
    <3> QED
      BY <1>1, <3>2, <3>3 DEF e
  <2>2. /\ assigned' = assigned \cup {IdentFor(r)} /\ client[IdentFor(r)] # NoPass /\ role[IdentFor(r)] # None
        /\ Goto(q, [r EXCEPT !.pc = "write", !.env = e]) /\ UNCHANGED history
    BY <1>5, <2>1 DEF AddClientRole
  <2> DEFINE s == [r EXCEPT !.pc = "write", !.env = e]
  <2>3. /\ s \in Request /\ s.unit = r.unit /\ s.pc = "write" /\ s.env = e /\ s.kind = r.kind
        /\ s.mode = r.mode /\ s.changed = r.changed /\ s.clean = r.clean /\ Goto(q, s)
    BY <1>1, <2>2 DEF Request
  <2> HIDE DEF s
  <2>4. EnvOK(r.unit, e)
    BY <1>1, <2>1 DEF EnvOK
  <2>5. Shape(s)
    BY <1>1, <2>3, <2>4 DEF Shape, Creating
  <2>6. Achieved(r) => Achieved(s)'
    BY <1>1, <2>1, <2>2, <2>3 DEF Achieved, IdentFor
  <2> QED
    BY <1>1, <1>3, <2>2, <2>3, <2>5, <2>6 DEF Act, Outcome
<1> QED
  BY <1>4, <1>5

LEMMA WriteActs ==
  ASSUME TInv, NEW q, NEW r, Shape(r), Write(q, r)
  PROVE  Act(q, r)
<1>1. /\ r \in Request /\ r.pc = "write" /\ r.unit \in Unit /\ UNCHANGED <<brokerVars, made>>
      /\ EnvOK(r.unit, r.env) /\ made \in 0..MaxPass /\ r.env \in Env /\ r.env # Absent
  BY IdentType, CredentialsAssumption DEF Write, Shape, TInv, TypeOK, EnvOK
<1>2. env' = env \/ env' = [env EXCEPT ![r.unit] = r.env]
  BY DEF Write
<1>3. /\ Frame(r) /\ Typed
      /\ env' = [env EXCEPT ![r.unit] = r.env] => env'[r.unit] = r.env
  BY <1>1, <1>2, Quiet, FileFrame DEF brokerVars
<1>4. env[r.unit] = r.env /\ env' = [env EXCEPT ![r.unit] = r.env] => env' = env
  BY <1>1 DEF TInv, TypeOK
<1> DEFINE forgets == ~r.changed /\ env[r.unit] # Absent /\ env[r.unit].marker # None /\ r.env.marker = None
           s == [r EXCEPT !.changed = TRUE]
<1>5. env' = env \/ ~forgets => (~r.changed => Calmly(r))
  BY <1>1, <1>2, <1>3, <1>4 DEF Calmly, Fits, NoMark
<1>6. s \in Request /\ s.unit = r.unit /\ s.changed /\ s.clean = r.clean /\ IdentFor(s) = IdentFor(r)
  BY <1>1 DEF Request, IdentFor
<1> HIDE DEF s
<1>7. CASE Fail(q, r) /\ (env' = env \/ ~forgets)
  BY <1>1, <1>3, <1>5, <1>7, Fails DEF Act
<1>8. CASE Fail(q, s)
  BY <1>1, <1>3, <1>6, <1>8, Fails DEF Act
<1>9. CASE env' = [env EXCEPT ![r.unit] = r.env] /\ ~forgets /\ End(q, r)
  <2>1. r.changed /\ Achieved(r) => Rightly(r)
    BY <1>1, <1>3, <1>9 DEF Achieved, Rightly, NoMark, brokerVars
  <2> QED
    BY <1>1, <1>3, <1>5, <1>9, <2>1, Ends DEF Act
<1>10. CASE /\ env' = [env EXCEPT ![r.unit] = r.env] /\ forgets
            /\ EndTrouble(q, s) /\ dropped' = dropped \cup {IdentFor(r)}
  <2>1. Rightly(r)
    BY <1>1, <1>3, <1>10 DEF Rightly, NoMark
  <2>2. Drops(r, s)
    BY <1>6, <1>10 DEF Drops
  <2> QED
    BY <1>1, <1>3, <1>6, <1>10, <2>1, <2>2 DEF Act, Outcome
<1> QED
  BY <1>7, <1>8, <1>9, <1>10 DEF Write, s

\* Whatever the step.
LEMMA StepActs ==
  ASSUME TInv, NEW q, NEW r, Shape(r), Step(q, r)
  PROVE  Act(q, r)
  BY ReadActs, ReadForUninstallActs, UninstallActs, ApplyActs, DeleteClientActs, DeleteRoleActs,
     CreateRoleActs, AddACLActs, PasswordActs, AddClientRoleActs, WriteActs DEF Step

-----------------------------------------------------------------------------
(* Types, and when a password may change *)

\* Losing `clean` changes nothing else.
LEMMA Unclean ==
  ASSUME NEW r \in Request
  PROVE  LET s == [r EXCEPT !.clean = FALSE] IN
         /\ s \in Request /\ ~s.clean
         /\ s.unit = r.unit /\ s.changed = r.changed
         /\ Shape(r) => Shape(s)
         /\ Fits(r) => Fits(s)
<1> DEFINE s == [r EXCEPT !.clean = FALSE]
<1>1. /\ s \in Request /\ ~s.clean /\ s.pc = r.pc /\ s.unit = r.unit /\ s.kind = r.kind /\ s.mode = r.mode
      /\ s.rotate = r.rotate /\ s.env = r.env /\ s.pass = r.pass /\ s.changed = r.changed
  BY DEF Request
<1> HIDE DEF s
<1>2. Shape(r) => Shape(s)
  BY <1>1 DEF Shape, IdentFor
<1>3. Fits(r) => Fits(s)
  BY <1>1 DEF Fits
<1> QED
  BY <1>1, <1>2, <1>3 DEF s

\* The request that arrives, and what it does to the others.
Joins(q, u) ==
  \E n \in Request :
    /\ Shape(n) /\ n.unit = u /\ ~n.changed /\ Fits(n)
    /\ n.clean => /\ On(IdentOf[u]) = {}
                  /\ \A v \in Unit \ {u} : env[v] # Absent => env[v].marker # IdentOf[u]
    /\ req' = [p \in Reqs |-> IF p = q THEN n
                              ELSE IF p \in On(IdentOf[u]) THEN [req[p] EXCEPT !.clean = FALSE] ELSE req[p]]

LEMMA Arrives ==
  ASSUME TInv, NEW q \in Reqs, NEW u \in Unit, NEW kind \in {"put", "install", "uninstall", "file"},
         NEW mode \in Mode \cup {"stored"}, NEW rotate \in BOOLEAN, NEW body,
         Arrive(q, u, kind, mode, rotate, body)
  PROVE  UNCHANGED <<env, client, role, assigned, trouble, dropped, made>> /\ req[q] = Idle /\ Joins(q, u)
<1>1. /\ (env[u] = Absent) = (kind = "install")
      /\ kind # "put" => mode \in Mode
      /\ body \in IF kind = "put" THEN {env[u], Blank} ELSE {Blank}
      /\ UNCHANGED <<env, client, role, assigned, trouble, dropped, made>> /\ req[q] = Idle
  BY DEF Arrive, Bodies, brokerVars, history
<1>2. EnvOK(u, body) /\ body \in Env
  BY <1>1, BlankOK DEF TInv, EnvOK
<1>3. PICK c \in BOOLEAN : c = (On(IdentOf[u]) = {} /\ ~(\E v \in Unit \ {u} : env[v] # Absent /\ env[v].marker = IdentOf[u]))
  OBVIOUS
<1>4. PICK t \in BOOLEAN : t = (rotate \/ kind = "install")
  OBVIOUS
<1>5. PICK pc \in {"apply", "read"} : pc = IF kind = "install" THEN "apply" ELSE "read"
  OBVIOUS
<1> DEFINE n == [pc |-> pc, unit |-> u, kind |-> kind, mode |-> mode, rotate |-> t,
                 env |-> body, pass |-> NoPass, changed |-> FALSE, clean |-> c]
<1>6. req' = [p \in Reqs |-> IF p = q THEN n
                             ELSE IF p \in On(IdentOf[u]) THEN [req[p] EXCEPT !.clean = FALSE] ELSE req[p]]
  BY <1>3, <1>4, <1>5 DEF Arrive
<1>7. /\ n.pc = pc /\ n.unit = u /\ n.kind = kind /\ n.mode = mode /\ n.env = body /\ n.changed = FALSE /\ n.clean = c
      /\ n \in Request
  BY <1>2, CredentialsAssumption DEF Request, NoPass
<1> HIDE DEF n
<1>8. Shape(n)
  BY <1>1, <1>2, <1>5, <1>7 DEF Shape, Creating, Mode
<1>9. Fits(n)
  BY <1>1, <1>5, <1>7 DEF Fits, NoMark, Blank
<1> QED
  BY <1>1, <1>3, <1>6, <1>7, <1>8, <1>9 DEF Joins

\* A new request comes in one of three ways.
LEMMA ArriveCases ==
  ASSUME TInv, Next, ~Crash, \A q \in Active : ~Step(q, req[q])
  PROVE  \E q \in Reqs, u \in Unit, kind \in {"put", "install", "uninstall", "file"},
            mode \in Mode \cup {"stored"}, rotate \in BOOLEAN :
           \E body \in Env : Arrive(q, u, kind, mode, rotate, body)
<1>1. Blank \in Env /\ "own" \in Mode \cup {"stored"}
  BY CredentialsAssumption DEF Blank, Env, NoPass, Mode
<1>2. PICK q \in Reqs, u \in Unit, rotate \in BOOLEAN :
        \/ \E mode \in Mode \cup {"stored"} : \E body \in IF env[u] = Absent THEN {Blank} ELSE Bodies(env[u]) :
             Arrive(q, u, "put", mode, rotate, body)
        \/ \E mode \in Mode : Arrive(q, u, "install", mode, rotate, Blank)
        \/ \E kind \in {"uninstall", "file"} : Arrive(q, u, kind, "own", rotate, Blank)
  BY DEF Next
<1>3. ASSUME NEW body, body \in IF env[u] = Absent THEN {Blank} ELSE Bodies(env[u])
      PROVE  body \in Env
  BY <1>1, <1>3 DEF Bodies, TInv, EnvOK
<1> QED
  BY <1>1, <1>2, <1>3

LEMMA TInit == Init => TInv
<1> SUFFICES ASSUME Init PROVE TInv
  OBVIOUS
<1>1. Active = {}
  BY DEF Init, Active
<1>2. TypeOK
  BY CredentialsAssumption DEF Init, TypeOK, NoPass
<1> QED
  BY <1>1, <1>2 DEF TInv, Init

LEMMA TStep == TInv /\ [Next]_vars => TInv'
<1> SUFFICES ASSUME TInv, [Next]_vars PROVE TInv'
  OBVIOUS
<1>1. CASE UNCHANGED vars
  BY <1>1 DEF vars, brokerVars, TInv, TypeOK, Active
<1>2. CASE Crash
  <2>1. /\ UNCHANGED <<env, client, role, assigned, dropped, made>>
        /\ req' = [p \in Reqs |-> Idle] /\ trouble' = trouble \cup {IdentFor(req[p]) : p \in {o \in Active : req[o].changed}}
    BY <1>2 DEF Crash, brokerVars
  <2>2. \A p \in Active : IdentFor(req[p]) \in Ident
    BY IdentType DEF TInv, Shape
  <2>3. Active' = {} /\ trouble' \subseteq Ident
    BY <2>1, <2>2 DEF Active, TInv, TypeOK
  <2> QED
    BY <2>1, <2>3 DEF TInv, TypeOK
<1>3. ASSUME NEW q \in Active, Step(q, req[q]) PROVE TInv'
  <2>1. PICK r \in Request : r = req[q] /\ Shape(r) /\ Step(q, r) /\ q \in Reqs
    BY <1>3 DEF TInv, Shape, Active
  <2>2. Act(q, r)
    BY <2>1, StepActs
  <2>3. PICK x \in Request \cup {Idle} : req' = [req EXCEPT ![q] = x] /\ (x # Idle => Shape(x))
    BY <2>2 DEF Act, Outcome, Goto, EndTrouble
  <2>4. trouble' \subseteq Ident /\ dropped' \subseteq Ident
    BY <2>1, <2>2, IdentType DEF Act, Outcome, EndTrouble, Drops, IdentFor, TInv, TypeOK, history
  <2>5. req' \in [Reqs -> Request \cup {Idle}] /\ \A p \in Active' : Shape(req'[p])
    BY <2>1, <2>3 DEF TInv, TypeOK, Active
  <2> QED
    BY <2>2, <2>4, <2>5 DEF Act, Typed, TInv, TypeOK
<1>4. CASE ~Crash /\ Next /\ \A q \in Active : ~Step(q, req[q])
  <2>1. PICK q \in Reqs, u \in Unit, kind \in {"put", "install", "uninstall", "file"},
             mode \in Mode \cup {"stored"}, rotate \in BOOLEAN :
          \E body \in Env : Arrive(q, u, kind, mode, rotate, body)
    BY <1>4, ArriveCases
  <2>2. UNCHANGED <<env, client, role, assigned, trouble, dropped, made>> /\ Joins(q, u)
    BY <2>1, Arrives
  <2>3. PICK n \in Request :
              /\ Shape(n)
              /\ req' = [p \in Reqs |-> IF p = q THEN n
                                        ELSE IF p \in On(IdentOf[u]) THEN [req[p] EXCEPT !.clean = FALSE] ELSE req[p]]
    BY <2>2 DEF Joins
  <2>4. ASSUME NEW p \in Reqs
        PROVE  req'[p] \in Request \cup {Idle} /\ (req'[p] # Idle => Shape(req'[p]))
    <3>1. req[p] \in Request \cup {Idle} /\ (req[p] # Idle => Shape(req[p]))
      BY DEF TInv, TypeOK, Active
    <3>2. p \in On(IdentOf[u]) => req[p] # Idle
      BY DEF On, Active
    <3>3. req[p] # Idle => [req[p] EXCEPT !.clean = FALSE] \in Request /\ Shape([req[p] EXCEPT !.clean = FALSE])
      BY <3>1, Unclean
    <3>4. req'[p] = IF p = q THEN n ELSE IF p \in On(IdentOf[u]) THEN [req[p] EXCEPT !.clean = FALSE] ELSE req[p]
      BY <2>3
    <3> QED
      BY <2>3, <3>1, <3>2, <3>3, <3>4
  <2>5. req' \in [Reqs -> Request \cup {Idle}] /\ \A p \in Active' : Shape(req'[p])
    BY <2>3, <2>4 DEF Active
  <2> QED
    BY <2>2, <2>5 DEF TInv, TypeOK
<1> QED
  BY <1>1, <1>2, <1>3, <1>4 DEF Next

\* The state keeps its types, whatever requests overlap, fail or are cut off: an
\* identity is assigned its role only while both exist, and a request has its form.
THEOREM TypeCorrect == Spec => []TypeOK
<1>1. TInv => TypeOK
  BY DEF TInv
<1> QED
  BY <1>1, TInit, TStep, PTL DEF Spec

\* The steps at which a password changes, and whose they are.
LEMMA PasswordSteps ==
  ASSUME TInv, NEW q \in Active, NEW r, r = req[q], Step(q, r), NEW i \in Ident, client'[i] # client[i]
  PROVE  /\ q \in On(i) /\ req'[q] # r
         /\ r.kind = "uninstall" \/ r.rotate \/ r.mode # "dynsec" \/ r.env.marker = None
<1>1. Shape(r) /\ r \in Request /\ q \in Reqs /\ req \in [Reqs -> Request \cup {Idle}]
  BY DEF TInv, TypeOK, Active, Shape
<1>2. i = IdentFor(r)
  BY <1>1, StepActs DEF Act, Frame
<1>3. q \in On(i)
  BY <1>2 DEF On, IdentFor
<1>4. DeleteClient(q, r) \/ CreateClient(q, r) \/ SetPassword(q, r)
  BY DEF Step, Read, ReadForUninstall, Uninstall, Apply, DeleteRole, CreateRole, AddACL, AddClientRole, Write, brokerVars
<1>5. r.kind = "uninstall" \/ r.rotate \/ r.mode # "dynsec" \/ r.env.marker = None
  BY <1>1, <1>4 DEF DeleteClient, CreateClient, SetPassword, Shape, Creating
<1>6. \/ req' = [req EXCEPT ![q] = Idle]
      \/ req' = [req EXCEPT ![q] = [r EXCEPT !.pc = "deleteRole", !.changed = TRUE]] /\ r.pc = "deleteClient"
      \/ req' = [req EXCEPT ![q] = [r EXCEPT !.pc = "deleteRole", !.changed = TRUE, !.clean = FALSE]] /\ r.pc = "deleteClient"
      \/ req' = [req EXCEPT ![q] = [r EXCEPT !.pc = "setPassword"]] /\ r.pc = "createClient"
      \/ req' = [req EXCEPT ![q] = [r EXCEPT !.pc = "addClientRole"]] /\ r.pc \in {"createClient", "setPassword"}
  BY <1>4 DEF DeleteClient, CreateClient, SetPassword, Goto, Fail, End, EndTrouble
<1>7. /\ [r EXCEPT !.pc = "deleteRole", !.changed = TRUE].pc = "deleteRole"
      /\ [r EXCEPT !.pc = "deleteRole", !.changed = TRUE, !.clean = FALSE].pc = "deleteRole"
      /\ [r EXCEPT !.pc = "setPassword"].pc = "setPassword"
      /\ [r EXCEPT !.pc = "addClientRole"].pc = "addClientRole"
  BY <1>1 DEF Request
<1>8. PICK x : req' = [req EXCEPT ![q] = x] /\ (x = Idle \/ x.pc # r.pc)
  BY <1>6, <1>7
<1>9. req'[q] # r
  BY <1>1, <1>8, CredentialsAssumption
<1> QED
  BY <1>3, <1>5, <1>9

\* A request that merely keeps an instance's mode never changes the password its
\* running adapter uses, whatever overlaps with it or fails.
THEOREM PasswordSafe == Spec => PasswordKept
<1>1. TInv /\ [Next]_vars =>
        [\A i \in Ident : client[i] # NoPass /\ client'[i] # client[i] =>
           \E q \in On(i) : LET r == req[q] IN
             /\ req'[q] # r
             /\ r.kind = "uninstall" \/ r.rotate \/ r.mode # "dynsec" \/ r.env.marker = None]_vars
  <2> SUFFICES ASSUME TInv, Next, NEW i \in Ident, client[i] # NoPass, client'[i] # client[i]
               PROVE  \E q \in On(i) : LET r == req[q] IN
                        /\ req'[q] # r
                        /\ r.kind = "uninstall" \/ r.rotate \/ r.mode # "dynsec" \/ r.env.marker = None
    OBVIOUS
  <2>1. ~Crash
    BY DEF Crash, brokerVars
  <2>2. \E q \in Active : Step(q, req[q])
    <3> SUFFICES ASSUME \A q \in Active : ~Step(q, req[q]) PROVE FALSE
      OBVIOUS
    <3>1. client' = client
      BY <2>1, ArriveCases, Arrives
    <3> QED
      BY <3>1
  <2>3. PICK q \in Active : Step(q, req[q])
    BY <2>2
  <2> QED
    BY <2>3, PasswordSteps
<1> QED
  BY <1>1, TInit, TStep, PTL DEF Spec, PasswordKept

-----------------------------------------------------------------------------
(* Files and broker agree.  The inductive invariant: a request that is     *)
(* clean is alone on its identity and has achieved what its place says; an *)
(* identity that no unclean request has left behind and that no request is *)
(* changing agrees with the files that name it, and the requests on it     *)
(* still hold the file that is there.                                      *)

Works(u) ==
  LET i == IdentOf[u] IN
  env[u].pass = client[i] /\ client[i] # NoPass /\ role[i] = "granted" /\ i \in assigned

Agrees(i) ==
  /\ \A u \in Unit : IdentOf[u] = i => NoMark(u) \/ Works(u)
  /\ client[i] # NoPass \/ role[i] # None =>
       i \in dropped \/ \E u \in Unit : IdentOf[u] = i /\ ~NoMark(u)

Calm(i) == i \notin trouble /\ \A q \in On(i) : ~req[q].changed

Sound(i) == Calm(i) => Agrees(i) /\ \A q \in On(i) : Fits(req[q])

Sole(q) ==
  LET r == req[q] IN
  /\ On(IdentFor(r)) = {q}
  /\ \A v \in Unit \ {r.unit} : IdentOf[v] = IdentFor(r) => NoMark(v)

Cleanly(q) == req[q].clean => Sole(q) /\ (req[q].changed => Achieved(req[q]))

CInv ==
  /\ TInv
  /\ \A q \in Active : Cleanly(q)
  /\ \A i \in Ident : Sound(i)

\* Nothing happens to an identity and the files that name it.
LEMMA AgreeFrame ==
  ASSUME NEW j \in Ident, client'[j] = client[j], role'[j] = role[j], j \in assigned' <=> j \in assigned,
         j \in dropped' <=> j \in dropped,
         \A u \in Unit : IdentOf[u] = j => env'[u] = env[u] \/ (NoMark(u) /\ NoMark(u)')
  PROVE  /\ Agrees(j) => Agrees(j)'
         /\ \A p \in Request : IdentFor(p) = j /\ Fits(p) => Fits(p)'
<1>1. ASSUME NEW u \in Unit, IdentOf[u] = j
      PROVE  /\ NoMark(u) <=> NoMark(u)'
             /\ ~NoMark(u) => env'[u] = env[u]
             /\ ~NoMark(u) /\ Works(u) => Works(u)'
  <2>1. env'[u] = env[u] \/ (NoMark(u) /\ NoMark(u)')
    BY <1>1
  <2>2. (NoMark(u) <=> NoMark(u)') /\ (~NoMark(u) => env'[u] = env[u])
    BY <2>1 DEF NoMark
  <2> QED
    BY <1>1, <2>2 DEF Works
<1>2. Agrees(j) => Agrees(j)'
  <2> SUFFICES ASSUME Agrees(j) PROVE Agrees(j)'
    OBVIOUS
  <2>1. ASSUME NEW u \in Unit, IdentOf[u] = j PROVE (NoMark(u) \/ Works(u))'
    BY <1>1, <2>1 DEF Agrees
  <2>2. client'[j] # NoPass \/ role'[j] # None =>
          j \in dropped' \/ \E u \in Unit : IdentOf[u] = j /\ ~NoMark(u)'
    BY <1>1 DEF Agrees
  <2> QED
    BY <2>1, <2>2 DEF Agrees
<1>3. ASSUME NEW p \in Request, IdentFor(p) = j, Fits(p) PROVE Fits(p)'
  <2>1. p.unit \in Unit /\ IdentOf[p.unit] = j
    BY <1>3, IdentType DEF IdentFor
  <2>2. (NoMark(p.unit) <=> NoMark(p.unit)') /\ (~NoMark(p.unit) => env'[p.unit] = env[p.unit])
    BY <1>1, <2>1
  <2>3. p.env.marker # None /\ env[p.unit] = p.env => env[p.unit] = Absent \/ ~NoMark(p.unit)
    BY DEF NoMark
  <2>4. p.env # Absent
    BY <1>3, CredentialsAssumption DEF Request
  <2> QED
    BY <1>3, <2>2, <2>3, <2>4 DEF Fits
<1> QED
  BY <1>2, <1>3

LEMMA CInit == Init => CInv
<1> SUFFICES ASSUME Init PROVE CInv
  OBVIOUS
<1>1. TInv /\ Active = {}
  BY TInit DEF Init, Active
<1>2. \A i \in Ident : Sound(i)
  BY <1>1 DEF Init, Sound, Agrees, NoMark, On
<1> QED
  BY <1>1, <1>2 DEF CInv

\* A step of one request.
LEMMA StepKeeps ==
  ASSUME CInv, TInv', NEW q \in Active, Step(q, req[q])
  PROVE  CInv'
<1>1. PICK r \in Request : r = req[q] /\ Shape(r) /\ Step(q, r) /\ q \in Reqs
  BY DEF CInv, TInv, Shape, Active
<1>2. Frame(r) /\ Outcome(q, r)
  BY <1>1, StepActs DEF CInv, Act
<1>3. PICK s \in Request :
        /\ s.unit = r.unit /\ (s.clean => r.clean)
        /\ ~s.changed => Calmly(r)
        /\ \/ /\ Goto(q, s) /\ Shape(s) /\ UNCHANGED history
              /\ ~s.changed /\ Fits(r) => Fits(s)'
              /\ s.changed /\ s.clean /\ (r.changed => Achieved(r)) => Achieved(s)'
           \/ /\ EndTrouble(q, s) /\ Drops(r, s)
              /\ s.changed /\ s.clean /\ (r.changed => Achieved(r)) => Rightly(r)
  BY <1>2 DEF Outcome
<1>4. PICK i \in Ident : i = IdentFor(r) /\ IdentFor(s) = i /\ IdentOf[r.unit] = i /\ r.unit \in Unit
  BY <1>1, <1>3, IdentType DEF IdentFor
<1>5. PICK x : x \in {s, Idle} /\ req' = [req EXCEPT ![q] = x] /\ (x = s <=> Goto(q, s)) /\ (x = Idle <=> EndTrouble(q, s))
  <2>1. s # Idle /\ req \in [Reqs -> Request \cup {Idle}]
    BY <1>3, CredentialsAssumption DEF CInv, TInv, TypeOK
  <2>2. ~(Goto(q, s) /\ EndTrouble(q, s))
    BY <1>1, <2>1 DEF Goto, EndTrouble
  <2>3. CASE Goto(q, s)
    BY <2>1, <2>2, <2>3 DEF Goto
  <2>4. CASE EndTrouble(q, s)
    BY <2>1, <2>2, <2>4 DEF EndTrouble
  <2> QED
    BY <1>3, <2>3, <2>4
<1>6. /\ req'[q] = x /\ \A o \in Reqs \ {q} : req'[o] = req[o]
      /\ s # Idle /\ req[q] = r /\ r # Idle
  BY <1>1, <1>3, <1>5, CredentialsAssumption DEF CInv, TInv, TypeOK
<1>7. q \in On(i) /\ (q \in On(i)' <=> x = s)
  BY <1>1, <1>3, <1>4, <1>5, <1>6 DEF On, Active
<1>8. ASSUME NEW o \in Reqs, o # q, NEW j PROVE o \in On(j)' <=> o \in On(j)
  BY <1>6, <1>8 DEF On, Active
<1>9. ASSUME NEW j \in Ident, j # i PROVE On(j)' = On(j) /\ q \notin On(j)
  <2>1. q \notin On(j) /\ q \notin On(j)'
    BY <1>1, <1>3, <1>4, <1>5, <1>6, <1>9 DEF On, Active
  <2>2. On(j) \subseteq Reqs /\ On(j)' \subseteq Reqs
    BY DEF On, Active
  <2> QED
    BY <1>8, <2>1, <2>2
<1>10. On(i)' = IF x = s THEN On(i) ELSE On(i) \ {q}
  <2>1. On(i) \subseteq Reqs /\ On(i)' \subseteq Reqs
    BY DEF On, Active
  <2> QED
    BY <1>7, <1>8, <2>1
<1>11. ASSUME NEW j \in Ident, j # i
       PROVE  /\ client'[j] = client[j] /\ role'[j] = role[j] /\ (j \in assigned' <=> j \in assigned)
              /\ j \in dropped' <=> j \in dropped
              /\ \A u \in Unit : IdentOf[u] = j => env'[u] = env[u]
  BY <1>2, <1>3, <1>4, <1>11 DEF Frame, Drops, history
<1>12. ASSUME NEW o \in Active', o # q PROVE Cleanly(o)'
  <2>1. PICK p \in Request : p = req[o] /\ req'[o] = p /\ o \in Active /\ o \in Reqs
    BY <1>6, <1>12 DEF Active, CInv, TInv, TypeOK
  <2> SUFFICES ASSUME p.clean PROVE Sole(o)' /\ (p.changed => Achieved(p)')
    BY <2>1 DEF Cleanly
  <2>2. Sole(o) /\ (p.changed => Achieved(p))
    BY <2>1 DEF CInv, Cleanly
  <2>3. PICK j \in Ident : j = IdentFor(p) /\ p.unit \in Unit
    BY IdentType
  <2>4. On(j) = {o} /\ j # i
    BY <1>7, <1>12, <2>1, <2>2, <2>3 DEF Sole
  <2>5. Sole(o)'
    <3>1. ASSUME NEW v \in Unit \ {p.unit}, IdentOf[v] = j PROVE NoMark(v)'
      BY <1>11, <2>1, <2>2, <2>3, <2>4, <3>1 DEF Sole, NoMark
    <3> QED
      BY <1>9, <2>1, <2>3, <2>4, <3>1 DEF Sole, IdentFor
  <2>6. Achieved(p) => Achieved(p)'
    <3>1. client'[j] = client[j] /\ role'[j] = role[j] /\ (j \in assigned' <=> j \in assigned) /\ env'[p.unit] = env[p.unit]
      BY <1>11, <2>3, <2>4 DEF IdentFor
    <3> QED
      BY <2>3, <3>1 DEF Achieved, IdentFor
  <2> QED
    BY <2>2, <2>5, <2>6
<1>13. ASSUME q \in Active' PROVE Cleanly(q)'
  <2>1. x = s /\ Goto(q, s)
    BY <1>5, <1>6, <1>13 DEF Active
  <2> SUFFICES ASSUME s.clean PROVE Sole(q)' /\ (s.changed => Achieved(s)')
    BY <1>6, <2>1 DEF Cleanly
  <2>2. Sole(q) /\ (r.changed => Achieved(r))
    BY <1>1, <1>3 DEF CInv, Cleanly
  <2>3. On(i)' = {q}
    BY <1>1, <1>4, <1>10, <2>1, <2>2 DEF Sole
  <2>4. ASSUME NEW v \in Unit \ {s.unit}, IdentOf[v] = i PROVE NoMark(v)'
    BY <1>1, <1>2, <1>3, <1>4, <2>2, <2>4 DEF Sole, NoMark, Frame
  <2>5. Sole(q)'
    BY <1>4, <1>6, <2>1, <2>3, <2>4 DEF Sole, IdentFor
  <2> QED
    BY <1>3, <1>5, <1>6, <2>1, <2>2, <2>5
<1>14. ASSUME NEW j \in Ident, j # i PROVE Sound(j)'
  <2> SUFFICES ASSUME Calm(j)' PROVE Agrees(j)' /\ \A o \in On(j)' : Fits(req[o])'
    BY DEF Sound
  <2>1. \A o \in On(j) : o \in Reqs \ {q} /\ req'[o] = req[o] /\ req[o] \in Request /\ IdentFor(req[o]) = j
    BY <1>6, <1>9, <1>14 DEF On, Active, CInv, TInv, TypeOK, IdentFor
  <2>2. j \notin trouble
    BY <1>3, <1>4, <1>14 DEF Calm, EndTrouble, history
  <2>3. Agrees(j) /\ \A o \in On(j) : Fits(req[o])
    BY <1>9, <1>14, <2>1, <2>2 DEF Calm, CInv, Sound
  <2>4. Agrees(j)' /\ \A p \in Request : IdentFor(p) = j /\ Fits(p) => Fits(p)'
    BY <1>11, <1>14, <2>3, AgreeFrame
  <2>5. ASSUME NEW o \in On(j) PROVE Fits(req[o])'
    <3>1. PICK p \in Request : p = req[o] /\ p = req'[o] /\ IdentFor(p) = j /\ Fits(p)
      BY <2>1, <2>3
    <3>2. Fits(p)'
      BY <2>4, <3>1
    <3> QED
      BY <3>1, <3>2
  <2> QED
    BY <1>9, <1>14, <2>4, <2>5
<1>15. Sound(i)'
  <2> SUFFICES ASSUME Calm(i)' PROVE Agrees(i)' /\ \A o \in On(i)' : Fits(req[o])'
    BY DEF Sound
  <2>1. CASE ~s.changed
    <3>1. ~r.changed /\ UNCHANGED brokerVars /\ trouble' = trouble /\ dropped' = dropped
          /\ (Fits(r) => env' = env \/ (NoMark(r.unit) /\ NoMark(r.unit)'))
      BY <1>3, <2>1 DEF Calmly, EndTrouble, Drops, history
    <3>2. Calm(i)
      <4>1. ASSUME NEW o \in On(i) PROVE ~req[o].changed
        <5>1. CASE o = q
          BY <1>6, <3>1, <5>1
        <5>2. CASE o # q
          BY <1>6, <1>8, <5>2 DEF Calm, On, Active
        <5> QED
          BY <5>1, <5>2
      <4> QED
        BY <3>1, <4>1 DEF Calm
    <3>3. Agrees(i) /\ \A o \in On(i) : Fits(req[o])
      BY <3>2 DEF CInv, Sound
    <3>4. Fits(r)
      BY <1>6, <1>7, <3>3
    <3>5. \A u \in Unit : IdentOf[u] = i => env'[u] = env[u] \/ (NoMark(u) /\ NoMark(u)')
      <4>1. ASSUME NEW u \in Unit PROVE env'[u] = env[u] \/ (NoMark(u) /\ NoMark(u)')
        BY <1>2, <3>1, <3>4 DEF Frame
      <4> QED
        BY <4>1
    <3>6. Agrees(i)' /\ \A p \in Request : IdentFor(p) = i /\ Fits(p) => Fits(p)'
      BY <3>1, <3>3, <3>5, AgreeFrame DEF brokerVars
    <3>7. ASSUME NEW o \in On(i)' PROVE Fits(req[o])'
      <4>1. CASE o = q
        <5>1. x = s /\ Goto(q, s) /\ req'[q] = s
          BY <1>5, <1>6, <1>10, <3>7, <4>1
        <5>2. Fits(s)'
          BY <1>3, <1>5, <1>6, <2>1, <3>4, <5>1
        <5> QED
          BY <4>1, <5>1, <5>2
      <4>2. CASE o # q
        <5>1. o \in On(i) /\ o \in Reqs
          BY <1>10, <3>7 DEF On, Active
        <5>2. PICK p \in Request : p = req[o] /\ p = req'[o] /\ IdentFor(p) = i /\ Fits(p)
          BY <1>6, <3>3, <4>2, <5>1 DEF On, Active, CInv, TInv, TypeOK, IdentFor
        <5>3. Fits(p)'
          BY <3>6, <5>2
        <5> QED
          BY <5>2, <5>3
      <4> QED
        BY <4>1, <4>2
    <3> QED
      BY <3>6, <3>7
  <2>2. CASE s.changed
    <3>1. x = Idle /\ EndTrouble(q, s)
      <4>1. x # s
        BY <1>6, <1>7, <2>2 DEF Calm
      <4> QED
        BY <1>5, <4>1
    <3>2. s.clean
      BY <1>4, <2>2, <3>1 DEF EndTrouble, Calm
    <3>3. Sole(q) /\ (r.changed => Achieved(r))
      BY <1>1, <1>3, <3>2 DEF CInv, Cleanly
    <3>4. Rightly(r)
      BY <1>3, <1>5, <1>6, <2>2, <3>1, <3>2, <3>3
    <3>5. On(i)' = {}
      BY <1>1, <1>4, <1>6, <1>10, <3>1, <3>3 DEF Sole
    <3>6. ASSUME NEW v \in Unit, v # r.unit, IdentOf[v] = i PROVE NoMark(v)'
      BY <1>1, <1>2, <1>4, <3>3, <3>6 DEF Sole, NoMark, Frame
    <3>7. Agrees(i)'
      <4>1. CASE NoMark(r.unit)' /\ (i \in dropped' \/ (client'[i] = NoPass /\ role'[i] = None))
        BY <3>6, <4>1 DEF Agrees
      <4>2. CASE /\ env'[r.unit] # Absent /\ env'[r.unit].marker # None /\ env'[r.unit].pass = client'[i]
                 /\ client'[i] # NoPass /\ role'[i] = "granted" /\ i \in assigned'
        <5>1. Works(r.unit)' /\ ~NoMark(r.unit)'
          BY <1>4, <4>2 DEF Works, NoMark
        <5> QED
          BY <1>4, <3>6, <5>1 DEF Agrees
      <4> QED
        BY <1>4, <3>4, <4>1, <4>2 DEF Rightly
    <3> QED
      BY <3>5, <3>7
  <2> QED
    BY <1>3, <2>1, <2>2 DEF Request
<1> QED
  BY <1>12, <1>13, <1>14, <1>15 DEF CInv

\* A request that arrives has changed nothing, and those it meets are no longer clean.
LEMMA ArriveKeeps ==
  ASSUME CInv, TInv', NEW q \in Reqs, NEW u \in Unit, NEW kind \in {"put", "install", "uninstall", "file"},
         NEW mode \in Mode \cup {"stored"}, NEW rotate \in BOOLEAN, NEW body,
         Arrive(q, u, kind, mode, rotate, body)
  PROVE  CInv'
<1>0. TInv
  BY DEF CInv
<1>1. UNCHANGED <<env, client, role, assigned, trouble, dropped, made>> /\ req[q] = Idle /\ Joins(q, u)
  BY <1>0, Arrives
<1>2. PICK n \in Request :
        /\ Shape(n) /\ n.unit = u /\ ~n.changed /\ Fits(n)
        /\ n.clean => /\ On(IdentOf[u]) = {}
                      /\ \A v \in Unit \ {u} : env[v] # Absent => env[v].marker # IdentOf[u]
        /\ req' = [p \in Reqs |-> IF p = q THEN n
                                  ELSE IF p \in On(IdentOf[u]) THEN [req[p] EXCEPT !.clean = FALSE] ELSE req[p]]
  BY <1>1 DEF Joins
<1>3. PICK i \in Ident : i = IdentOf[u] /\ IdentFor(n) = i
  BY <1>2, CredentialsAssumption DEF IdentFor
<1>4. n # Idle /\ req'[q] = n /\ q \notin Active
  BY <1>1, <1>2, CredentialsAssumption DEF Active
<1>5. \A j : NoMark(j)' <=> NoMark(j)
  BY <1>1 DEF NoMark
<1>6. ASSUME NEW p \in Request PROVE (Fits(p)' <=> Fits(p)) /\ (Achieved(p)' <=> Achieved(p))
  BY <1>1, <1>5 DEF Fits, Achieved
<1>7. ASSUME NEW o \in Active
      PROVE  /\ o \in Reqs \ {q} /\ req[o] \in Request /\ req'[o] \in Request /\ req'[o].unit = req[o].unit
             /\ o \in On(i) => ~req'[o].clean
             /\ o \notin On(i) => req'[o] = req[o]
             /\ req'[o].changed = req[o].changed
             /\ Fits(req[o]) => Fits(req[o])'
  <2>1. o \in Reqs \ {q} /\ req[o] \in Request
    BY <1>4 DEF Active, CInv, TInv, TypeOK
  <2>2. PICK p \in Request : p = req'[o] /\ p = IF o \in On(i) THEN [req[o] EXCEPT !.clean = FALSE] ELSE req[o]
    BY <1>2, <1>3, <2>1, Unclean
  <2>3. p.unit = req[o].unit /\ p.changed = req[o].changed /\ (Fits(req[o]) => Fits(p)) /\ (o \in On(i) => ~p.clean)
    BY <2>1, <2>2, Unclean
  <2>4. Fits(p) => Fits(p)'
    BY <1>6
  <2> QED
    BY <2>1, <2>2, <2>3, <2>4
<1>8. ASSUME NEW o \in Reqs, o # q PROVE o \in Active' <=> o \in Active
  <2>1. CASE o \in Active
    BY <1>7, <2>1, CredentialsAssumption DEF Active
  <2>2. CASE o \notin Active
    BY <1>2, <1>3, <1>8, <2>2 DEF Active, On
  <2> QED
    BY <2>1, <2>2
<1>9. ASSUME NEW j \in Ident PROVE On(j)' = IF j = i THEN On(j) \cup {q} ELSE On(j)
  <2>1. ASSUME NEW o \in Reqs, o # q PROVE o \in On(j)' <=> o \in On(j)
    BY <1>7, <1>8, <2>1 DEF On
  <2>2. q \notin On(j) /\ (q \in On(j)' <=> j = i)
    BY <1>2, <1>3, <1>4 DEF On, Active
  <2>3. On(j) \subseteq Reqs /\ On(j)' \subseteq Reqs
    BY DEF On, Active
  <2> QED
    BY <2>1, <2>2, <2>3
<1>10. ASSUME NEW o \in Active' PROVE Cleanly(o)'
  <2>1. CASE o = q
    <3> SUFFICES ASSUME n.clean PROVE Sole(q)'
      BY <1>2, <1>4, <2>1 DEF Cleanly
    <3>1. On(i)' = {q}
      BY <1>2, <1>3, <1>9
    <3>2. ASSUME NEW v \in Unit \ {u}, IdentOf[v] = i PROVE NoMark(v)
      BY <1>2, <1>3, <3>2 DEF CInv, TInv, EnvOK, NoMark
    <3> QED
      BY <1>2, <1>3, <1>4, <1>5, <3>1, <3>2 DEF Sole
  <2>2. CASE o # q
    <3>1. o \in Active
      BY <1>8, <1>10, <2>2 DEF Active
    <3>2. CASE o \in On(i)
      BY <1>7, <3>1, <3>2 DEF Cleanly
    <3>3. CASE o \notin On(i)
      <4>1. PICK p \in Request : p = req[o] /\ p = req'[o] /\ (p.clean => Sole(o) /\ (p.changed => Achieved(p)))
        BY <1>7, <3>1, <3>3 DEF CInv, Cleanly
      <4>2. PICK j \in Ident : j = IdentFor(p) /\ o \in On(j)
        BY <3>1, <4>1, IdentType DEF On, IdentFor
      <4>3. On(j)' = On(j)
        BY <1>9, <3>3, <4>2
      <4>4. Sole(o) => Sole(o)'
        BY <1>5, <4>1, <4>2, <4>3 DEF Sole
      <4> QED
        BY <1>6, <4>1, <4>4 DEF Cleanly
    <3> QED
      BY <3>2, <3>3
  <2> QED
    BY <2>1, <2>2
<1>11. ASSUME NEW j \in Ident PROVE Sound(j)'
  <2> SUFFICES ASSUME Calm(j)' PROVE Agrees(j)' /\ \A o \in On(j)' : Fits(req[o])'
    BY DEF Sound
  <2>1. \A o \in On(j) : o \in Active /\ o \in On(j)' /\ ~req'[o].changed
    BY <1>9 DEF On, Calm
  <2>2. Calm(j)
    BY <1>1, <1>7, <2>1 DEF Calm
  <2>3. Agrees(j) /\ \A o \in On(j) : Fits(req[o])
    BY <2>2 DEF CInv, Sound
  <2>4. Agrees(j)'
    BY <1>1, <2>3, AgreeFrame
  <2>5. ASSUME NEW o \in On(j)' PROVE Fits(req[o])'
    <3>1. CASE o = q
      BY <1>2, <1>4, <1>6, <3>1
    <3>2. CASE o # q
      <4>1. o \in On(j) /\ o \in Active
        BY <1>9, <2>1, <2>5, <3>2
      <4> QED
        BY <1>7, <2>3, <4>1
    <3> QED
      BY <3>1, <3>2
  <2> QED
    BY <2>4, <2>5
<1> QED
  BY <1>10, <1>11 DEF CInv

\* A crash leaves behind what was being changed.
LEMMA CrashKeeps ==
  ASSUME CInv, TInv', Crash
  PROVE  CInv'
<1>1. /\ UNCHANGED <<env, client, role, assigned, dropped, made>>
      /\ req' = [p \in Reqs |-> Idle] /\ trouble' = trouble \cup {IdentFor(req[p]) : p \in {o \in Active : req[o].changed}}
  BY DEF Crash, brokerVars
<1>2. Active' = {} /\ \A j : On(j)' = {}
  BY <1>1 DEF Active, On
<1>3. ASSUME NEW j \in Ident, Calm(j)' PROVE Agrees(j)'
  <2>1. Calm(j)
    BY <1>1, <1>3 DEF Calm, On, IdentFor
  <2>2. Agrees(j)
    BY <2>1 DEF CInv, Sound
  <2> QED
    BY <1>1, <2>2, AgreeFrame
<1> QED
  BY <1>2, <1>3 DEF CInv, Sound

LEMMA CStep == CInv /\ [Next]_vars => CInv'
<1> SUFFICES ASSUME CInv, [Next]_vars PROVE CInv'
  OBVIOUS
<1>1. TInv'
  BY TStep DEF CInv
<1>2. CASE UNCHANGED vars
  <2>1. UNCHANGED <<env, client, role, assigned, req, trouble, dropped>>
    BY <1>2 DEF vars, brokerVars
  <2>2. \A q \in Active' : Cleanly(q)'
    BY <2>1 DEF CInv, Cleanly, Sole, Achieved, On, Active, NoMark
  <2>3. \A i \in Ident : Sound(i)'
    BY <2>1 DEF CInv, Sound, Calm, Agrees, Works, Fits, On, Active, NoMark
  <2> QED
    BY <1>1, <2>2, <2>3 DEF CInv
<1>3. CASE Crash
  BY <1>1, <1>3, CrashKeeps
<1>4. ASSUME NEW q \in Active, Step(q, req[q]) PROVE CInv'
  BY <1>1, <1>4, StepKeeps
<1>5. CASE ~Crash /\ Next /\ \A q \in Active : ~Step(q, req[q])
  BY <1>1, <1>5, ArriveCases, ArriveKeeps DEF CInv
<1> QED
  BY <1>2, <1>3, <1>4, <1>5

\* An instance that has an identity can log in with what its env file says, whatever
\* was switched, rotated, reinstalled or saved from an old form before, unless a
\* request that failed half way or met another on the identity has left it behind.
THEOREM LogInKept == Spec => []CanLogIn
<1>1. CInv => CanLogIn
  <2> SUFFICES ASSUME CInv, NEW u \in Unit, env[u] # Absent, Settled(IdentOf[u])
               PROVE  LET i == IdentOf[u] IN
                      IF env[u].marker = None THEN env[u].user \notin Ident
                      ELSE /\ env[u].marker = i /\ ~env[u].she
                           /\ env[u].user = i /\ env[u].pass = client[i] /\ client[i] # NoPass
                           /\ role[i] = "granted" /\ i \in assigned
    BY DEF CanLogIn
  <2>1. EnvOK(u, env[u]) /\ IdentOf[u] \in Ident
    BY CredentialsAssumption DEF CInv, TInv
  <2>2. Agrees(IdentOf[u])
    BY <2>1 DEF CInv, Sound, Calm, Settled
  <2> QED
    BY <2>1, <2>2 DEF EnvOK, Agrees, Works, NoMark
<1> QED
  BY <1>1, CInit, CStep, PTL DEF Spec

\* No client and no role stays at the broker without an instance that uses it, with
\* the same exception, and but for an identity whose marker a body left out
\* (applyBrokerMode and mergeEnv of web/services-api.js).
THEOREM NoneOrphaned == Spec => []NoOrphan
<1>1. CInv => NoOrphan
  <2> SUFFICES ASSUME CInv, NEW i \in Ident, Settled(i), i \notin dropped, client[i] # NoPass \/ role[i] # None
               PROVE  \E u \in Unit : env[u] # Absent /\ env[u].marker = i
    BY DEF NoOrphan, Orphan
  <2>1. Agrees(i)
    BY DEF CInv, Sound, Calm, Settled
  <2>2. PICK u \in Unit : IdentOf[u] = i /\ ~NoMark(u)
    BY <2>1 DEF Agrees
  <2> QED
    BY <2>2 DEF CInv, TInv, EnvOK, NoMark
<1> QED
  BY <1>1, CInit, CStep, PTL DEF Spec
=============================================================================
