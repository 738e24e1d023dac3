------------------------- MODULE ServiceCredentials -------------------------
(***************************************************************************)
(* The broker credentials of adapter instances                             *)
(* (src/web/services-api.js): an env file on the instance's host on one    *)
(* side, a client and a role of Mosquitto's dynamic security on the other, *)
(* and requests that change both step by step, each step an await.         *)
(*                                                                         *)
(* A command to the plugin is done, refused, or done and reported failed   *)
(* (a timeout); that an acknowledged one was done is AckedTookEffect of    *)
(* Dynsec.  Of an env file the model has the two markers, the user name    *)
(* and the password.  The role's entries are all there or not.             *)
(***************************************************************************)
EXTENDS Naturals, FiniteSets

CONSTANTS Unit,         \* instances: host, adapter and name
          Ident,        \* dynsec client and role names
          IdentOf,      \* credentialName: from the instance's name alone
          Reqs,         \* requests under way at a time
          MaxPass,      \* bound: passwords made
          MaxRequests, MaxFaults,
          None, Absent, Idle

NoPass == 0     \* none, or one that is no identity's
Mode == {"own", "she", "dynsec"}
Env == [marker : Ident \cup {None}, she : BOOLEAN, user : Ident \cup {"she", None}, pass : 0..MaxPass]
Blank == [marker |-> None, she |-> FALSE, user |-> None, pass |-> NoPass]

\* A request; its steps are named for the call they await.
Request ==
  [pc : {"read", "uninstall", "apply", "deleteClient", "deleteRole",
         "createRole", "addACL", "createClient", "setPassword", "addClientRole", "write"},
   unit : Unit, kind : {"put", "install", "uninstall", "file"}, mode : Mode \cup {"stored"},
   rotate : BOOLEAN, env : Env, pass : 0..MaxPass, changed : BOOLEAN, clean : BOOLEAN]

ASSUME CredentialsAssumption ==
  /\ IdentOf \in [Unit -> Ident]
  /\ None \notin Ident \cup {"she", "bare", "granted"} /\ "she" \notin Ident
  /\ Absent \notin Env /\ Idle \notin Request
  /\ MaxPass \in Nat /\ MaxRequests \in Nat /\ MaxFaults \in Nat

VARIABLES
  env,        \* the env file of each instance, or Absent
  client,     \* the plugin's clients: a password, or NoPass
  role,       \* its roles: None, "bare" without their entries, "granted"
  assigned,   \* clients that have their role
  req,        \* requests under way
  trouble,    \* history: identities a failed or overlapping request has left behind
  dropped,    \* history: identities whose marker a body without it took from the file
  made,       \* passwords made
  requests, faults

brokerVars == <<client, role, assigned>>
history == <<trouble, dropped>>
vars == <<env, client, role, assigned, req, trouble, dropped, made, requests, faults>>

-----------------------------------------------------------------------------
(* Env files *)

\* brokerModeOf
ModeOf(e) == IF e.marker # None THEN "dynsec" ELSE IF e.she THEN "she" ELSE "own"

\* mergeEnv: what the form sends, with a masked password as it is in the file.
Merge(current, body) == [body EXCEPT !.pass = IF body.pass = NoPass THEN NoPass ELSE current.pass]

\* The form shows the file as it was; a client of the API may send less.
Bodies(e) == {e, Blank}

-----------------------------------------------------------------------------
(* Requests.  `changed` is set by the first step that may have changed the *)
(* plugin's state, `clean` is lost with a failure or an overlap.           *)

Active == {q \in Reqs : req[q] # Idle}
On(i) == {q \in Active : IdentOf[req[q].unit] = i}
IdentFor(r) == IdentOf[r.unit]
Goto(q, r) == req' = [req EXCEPT ![q] = r]

\* The request ends: unless it was clean, its identity may be anything; a
\* clean one that made or removed the identity has put it right.
EndTrouble(q, r) ==
  /\ req' = [req EXCEPT ![q] = Idle]
  /\ trouble' = IF ~r.clean /\ r.changed THEN trouble \cup {IdentFor(r)}
                ELSE IF r.clean /\ r.changed THEN trouble \ {IdentFor(r)} ELSE trouble

End(q, r) ==
  /\ EndTrouble(q, r)
  /\ dropped' = IF r.clean /\ r.changed THEN dropped \ {IdentFor(r)} ELSE dropped

\* An error: the catch of the handler.
Fail(q, r) == End(q, [r EXCEPT !.clean = FALSE])

Ok == faults' = faults
Fault == faults < MaxFaults /\ faults' = faults + 1

\* A form is loaded, or a request is made up, and will arrive.  It overlaps
\* with all that are on the same identity by then, and with another instance
\* that has the identity already.
Arrive(q, u, kind, mode, rotate, body) ==
  LET i == IdentOf[u]
      shared == \E v \in Unit \ {u} : env[v] # Absent /\ env[v].marker = i
  IN /\ req[q] = Idle /\ requests < MaxRequests
     /\ (env[u] = Absent) = (kind = "install")
     /\ kind # "put" => mode \in Mode /\ ~rotate
     /\ kind \in {"uninstall", "file"} => mode = "own"
     /\ body \in IF kind = "put" THEN Bodies(env[u]) ELSE {Blank}
     /\ req' = [p \in Reqs |->
          IF p = q THEN [pc |-> IF kind = "install" THEN "apply" ELSE "read",
                         unit |-> u, kind |-> kind, mode |-> mode, rotate |-> rotate \/ kind = "install",
                         env |-> body, pass |-> NoPass, changed |-> FALSE, clean |-> On(i) = {} /\ ~shared]
          ELSE IF p \in On(i) THEN [req[p] EXCEPT !.clean = FALSE] ELSE req[p]]
     /\ requests' = requests + 1
     /\ UNCHANGED <<env, brokerVars, history, made, faults>>

\* The env file is read.
Read(q, r) ==
  /\ r.pc = "read" /\ r.kind \in {"put", "file"}
  /\ \/ /\ env[r.unit] # Absent /\ Ok
        /\ LET current == env[r.unit]
               mode == IF r.mode = "stored" THEN ModeOf(current) ELSE r.mode
           IN IF r.kind = "file"
                THEN Goto(q, [r EXCEPT !.pc = "write", !.env = current])
                ELSE Goto(q, [r EXCEPT !.pc = "apply", !.mode = mode, !.env = Merge(current, r.env)])
        /\ UNCHANGED history
     \/ /\ env[r.unit] = Absent /\ Ok /\ Fail(q, r)
     \/ Fault /\ Fail(q, r)
  /\ UNCHANGED <<env, brokerVars, made, requests>>

\* uninstallInstance: a file that cannot be read has no identity.
ReadForUninstall(q, r) ==
  /\ r.pc = "read" /\ r.kind = "uninstall"
  /\ \/ /\ Ok
        /\ Goto(q, [r EXCEPT !.pc = "uninstall", !.env = IF env[r.unit] = Absent THEN Blank ELSE env[r.unit]])
     \/ /\ Fault
        /\ Goto(q, [r EXCEPT !.pc = "uninstall", !.env = Blank, !.clean = FALSE, !.changed = TRUE])
  /\ UNCHANGED <<env, brokerVars, history, made, requests>>

MutUninstall(q, r) ==
  /\ r.pc = "uninstall" /\ Ok
  /\ env' = [env EXCEPT ![r.unit] = Absent]
  /\ End(q, r)
  /\ UNCHANGED <<brokerVars, made, requests>>

\* The helper removes the instance, then its identity goes.
Uninstall(q, r) ==
  /\ r.pc = "uninstall"
  /\ \/ /\ Ok /\ env' = [env EXCEPT ![r.unit] = Absent]
        /\ IF r.env.marker = None THEN End(q, r)
                                  ELSE Goto(q, [r EXCEPT !.pc = "deleteClient", !.changed = TRUE]) /\ UNCHANGED history
     \/ /\ Fault /\ Fail(q, [r EXCEPT !.changed = TRUE])
        /\ env' \in {env, [env EXCEPT ![r.unit] = Absent]}
  /\ UNCHANGED <<brokerVars, made, requests>>

MutContinue(q, r, e) ==
  CASE r.mode = "own" ->
         /\ Goto(q, [r EXCEPT !.pc = "write", !.env = [e EXCEPT !.she = FALSE]])
         /\ UNCHANGED <<history, made>>
    [] r.mode = "she" ->
         /\ Goto(q, [r EXCEPT !.pc = "write", !.env = [e EXCEPT !.she = TRUE, !.user = "she", !.pass = NoPass]])
         /\ UNCHANGED <<history, made>>
    [] OTHER ->
         /\ Goto(q, [r EXCEPT !.pc = "createRole", !.pass = made + 1, !.env = [e EXCEPT !.she = FALSE]])
         /\ made < MaxPass /\ made' = made + 1 /\ UNCHANGED history

\* The rest of applyBrokerMode, once an identity that is left is gone: an
\* instance that has one keeps it unless asked to rotate.
Continue(q, r, e) ==
  CASE r.mode = "own" ->
         /\ Goto(q, [r EXCEPT !.pc = "write", !.env = [e EXCEPT !.she = FALSE]])
         /\ UNCHANGED <<history, made>>
    [] r.mode = "she" ->
         /\ Goto(q, [r EXCEPT !.pc = "write", !.env = [e EXCEPT !.she = TRUE, !.user = "she", !.pass = NoPass]])
         /\ UNCHANGED <<history, made>>
    [] r.mode = "dynsec" /\ ModeOf(e) = "dynsec" /\ ~r.rotate ->
         /\ Goto(q, [r EXCEPT !.pc = "write", !.env = [e EXCEPT !.she = FALSE]])
         /\ UNCHANGED <<history, made>>
    [] OTHER ->
         /\ Goto(q, [r EXCEPT !.pc = "createRole", !.pass = made + 1, !.env = [e EXCEPT !.she = FALSE]])
         /\ made < MaxPass /\ made' = made + 1 /\ UNCHANGED history

\* applyBrokerMode up to its first await; she's settings or the plugin may be missing.
Apply(q, r) ==
  /\ r.pc = "apply"
  /\ \/ /\ Ok
        /\ IF r.mode # "dynsec" /\ ModeOf(r.env) = "dynsec"
             THEN Goto(q, [r EXCEPT !.pc = "deleteClient"]) /\ UNCHANGED <<history, made>>
             ELSE Continue(q, r, r.env)
     \/ r.mode # "own" /\ ~(ModeOf(r.env) = "dynsec" /\ r.mode = "she") /\ Fault /\ Fail(q, r) /\ UNCHANGED made
  /\ UNCHANGED <<env, brokerVars, requests>>

\* Deleting is best effort: an error is passed over.
DeleteClient(q, r) ==
  LET i == r.env.marker IN
  /\ r.pc = "deleteClient"
  /\ \/ /\ Ok /\ client' = [client EXCEPT ![i] = NoPass] /\ assigned' = assigned \ {i}
        /\ Goto(q, [r EXCEPT !.pc = "deleteRole", !.changed = TRUE])
     \/ /\ Fault /\ UNCHANGED <<client, assigned>>
        /\ Goto(q, [r EXCEPT !.pc = "deleteRole", !.changed = TRUE, !.clean = FALSE])
  /\ UNCHANGED <<env, role, history, made, requests>>

\* Then the env loses the marker and the dead credentials, and the new mode is
\* applied; she's settings may turn out to be missing only now.
DeleteRole(q, r) ==
  LET i == r.env.marker
      stripped == [r.env EXCEPT !.marker = None, !.user = None, !.pass = NoPass]
      next(s) == IF s.kind = "uninstall" THEN End(q, s) /\ UNCHANGED made ELSE Continue(q, s, stripped)
  IN /\ r.pc = "deleteRole"
     /\ \/ /\ Ok /\ role' = [role EXCEPT ![i] = None] /\ assigned' = assigned \ {i} /\ next(r)
        \/ /\ Fault /\ UNCHANGED <<role, assigned>> /\ next([r EXCEPT !.clean = FALSE])
        \/ /\ r.kind # "uninstall" /\ r.mode = "she" /\ Fault
           /\ role' = [role EXCEPT ![i] = None] /\ assigned' = assigned \ {i}
           /\ Fail(q, r) /\ UNCHANGED made
     /\ UNCHANGED <<env, client, requests>>

-----------------------------------------------------------------------------
(* createInstanceCredentials: an identity that exists is used again. *)

CreateRole(q, r) ==
  LET i == IdentFor(r)
      created == [role EXCEPT ![i] = IF @ = None THEN "bare" ELSE @]
  IN /\ r.pc = "createRole"
     /\ \/ Ok /\ role' = created /\ Goto(q, [r EXCEPT !.pc = "addACL", !.changed = TRUE]) /\ UNCHANGED history
        \/ Fault /\ role' \in {role, created} /\ Fail(q, [r EXCEPT !.changed = role' # role])
     /\ UNCHANGED <<env, client, assigned, made, requests>>

\* All entries, one command each.
AddACL(q, r) ==
  LET i == IdentFor(r) IN
  /\ r.pc = "addACL"
  /\ \/ role[i] # None /\ Ok /\ role' = [role EXCEPT ![i] = "granted"]
        /\ Goto(q, [r EXCEPT !.pc = "createClient"]) /\ UNCHANGED history
     \/ role[i] = None /\ Ok /\ UNCHANGED role /\ Fail(q, r)
     \/ Fault /\ UNCHANGED role /\ Fail(q, r)
  /\ UNCHANGED <<env, client, assigned, made, requests>>

MutCreateClient(q, r) ==
  LET i == IdentFor(r) IN
  /\ r.pc = "createClient" /\ Ok
  /\ client' = [client EXCEPT ![i] = IF @ = NoPass THEN r.pass ELSE @]
  /\ Goto(q, [r EXCEPT !.pc = "addClientRole"])
  /\ UNCHANGED <<env, role, assigned, history, made, requests>>

CreateClient(q, r) ==
  LET i == IdentFor(r)
      created == [client EXCEPT ![i] = r.pass]
  IN /\ r.pc = "createClient"
     /\ \/ client[i] = NoPass /\ Ok /\ client' = created /\ Goto(q, [r EXCEPT !.pc = "addClientRole"]) /\ UNCHANGED history
        \/ client[i] # NoPass /\ Ok /\ UNCHANGED client /\ Goto(q, [r EXCEPT !.pc = "setPassword"]) /\ UNCHANGED history
        \/ Fault /\ client' \in {client, IF client[i] = NoPass THEN created ELSE client} /\ Fail(q, r)
     /\ UNCHANGED <<env, role, assigned, made, requests>>

SetPassword(q, r) ==
  LET i == IdentFor(r)
      set == [client EXCEPT ![i] = r.pass]
  IN /\ r.pc = "setPassword"
     /\ \/ client[i] # NoPass /\ Ok /\ client' = set /\ Goto(q, [r EXCEPT !.pc = "addClientRole"]) /\ UNCHANGED history
        \/ client[i] = NoPass /\ Ok /\ UNCHANGED client /\ Fail(q, r)
        \/ Fault /\ client' \in {client, IF client[i] # NoPass THEN set ELSE client} /\ Fail(q, r)
     /\ UNCHANGED <<env, role, assigned, made, requests>>

\* The env to be written gets the marker, the user name and the password.
AddClientRole(q, r) ==
  LET i == IdentFor(r)
      there == client[i] # NoPass /\ role[i] # None
      e == [r.env EXCEPT !.marker = i, !.user = i, !.pass = r.pass]
  IN /\ r.pc = "addClientRole"
     /\ \/ there /\ Ok /\ assigned' = assigned \cup {i} /\ Goto(q, [r EXCEPT !.pc = "write", !.env = e]) /\ UNCHANGED history
        \/ ~there /\ Ok /\ UNCHANGED assigned /\ Fail(q, r)
        \/ Fault /\ assigned' \in {assigned, IF there THEN assigned \cup {i} ELSE assigned} /\ Fail(q, r)
     /\ UNCHANGED <<env, client, role, made, requests>>

\* The helper writes the file, or installs the instance with it.  A body without the
\* marker has hidden the identity from applyBrokerMode: when it leaves dynsec the
\* file forgets the identity, and nothing is deleted.
Write(q, r) ==
  LET u == r.unit
      written == [env EXCEPT ![u] = r.env]
      can == env[u] # Absent \/ r.kind = "install"
      forgets == ~r.changed /\ env[u] # Absent /\ env[u].marker # None /\ r.env.marker = None
      forgetting == [r EXCEPT !.changed = TRUE]
  IN /\ r.pc = "write"
     /\ \/ can /\ ~forgets /\ Ok /\ env' = written /\ End(q, r)
        \/ /\ can /\ forgets /\ Ok /\ env' = written
           /\ EndTrouble(q, forgetting) /\ dropped' = dropped \cup {IdentFor(r)}
        \/ ~can /\ Ok /\ UNCHANGED env /\ Fail(q, r)
        \/ Fault /\ UNCHANGED env /\ Fail(q, r)
        \/ can /\ Fault /\ env' = written /\ Fail(q, IF forgets THEN forgetting ELSE r)
     /\ UNCHANGED <<brokerVars, made, requests>>

\* The daemon dies: the requests under way go no further.
Crash ==
  /\ Active # {} /\ Fault
  /\ trouble' = trouble \cup {IdentFor(req[q]) : q \in {p \in Active : req[p].changed}}
  /\ req' = [q \in Reqs |-> Idle]
  /\ UNCHANGED <<env, brokerVars, dropped, made, requests>>

-----------------------------------------------------------------------------
Init ==
  /\ env = [u \in Unit |-> Absent]
  /\ client = [i \in Ident |-> NoPass] /\ role = [i \in Ident |-> None] /\ assigned = {}
  /\ req = [q \in Reqs |-> Idle]
  /\ trouble = {} /\ dropped = {} /\ made = 0 /\ requests = 0 /\ faults = 0

Step(q, r) ==
  \/ Read(q, r) \/ ReadForUninstall(q, r) \/ Uninstall(q, r) \/ Apply(q, r)
  \/ DeleteClient(q, r) \/ DeleteRole(q, r)
  \/ CreateRole(q, r) \/ AddACL(q, r) \/ CreateClient(q, r) \/ SetPassword(q, r) \/ AddClientRole(q, r)
  \/ Write(q, r)

Next ==
  \/ \E q \in Reqs, u \in Unit, rotate \in BOOLEAN :
       \/ \E mode \in Mode \cup {"stored"} : \E body \in IF env[u] = Absent THEN {Blank} ELSE Bodies(env[u]) :
            Arrive(q, u, "put", mode, rotate, body)
       \/ \E mode \in Mode : Arrive(q, u, "install", mode, rotate, Blank)
       \/ \E kind \in {"uninstall", "file"} : Arrive(q, u, kind, "own", rotate, Blank)
  \/ \E q \in Active : Step(q, req[q])
  \/ Crash

Spec == Init /\ [][Next]_vars

-----------------------------------------------------------------------------
(* Properties *)

\* The variables have their types; a role or a client that is assigned exists.
TypeOK ==
  /\ env \in [Unit -> Env \cup {Absent}]
  /\ client \in [Ident -> 0..MaxPass]
  /\ role \in [Ident -> {None, "bare", "granted"}]
  /\ assigned \subseteq {i \in Ident : client[i] # NoPass /\ role[i] # None}
  /\ req \in [Reqs -> Request \cup {Idle}]
  /\ trouble \subseteq Ident /\ dropped \subseteq Ident /\ made \in 0..MaxPass

Settled(i) == On(i) = {} /\ i \notin trouble

\* An instance that has an identity of its own can log in with what its env
\* file says: the client exists with that password, and its role with all
\* entries; no other user name of an identity stays in the file.  Switched,
\* rotated, or saved from a form or by an API client that sends no markers, in
\* any order; only requests that failed half way or overlapped are excused, until
\* one that makes or removes the identity has gone through.
CanLogIn ==
  \A u \in Unit : env[u] # Absent /\ Settled(IdentOf[u]) =>
    LET i == IdentOf[u] IN
    IF env[u].marker = None THEN env[u].user \notin Ident
    ELSE /\ env[u].marker = i /\ ~env[u].she
         /\ env[u].user = i /\ env[u].pass = client[i] /\ client[i] # NoPass
         /\ role[i] = "granted" /\ i \in assigned

Orphan(i) ==
  /\ client[i] # NoPass \/ role[i] # None
  /\ \A u \in Unit : env[u] = Absent \/ env[u].marker # i

\* No identity outlives its use: switching to another mode and uninstalling
\* leave neither client nor role at the broker.  Excused are requests that failed
\* half way or overlapped, and an identity whose marker a body left out, until a
\* request that makes or removes it has gone through.
NoOrphan == \A i \in Ident : Settled(i) /\ i \notin dropped => ~Orphan(i)

\* The same of every switch that neither failed nor overlapped.  It does not hold:
\* a body without the marker takes it from the file and deletes nothing.
SwitchDeletes == \A i \in Ident : Settled(i) => ~Orphan(i)

\* Saving an instance's settings does not cut off the running adapter: the
\* password of a client changes only by a request that rotates it, leaves dynsec,
\* uninstalls, or comes without the marker, never by one that merely keeps the mode.
PasswordKept ==
  [][\A i \in Ident : client[i] # NoPass /\ client'[i] # client[i] =>
       \E q \in On(i) : LET r == req[q] IN
         /\ req'[q] # r
         /\ r.kind = "uninstall" \/ r.rotate \/ r.mode # "dynsec" \/ r.env.marker = None]_vars
=============================================================================
