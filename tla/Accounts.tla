------------------------------ MODULE Accounts ------------------------------
(***************************************************************************)
(* Accounts and sessions of the browser server (audit_engine_web/users.py, *)
(* auth.py, the gate, the login page and the /api/users routes of          *)
(* __main__.py).  The server answers one request at a time, so a request   *)
(* is one action: the gate, then the handler.                              *)
(*                                                                         *)
(* Time is counted in ticks: the age of a failed login and of a cookie.    *)
(***************************************************************************)
EXTENDS Lists

CONSTANTS
  Typed,        (* the user names people type *)
  Names,        (* user names, normalised *)
  Normal,       (* users.normalise: Typed -> Names *)
  BadNames,     (* names is_valid_username refuses *)
  EnvName,      (* the name in GSS_AUTH_USER, "admin" by default *)
  Passwords,    (* passwords of at least 12 characters, and "short" *)
  EnvPassword,  (* the one GSS_AUTH_PASSWORD_HASH was made from *)
  Browsers,     (* the pages people use *)
  Addr,         (* _client_id: the address a browser's requests come from *)
  Window,       (* auth._WINDOW, in ticks *)
  MaxAttempts,  (* auth._MAX_ATTEMPTS *)
  MaxAge,       (* auth.SESSION_MAX_AGE, in ticks *)
  MaxRestarts   (* bound: restarts of the server *)

ASSUME AccountsAssumption ==
  /\ IsFiniteSet(Names)
  /\ Normal \in [Typed -> Names] /\ BadNames \subseteq Names /\ EnvName \in Names
  /\ EnvPassword \in Passwords
  /\ Window \in Nat \ {0} /\ MaxAttempts \in Nat \ {0} /\ MaxAge \in Nat
  /\ MaxRestarts \in Nat
  /\ DOMAIN Addr = Browsers

VARIABLES
  accounts,   (* the users table: from its names to password and is_admin *)
  env,        (* the login is in the server's environment *)
  secret,     (* GSS_SECRET_KEY is set *)
  run,        (* how often the server was restarted, which names its own key *)
  cookie,     (* each browser's session cookie *)
  fails,      (* auth._FAILURES: per address, the age of each failed login *)
  removed     (* history: the names an admin removed and none has added since *)

accountVars == <<accounts, env, secret, run, cookie, fails, removed>>

NoCookie == [user |-> EnvName, age |-> MaxAge + 1, key |-> 0]
Addresses == {Addr[b] : b \in Browsers}
Admins(table) == {n \in DOMAIN table : table[n].admin}

AccountsInit ==
  /\ accounts = [n \in {} |-> [password |-> EnvPassword, admin |-> TRUE]]
  /\ env \in BOOLEAN /\ secret \in BOOLEAN
  /\ run = 1
  /\ cookie = [b \in Browsers |-> NoCookie]
  /\ fails = [c \in Addresses |-> <<>>]
  /\ removed = {}

-----------------------------------------------------------------------------

(* ensure_bootstrapped: an empty table adopts the environment's login. *)
Bootstrapped(table) ==
  IF DOMAIN table # {} \/ ~env THEN table
  ELSE [n \in {EnvName} |-> [password |-> EnvPassword, admin |-> TRUE]]

(* _login_possible, which adopts it on the way. *)
LoginPossible == DOMAIN Bootstrapped(accounts) # {} \/ env

(* What signs a session: the configured secret, or one made at startup. *)
Key == IF secret THEN 0 ELSE run

(* session_user and the gate: who a request is served as. *)
SignedIn(b) == cookie[b].age <= MaxAge /\ cookie[b].key = Key
Who(b) == cookie[b].user

Pass(b) == LoginPossible /\ SignedIn(b)

(* _require_admin: the account is read from the table for every request. *)
AdminRequest(b) ==
  /\ Pass(b)
  /\ Who(b) \in Admins(Bootstrapped(accounts))

-----------------------------------------------------------------------------
(* POST /login *)
Recent(c) == Kept(fails[c], 0..(Window - 1))
Throttled(c) == Len(Recent(c)) >= MaxAttempts

Verified(table, n, pw) == n \in DOMAIN table /\ table[n].password = pw

(* Mutant: an attempt is noted before the throttle is asked, the oldest goes. *)
LoginNotesFirst(b, t, pw) ==
  LET c == Addr[b]
      table == Bootstrapped(accounts)
      n == Normal[t]
      ok == Verified(table, n, pw) /\ ~Throttled(c)
      noted == Append(Recent(c), 0)
  IN /\ accounts' = table
     /\ fails' = [fails EXCEPT ![c] =
                    IF ok THEN <<>>
                    ELSE SubSeq(noted, IF Len(noted) > MaxAttempts THEN 2 ELSE 1, Len(noted))]
     /\ cookie' = IF ok THEN [cookie EXCEPT ![b] = [user |-> n, age |-> 0, key |-> Key]]
                  ELSE cookie
     /\ UNCHANGED <<env, secret, run, removed>>

(* A throttled address is turned away before anything is looked at or noted. *)
Login(b, t, pw) ==
  LET c == Addr[b]
      table == Bootstrapped(accounts)
      n == Normal[t]
  IN /\ accounts' = table   (* by the gate's _login_possible, if not by login itself *)
     /\ IF Throttled(c)
        THEN fails' = [fails EXCEPT ![c] = Recent(c)] /\ UNCHANGED cookie
        ELSE IF Verified(table, n, pw)
        THEN /\ fails' = [fails EXCEPT ![c] = <<>>]
             /\ cookie' = [cookie EXCEPT ![b] = [user |-> n, age |-> 0, key |-> Key]]
        ELSE /\ fails' = [fails EXCEPT ![c] = Append(Recent(c), 0)]
             /\ UNCHANGED cookie
     /\ UNCHANGED <<env, secret, run, removed>>

(* /logout is an open path. *)
Logout(b) ==
  /\ cookie' = [cookie EXCEPT ![b] = NoCookie]
  /\ accounts' = Bootstrapped(accounts)
  /\ UNCHANGED <<env, secret, run, fails, removed>>

(* Any other request, /api/me and the list of users among them; one the gate *)
(* or _require_admin refuses has no further effect either.                   *)
Request(b) ==
  /\ accounts' = Bootstrapped(accounts)
  /\ UNCHANGED <<env, secret, run, cookie, fails, removed>>

-----------------------------------------------------------------------------
(* The /api/users routes.  Each leaves the table alone when it refuses. *)
LongEnough(pw) == pw # "short"

AddUser(b, t, pw, admin) ==
  LET n == Normal[t]
      table == Bootstrapped(accounts)
  IN
  /\ AdminRequest(b)
  /\ n \notin BadNames /\ LongEnough(pw) /\ n \notin DOMAIN table
  /\ accounts' = [m \in DOMAIN table \cup {n} |->
                    IF m = n THEN [password |-> pw, admin |-> admin] ELSE table[m]]
  /\ removed' = removed \ {n}
  /\ UNCHANGED <<env, secret, run, cookie, fails>>

SetPassword(b, t, pw) ==
  LET n == Normal[t]
      table == Bootstrapped(accounts)
  IN
  /\ AdminRequest(b)
  /\ LongEnough(pw) /\ n \in DOMAIN table
  /\ accounts' = [table EXCEPT ![n].password = pw]
  /\ UNCHANGED <<env, secret, run, cookie, fails, removed>>

(* Mutant: only the number of accounts is guarded. *)
LastAccount(table, n) == Cardinality(DOMAIN table) <= 1 /\ table[n].admin

LastAdmin(table, n) == Cardinality(Admins(table)) <= 1 /\ table[n].admin

SetAdmin(b, t, admin) ==
  LET n == Normal[t]
      table == Bootstrapped(accounts)
  IN
  /\ AdminRequest(b)
  /\ n \in DOMAIN table
  /\ admin \/ ~LastAdmin(table, n)
  /\ accounts' = [table EXCEPT ![n].admin = admin]
  /\ UNCHANGED <<env, secret, run, cookie, fails, removed>>

(* The route refuses the caller's own account, however it is written. *)
Own(b, t) == Normal[t] = Who(b)

DeleteUser(b, t) ==
  LET n == Normal[t]
      table == Bootstrapped(accounts)
  IN
  /\ AdminRequest(b)
  /\ ~Own(b, t)
  /\ n \in DOMAIN table /\ ~LastAdmin(table, n)
  /\ accounts' = [m \in DOMAIN table \ {n} |-> table[m]]
  /\ removed' = removed \cup {n}
  /\ UNCHANGED <<env, secret, run, cookie, fails>>

-----------------------------------------------------------------------------
(* Time passes for cookies and failures. *)
Tick ==
  /\ cookie' = [b \in Browsers |->
                  [cookie[b] EXCEPT !.age = IF @ > MaxAge THEN @ ELSE @ + 1]]
  /\ fails' = [c \in Addresses |->
                 [i \in DOMAIN fails[c] |->
                    IF fails[c][i] >= Window THEN Window ELSE fails[c][i] + 1]]
  /\ UNCHANGED <<accounts, env, secret, run, removed>>

(* The server is restarted, perhaps with another environment: the failures  *)
(* are forgotten, and with them the key of its own.                         *)
Restart ==
  /\ run <= MaxRestarts
  /\ run' = run + 1
  /\ env' \in BOOLEAN
  /\ fails' = [c \in Addresses |-> <<>>]
  /\ UNCHANGED <<accounts, secret, cookie, removed>>

AccountsNext ==
  \/ \E b \in Browsers :
       \/ Logout(b) \/ Request(b)
       \/ \E t \in Typed :
            \/ DeleteUser(b, t)
            \/ \E admin \in BOOLEAN : SetAdmin(b, t, admin)
            \/ \E pw \in Passwords :
                 \/ Login(b, t, pw) \/ SetPassword(b, t, pw)
                 \/ \E admin \in BOOLEAN : AddUser(b, t, pw, admin)
  \/ Tick \/ Restart

AccountsSpec == AccountsInit /\ [][AccountsNext]_accountVars

-----------------------------------------------------------------------------
AccountsTypeOK ==
  /\ DOMAIN accounts \subseteq Names
  /\ \A n \in DOMAIN accounts : accounts[n] \in [password : Passwords, admin : BOOLEAN]
  /\ env \in BOOLEAN /\ secret \in BOOLEAN
  /\ run \in 1..(MaxRestarts + 1)
  /\ cookie \in [Browsers -> [user : Names, age : 0..(MaxAge + 1), key : 0..(MaxRestarts + 1)]]
  /\ \A c \in Addresses : fails[c] \in Seq(0..Window) /\ Len(fails[c]) <= MaxAttempts
  /\ DOMAIN fails = Addresses
  /\ removed \subseteq Names

(* Whatever admins do to each other, one remains who can manage the accounts *)
(* (set_admin and delete_user: "no way back except the host").               *)
AdminRemains == DOMAIN accounts # {} => Admins(accounts) # {}

(* An account that was removed does not come back by itself, the adopted     *)
(* login in the environment included (ensure_bootstrapped: "once").          *)
RemovedStaysRemoved == removed \cap DOMAIN accounts = {}

(* An account is only removed by an admin who stays, so a table once filled  *)
(* is never empty again and nothing is adopted a second time.                *)
EmptyTableIsNew == DOMAIN accounts = {} => removed = {}

TableInv ==
  /\ DOMAIN accounts \subseteq Names
  /\ \A n \in DOMAIN accounts : accounts[n] \in [password : Passwords, admin : BOOLEAN]
  /\ AdminRemains /\ RemovedStaysRemoved /\ EmptyTableIsNew

(* Both, with the types: one who can manage the accounts remains, and nobody  *)
(* who was removed returns (users.py).                                       *)
AccountsInv == AccountsTypeOK /\ TableInv

(* A lockout ends even when the page goes on trying: a throttled attempt is  *)
(* not held against its address (login, note_failure).                       *)
LockoutEnds == \A c \in Addresses : Throttled(c) ~> ~Throttled(c)

=============================================================================
