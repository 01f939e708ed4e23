--------------------------- MODULE Program_proofs ---------------------------
(***************************************************************************)
(* Proofs about what the program does beside its services, for any names,  *)
(* people, values, workbooks, runs, seconds and restarts.                  *)
(*                                                                         *)
(* Accounts and Settings keep the table of users, the failed logins, the   *)
(* settings behind their cache and the recent files.  RunFolders and       *)
(* DesktopTool both look for a name nothing has yet before they write.     *)
(* Updater replaces the program, for any number of releases and faults,    *)
(* where the checker and the buttons take turns.                           *)
(***************************************************************************)
EXTENDS Accounts, Settings, RunFolders, DesktopTool, Updater, Lists_proofs

-----------------------------------------------------------------------------
(***************************************************************************)
(* Accounts.                                                               *)
(***************************************************************************)
USE AccountsAssumption

Account == [password : Passwords, admin : BOOLEAN]

(* What is true of a table, with the names removed from it.                   *)
GoodTable(table, gone) ==
  /\ DOMAIN table \subseteq Names
  /\ \A n \in DOMAIN table : table[n] \in Account
  /\ DOMAIN table # {} => Admins(table) # {}
  /\ gone \cap DOMAIN table = {}
  /\ DOMAIN table = {} => gone = {}

LEMMA TableInvIsGood ==
  /\ TableInv <=> GoodTable(accounts, removed)
  /\ TableInv' <=> GoodTable(accounts', removed')
  BY DEF TableInv, GoodTable, AdminRemains, RemovedStaysRemoved, EmptyTableIsNew, Account, Admins

LEMMA InitTable == AccountsInit => TableInv
  BY TableInvIsGood DEF AccountsInit, GoodTable

(* The gate's _login_possible may adopt the environment's login.              *)
LEMMA Adopting == TableInv => GoodTable(Bootstrapped(accounts), removed)
<1> SUFFICES ASSUME TableInv PROVE GoodTable(Bootstrapped(accounts), removed)
  OBVIOUS
<1>1. CASE DOMAIN accounts # {} \/ ~env
  BY <1>1, TableInvIsGood DEF Bootstrapped
<1>2. CASE DOMAIN accounts = {} /\ env
  <2> DEFINE adopted == [password |-> EnvPassword, admin |-> TRUE]
  <2>1. adopted \in Account /\ adopted.admin = TRUE
    BY DEF Account
  <2>2. Bootstrapped(accounts) = [n \in {EnvName} |-> adopted]
    BY <1>2 DEF Bootstrapped
  <2>3. removed = {}
    BY <1>2 DEF TableInv, EmptyTableIsNew
  <2> HIDE DEF adopted
  <2> DEFINE table == [n \in {EnvName} |-> adopted]
  <2>5. DOMAIN table = {EnvName} /\ table[EnvName] = adopted /\ EnvName \in Names
    OBVIOUS
  <2>6. EnvName \in Admins(table)
    BY <2>1, <2>5 DEF Admins
  <2> HIDE DEF table
  <2>7. GoodTable(table, removed)
    BY <2>1, <2>3, <2>5, <2>6 DEF GoodTable
  <2>8. QED
    BY <2>2, <2>7 DEF table
<1>3. QED
  BY <1>1, <1>2

LEMMA AdoptStep ==
  ASSUME TableInv, accounts' = Bootstrapped(accounts), removed' = removed
  PROVE  TableInv'
  BY Adopting, TableInvIsGood

(* The last admin is the only one.                                           *)
LEMMA AnotherAdmin ==
  ASSUME NEW table, NEW gone, GoodTable(table, gone), NEW n \in DOMAIN table, ~LastAdmin(table, n)
  PROVE  \E m \in Admins(table) : m # n
<1>1. IsFiniteSet(Admins(table))
  BY FS_Subset DEF GoodTable, Admins
<1>2. CASE ~table[n].admin
  BY <1>2 DEF GoodTable, Admins
<1>3. CASE table[n].admin
  <2>1. ~(Cardinality(Admins(table)) <= 1)
    BY <1>3 DEF LastAdmin
  <2>2. Cardinality({n}) = 1
    BY FS_Singleton
  <2>3. Admins(table) # {n}
    BY <2>1, <2>2
  <2>4. n \in Admins(table)
    BY <1>3 DEF Admins
  <2>5. QED
    BY <2>3, <2>4
<1>4. QED
  BY <1>2, <1>3

-----------------------------------------------------------------------------
(***************************************************************************)
(* The routes of the admin page, on the table the gate has left.  An admin  *)
(* sent the request, so that table has one.                                *)
(***************************************************************************)
LEMMA AddUserStep ==
  ASSUME TableInv, NEW b \in Browsers, NEW t \in Typed, NEW pw \in Passwords,
         NEW admin \in BOOLEAN, AddUser(b, t, pw, admin)
  PROVE  TableInv'
<1> DEFINE n == Normal[t]
<1> DEFINE added == [password |-> pw, admin |-> admin]
<1> DEFINE table == Bootstrapped(accounts)
<1>1. /\ n \in Names /\ n \notin DOMAIN table /\ added \in Account
      /\ accounts' = [m \in DOMAIN table \cup {n} |-> IF m = n THEN added ELSE table[m]]
      /\ removed' = removed \ {n}
  BY DEF AddUser, Account
<1>2. Admins(table) # {}
  BY DEF AddUser, AdminRequest
<1>3. GoodTable(table, removed)
  BY Adopting
<1> HIDE DEF n, added, table
<1>4. /\ DOMAIN accounts' = DOMAIN table \cup {n} /\ accounts'[n] = added
      /\ \A m \in DOMAIN table : accounts'[m] = table[m]
  BY <1>1
<1>5. Admins(table) \subseteq Admins(accounts')
  BY <1>4 DEF Admins
<1>6. GoodTable(accounts', removed')
  BY <1>1, <1>2, <1>3, <1>4, <1>5 DEF GoodTable
<1>7. QED
  BY <1>6, TableInvIsGood

LEMMA SetPasswordStep ==
  ASSUME TableInv, NEW b \in Browsers, NEW t \in Typed, NEW pw \in Passwords, SetPassword(b, t, pw)
  PROVE  TableInv'
<1> DEFINE n == Normal[t]
<1> DEFINE table == Bootstrapped(accounts)
<1>1. n \in DOMAIN table /\ accounts' = [table EXCEPT ![n].password = pw] /\ removed' = removed
  BY DEF SetPassword
<1>2. GoodTable(table, removed)
  BY Adopting
<1> HIDE DEF n, table
<1>3. DOMAIN accounts' = DOMAIN table
  BY <1>1
<1>4. ASSUME NEW m \in DOMAIN table PROVE accounts'[m] \in Account /\ accounts'[m].admin = table[m].admin
  BY <1>1, <1>2 DEF GoodTable, Account
<1>5. Admins(accounts') = Admins(table)
  BY <1>3, <1>4 DEF Admins
<1>6. GoodTable(accounts', removed')
  BY <1>1, <1>2, <1>3, <1>4, <1>5 DEF GoodTable
<1>7. QED
  BY <1>6, TableInvIsGood

LEMMA SetAdminStep ==
  ASSUME TableInv, NEW b \in Browsers, NEW t \in Typed, NEW admin \in BOOLEAN, SetAdmin(b, t, admin)
  PROVE  TableInv'
<1> DEFINE n == Normal[t]
<1> DEFINE table == Bootstrapped(accounts)
<1>1. /\ n \in DOMAIN table /\ (admin \/ ~LastAdmin(table, n))
      /\ accounts' = [table EXCEPT ![n].admin = admin] /\ removed' = removed
  BY DEF SetAdmin
<1>2. GoodTable(table, removed)
  BY Adopting
<1> HIDE DEF n, table
<1>3. DOMAIN accounts' = DOMAIN table
  BY <1>1
<1>4. /\ accounts'[n] \in Account /\ accounts'[n].admin = admin
      /\ \A m \in DOMAIN table \ {n} : accounts'[m] = table[m]
  BY <1>1, <1>2 DEF GoodTable, Account
<1>5. Admins(accounts') # {}
  <2>1. CASE admin
    BY <1>1, <1>3, <1>4, <2>1 DEF Admins
  <2>2. CASE ~admin
    <3>1. PICK m \in Admins(table) : m # n
      BY <1>1, <1>2, <2>2, AnotherAdmin
    <3>2. m \in Admins(accounts')
      BY <1>3, <1>4, <3>1 DEF Admins
    <3>3. QED
      BY <3>2
  <2>3. QED
    BY <2>1, <2>2
<1>6. GoodTable(accounts', removed')
  BY <1>1, <1>2, <1>3, <1>4, <1>5 DEF GoodTable
<1>7. QED
  BY <1>6, TableInvIsGood

LEMMA DeleteUserStep ==
  ASSUME TableInv, NEW b \in Browsers, NEW t \in Typed, DeleteUser(b, t)
  PROVE  TableInv'
<1> DEFINE n == Normal[t]
<1> DEFINE table == Bootstrapped(accounts)
<1>1. /\ n \in DOMAIN table /\ ~LastAdmin(table, n)
      /\ accounts' = [m \in DOMAIN table \ {n} |-> table[m]] /\ removed' = removed \cup {n}
  BY DEF DeleteUser
<1>2. GoodTable(table, removed)
  BY Adopting
<1> HIDE DEF n, table
<1>3. DOMAIN accounts' = DOMAIN table \ {n} /\ \A m \in DOMAIN table \ {n} : accounts'[m] = table[m]
  BY <1>1
<1>4. PICK m \in Admins(table) : m # n
  BY <1>1, <1>2, AnotherAdmin
<1>5. m \in Admins(accounts')
  BY <1>3, <1>4 DEF Admins
<1>6. GoodTable(accounts', removed')
  BY <1>1, <1>2, <1>3, <1>5 DEF GoodTable, Admins
<1>7. QED
  BY <1>6, TableInvIsGood

-----------------------------------------------------------------------------
LEMMA NextTable == TableInv /\ [AccountsNext]_accountVars => TableInv'
<1> SUFFICES ASSUME TableInv, [AccountsNext]_accountVars PROVE TableInv'
  OBVIOUS
<1>1. ASSUME UNCHANGED <<accounts, removed>> PROVE TableInv'
  BY <1>1, TableInvIsGood
<1>2. ASSUME NEW b \in Browsers, Logout(b) \/ Request(b) PROVE TableInv'
  BY <1>2, AdoptStep DEF Logout, Request
<1>3. ASSUME NEW b \in Browsers, NEW t \in Typed, NEW pw \in Passwords, Login(b, t, pw) PROVE TableInv'
  BY <1>3, AdoptStep DEF Login
<1>4. CASE Tick \/ Restart \/ UNCHANGED accountVars
  BY <1>1, <1>4 DEF Tick, Restart, accountVars
<1>5. QED
  BY <1>2, <1>3, <1>4, AddUserStep, SetPasswordStep, SetAdminStep, DeleteUserStep DEF AccountsNext

(* Whoever signs in, adds, removes, promotes or demotes, and with whatever    *)
(* environment the server starts: a table of users that has anyone has an     *)
(* admin, and no removed name is in it (set_admin, delete_user).               *)
THEOREM TableIsManaged == AccountsSpec => []TableInv
<1>1. AccountsInit => TableInv
  BY InitTable
<1>2. TableInv /\ [AccountsNext]_accountVars => TableInv'
  BY NextTable
<1>3. QED
  BY <1>1, <1>2, PTL DEF AccountsSpec

-----------------------------------------------------------------------------
(***************************************************************************)
(* The types, of which only the failed logins are not plain: an attempt is  *)
(* noted when fewer than the limit are left of those before.               *)
(***************************************************************************)
Cookies == [Browsers -> [user : Names, age : 0..(MaxAge + 1), key : 0..(MaxRestarts + 1)]]

FailsAreFew(f) ==
  /\ DOMAIN f = Addresses
  /\ \A c \in Addresses : f[c] \in Seq(0..Window) /\ Len(f[c]) <= MaxAttempts

LEMMA TypeParts ==
  /\ AccountsTypeOK <=>
       /\ DOMAIN accounts \subseteq Names /\ \A n \in DOMAIN accounts : accounts[n] \in Account
       /\ env \in BOOLEAN /\ secret \in BOOLEAN /\ run \in 1..(MaxRestarts + 1)
       /\ cookie \in Cookies /\ FailsAreFew(fails) /\ removed \subseteq Names
  /\ AccountsTypeOK' <=>
       /\ DOMAIN accounts' \subseteq Names /\ \A n \in DOMAIN accounts' : accounts'[n] \in Account
       /\ env' \in BOOLEAN /\ secret' \in BOOLEAN /\ run' \in 1..(MaxRestarts + 1)
       /\ cookie' \in Cookies /\ FailsAreFew(fails') /\ removed' \subseteq Names
  BY DEF AccountsTypeOK, Account, Cookies, FailsAreFew, Addresses

LEMMA RecentIsShort ==
  ASSUME FailsAreFew(fails), NEW c \in Addresses
  PROVE  /\ Recent(c) \in Seq(0..Window) /\ Len(Recent(c)) <= MaxAttempts
         /\ ~Throttled(c) => /\ Append(Recent(c), 0) \in Seq(0..Window)
                             /\ Len(Append(Recent(c), 0)) <= MaxAttempts
<1>1. fails[c] \in Seq(0..Window) /\ Len(fails[c]) <= MaxAttempts
  BY DEF FailsAreFew
<1>2. Recent(c) \in Seq(0..Window) /\ Len(Recent(c)) <= Len(fails[c])
  BY <1>1, KeptFacts DEF Recent
<1> DEFINE r == Recent(c)
<1>3. r \in Seq(0..Window) /\ Len(r) \in Nat /\ Len(fails[c]) \in Nat /\ Len(r) <= Len(fails[c])
  BY <1>1, <1>2
<1>4. Throttled(c) <=> Len(r) >= MaxAttempts
  BY DEF Throttled
<1> HIDE DEF r
<1>5. Append(r, 0) \in Seq(0..Window) /\ Len(Append(r, 0)) = Len(r) + 1
  BY <1>3
<1>6. QED
  BY <1>1, <1>3, <1>4, <1>5 DEF r

LEMMA FailsChange ==
  ASSUME FailsAreFew(fails), NEW c \in Addresses, NEW s \in Seq(0..Window), Len(s) <= MaxAttempts
  PROVE  FailsAreFew([fails EXCEPT ![c] = s])
  BY DEF FailsAreFew

LEMMA AddressOf == ASSUME NEW b \in Browsers PROVE Addr[b] \in Addresses
  BY DEF Addresses

LEMMA KeyType == run \in 1..(MaxRestarts + 1) => Key \in 0..(MaxRestarts + 1)
  BY DEF Key

LEMMA LoginTypes ==
  ASSUME AccountsInv, NEW b \in Browsers, NEW t \in Typed, NEW pw \in Passwords, Login(b, t, pw)
  PROVE  cookie' \in Cookies /\ FailsAreFew(fails')
<1> DEFINE c == Addr[b]
<1>1. FailsAreFew(fails) /\ cookie \in Cookies /\ Key \in 0..(MaxRestarts + 1) /\ Normal[t] \in Names
  BY TypeParts, KeyType DEF AccountsInv
<1>2. c \in Addresses
  BY AddressOf
<1>3. \/ fails' = [fails EXCEPT ![c] = Recent(c)] /\ cookie' = cookie
      \/ /\ fails' = [fails EXCEPT ![c] = <<>>]
         /\ cookie' = [cookie EXCEPT ![b] = [user |-> Normal[t], age |-> 0, key |-> Key]]
      \/ fails' = [fails EXCEPT ![c] = Append(Recent(c), 0)] /\ cookie' = cookie /\ ~Throttled(c)
  BY DEF Login
<1> HIDE DEF c
<1>4. FailsAreFew(fails')
  <2>1. <<>> \in Seq(0..Window) /\ Len(<<>>) <= MaxAttempts
    OBVIOUS
  <2>2. Recent(c) \in Seq(0..Window) /\ Len(Recent(c)) <= MaxAttempts
    BY <1>1, <1>2, RecentIsShort, Zenon
  <2>3. ~Throttled(c) => /\ Append(Recent(c), 0) \in Seq(0..Window)
                         /\ Len(Append(Recent(c), 0)) <= MaxAttempts
    BY <1>1, <1>2, RecentIsShort, Zenon
  <2>4. FailsAreFew([fails EXCEPT ![c] = <<>>]) /\ FailsAreFew([fails EXCEPT ![c] = Recent(c)])
    BY <1>1, <1>2, <2>1, <2>2, FailsChange, Zenon
  <2>5. ~Throttled(c) => FailsAreFew([fails EXCEPT ![c] = Append(Recent(c), 0)])
    BY <1>1, <1>2, <2>3, FailsChange, Zenon
  <2>6. QED
    BY <1>3, <2>4, <2>5
<1>5. cookie' \in Cookies
  <2> DEFINE new == [user |-> Normal[t], age |-> 0, key |-> Key]
  <2>1. new \in [user : Names, age : 0..(MaxAge + 1), key : 0..(MaxRestarts + 1)]
    BY <1>1
  <2>2. cookie' = cookie \/ cookie' = [cookie EXCEPT ![b] = new]
    BY <1>3
  <2> HIDE DEF new
  <2>3. QED
    BY <1>1, <2>1, <2>2 DEF Cookies
<1>6. QED
  BY <1>4, <1>5

LEMMA TickTypes ==
  ASSUME AccountsInv, Tick
  PROVE  cookie' \in Cookies /\ FailsAreFew(fails')
<1>1. FailsAreFew(fails) /\ cookie \in Cookies
  BY TypeParts DEF AccountsInv
<1>2. cookie' \in Cookies
  <2> DEFINE old(b) == cookie[b]
  <2> DEFINE older(b) == [cookie[b] EXCEPT !.age = IF @ > MaxAge THEN @ ELSE @ + 1]
  <2>1. cookie' = [b \in Browsers |-> older(b)]
    BY DEF Tick
  <2>2. ASSUME NEW b \in Browsers
        PROVE  older(b) \in [user : Names, age : 0..(MaxAge + 1), key : 0..(MaxRestarts + 1)]
    <3>1. cookie[b] \in [user : Names, age : 0..(MaxAge + 1), key : 0..(MaxRestarts + 1)]
      BY <1>1 DEF Cookies
    <3>2. (IF cookie[b].age > MaxAge THEN cookie[b].age ELSE cookie[b].age + 1) \in 0..(MaxAge + 1)
      BY <3>1
    <3>3. QED
      BY <3>1, <3>2
  <2> HIDE DEF older
  <2>3. QED
    BY <2>1, <2>2 DEF Cookies
<1>3. FailsAreFew(fails')
  <2> DEFINE older(c) == [i \in DOMAIN fails[c] |->
                            IF fails[c][i] >= Window THEN Window ELSE fails[c][i] + 1]
  <2>1. fails' = [c \in Addresses |-> older(c)]
    BY DEF Tick
  <2>2. ASSUME NEW c \in Addresses PROVE older(c) \in Seq(0..Window) /\ Len(older(c)) <= MaxAttempts
    <3>1. fails[c] \in Seq(0..Window) /\ Len(fails[c]) <= MaxAttempts
      BY <1>1 DEF FailsAreFew
    <3>2. \A i \in 1..Len(fails[c]) :
            (IF fails[c][i] >= Window THEN Window ELSE fails[c][i] + 1) \in 0..Window
      <4>1. ASSUME NEW i \in 1..Len(fails[c]) PROVE fails[c][i] \in 0..Window
        BY <3>1
      <4>2. QED
        BY <4>1
    <3>3. older(c) \in [1..Len(fails[c]) -> 0..Window]
      BY <3>1, <3>2
    <3> HIDE DEF older
    <3>4. Len(fails[c]) \in Nat
      BY <3>1
    <3>5. older(c) \in Seq(0..Window) /\ Len(older(c)) = Len(fails[c])
      BY <3>3, <3>4
    <3>6. QED
      BY <3>1, <3>5
  <2> HIDE DEF older
  <2>3. QED
    BY <2>1, <2>2 DEF FailsAreFew
<1>4. QED
  BY <1>2, <1>3

LEMMA InitAccounts == AccountsInit => AccountsInv
<1> SUFFICES ASSUME AccountsInit PROVE AccountsInv
  OBVIOUS
<1>1. TableInv
  BY InitTable
<1>2. FailsAreFew(fails)
  BY DEF AccountsInit, FailsAreFew
<1>3. cookie \in Cookies
  BY DEF AccountsInit, NoCookie, Cookies
<1>4. QED
  BY <1>1, <1>2, <1>3, TypeParts, TableInvIsGood DEF AccountsInit, AccountsInv, GoodTable

LEMMA NextAccounts == AccountsInv /\ [AccountsNext]_accountVars => AccountsInv'
<1> SUFFICES ASSUME AccountsInv, [AccountsNext]_accountVars PROVE AccountsInv'
  OBVIOUS
<1>1. TableInv'
  BY NextTable DEF AccountsInv
<1>2. DOMAIN accounts' \subseteq Names /\ \A n \in DOMAIN accounts' : accounts'[n] \in Account
  BY <1>1, TableInvIsGood DEF GoodTable
<1>3. /\ env \in BOOLEAN /\ secret \in BOOLEAN /\ run \in 1..(MaxRestarts + 1)
      /\ cookie \in Cookies /\ FailsAreFew(fails) /\ removed \subseteq Names
  BY TypeParts DEF AccountsInv
<1> DEFINE Typed1 ==
      /\ env' \in BOOLEAN /\ secret' \in BOOLEAN /\ run' \in 1..(MaxRestarts + 1)
      /\ cookie' \in Cookies /\ FailsAreFew(fails') /\ removed' \subseteq Names
<1>4. ASSUME NEW b \in Browsers, Logout(b) \/ Request(b) PROVE Typed1
  <2>1. UNCHANGED <<env, secret, run, fails, removed>>
    BY <1>4 DEF Logout, Request
  <2>2. cookie' \in Cookies
    <3>1. NoCookie \in [user : Names, age : 0..(MaxAge + 1), key : 0..(MaxRestarts + 1)]
      BY DEF NoCookie
    <3>2. cookie' = cookie \/ cookie' = [cookie EXCEPT ![b] = NoCookie]
      BY <1>4 DEF Logout, Request
    <3>3. QED
      BY <1>3, <3>1, <3>2 DEF Cookies
  <2>3. QED
    BY <1>3, <2>1, <2>2
<1>5. ASSUME NEW b \in Browsers, NEW t \in Typed, NEW pw \in Passwords, Login(b, t, pw) PROVE Typed1
  <2>1. UNCHANGED <<env, secret, run, removed>>
    BY <1>5 DEF Login
  <2>2. cookie' \in Cookies /\ FailsAreFew(fails')
    BY <1>5, LoginTypes
  <2>3. QED
    BY <1>3, <2>1, <2>2
<1>6. ASSUME NEW b \in Browsers, NEW t \in Typed, NEW pw \in Passwords, NEW admin \in BOOLEAN,
             AddUser(b, t, pw, admin) \/ SetPassword(b, t, pw) \/ SetAdmin(b, t, admin) \/ DeleteUser(b, t)
      PROVE  Typed1
  <2>1. UNCHANGED <<env, secret, run, cookie, fails>>
    BY <1>6 DEF AddUser, SetPassword, SetAdmin, DeleteUser
  <2>2. removed' \subseteq Names
    BY <1>3, <1>6 DEF AddUser, SetPassword, SetAdmin, DeleteUser
  <2>3. QED
    BY <1>3, <2>1, <2>2
<1>7. ASSUME Tick PROVE Typed1
  <2>1. UNCHANGED <<env, secret, run, removed>>
    BY <1>7 DEF Tick
  <2>2. QED
    BY <1>3, <1>7, <2>1, TickTypes
<1>8. ASSUME Restart PROVE Typed1
  <2>1. /\ UNCHANGED <<secret, cookie, removed>> /\ env' \in BOOLEAN
        /\ run' = run + 1 /\ run <= MaxRestarts /\ fails' = [c \in Addresses |-> <<>>]
    BY <1>8 DEF Restart
  <2>2. FailsAreFew(fails')
    BY <2>1 DEF FailsAreFew
  <2>3. run' \in 1..(MaxRestarts + 1)
    BY <1>3, <2>1
  <2>4. QED
    BY <1>3, <2>1, <2>2, <2>3
<1>9. ASSUME UNCHANGED accountVars PROVE Typed1
  BY <1>3, <1>9 DEF accountVars
<1>10. Typed1
  <2> HIDE DEF Typed1
  <2>1. EnvPassword \in Passwords /\ TRUE \in BOOLEAN
    OBVIOUS
  <2>2. ASSUME NEW b \in Browsers, NEW t \in Typed, DeleteUser(b, t) PROVE Typed1
    BY <1>6, <2>1, <2>2
  <2>3. ASSUME NEW b \in Browsers, NEW t \in Typed, NEW admin \in BOOLEAN, SetAdmin(b, t, admin)
        PROVE  Typed1
    BY <1>6, <2>1, <2>3
  <2>4. ASSUME NEW b \in Browsers, NEW t \in Typed, NEW pw \in Passwords, SetPassword(b, t, pw)
        PROVE  Typed1
    BY <1>6, <2>1, <2>4
  <2>5. QED
    BY <1>4, <1>5, <1>6, <1>7, <1>8, <1>9, <2>2, <2>3, <2>4 DEF AccountsNext
<1>11. AccountsTypeOK'
  BY <1>2, <1>10, TypeParts
<1>12. QED
  BY <1>1, <1>11 DEF AccountsInv

(* All that is promised of the accounts: the table of users, and that no      *)
(* address has more failed logins against it than the limit, so that the      *)
(* window alone ends a lockout (note_failure, is_throttled).                   *)
THEOREM AccountsKept == AccountsSpec => []AccountsInv
<1>1. AccountsInit => AccountsInv
  BY InitAccounts
<1>2. AccountsInv /\ [AccountsNext]_accountVars => AccountsInv'
  BY NextAccounts
<1>3. QED
  BY <1>1, <1>2, PTL DEF AccountsSpec

HIDE AccountsAssumption

-----------------------------------------------------------------------------
(***************************************************************************)
(* Settings: the cache and the table.                                      *)
(***************************************************************************)
AllReq == [op : {"none", "get", "set"}, user : People,
           at : {"idle", "read", "fill", "write"}, val : Values \cup {NotSet}]

KeyTypes ==
  /\ db \in [Scopes -> Values \cup {NotSet}]
  /\ cache \in [Scopes -> [has : BOOLEAN, val : Values \cup {NotSet}]]
  /\ req \in [Callers -> AllReq]
  /\ saved \in [OwnKeys -> Values \cup {NotSet}]
  /\ raced \subseteq People /\ broken \subseteq People /\ failures \in 0..MaxFails

KeyInv == KeyTypes /\ RequestsAreShaped /\ TableHasSaved /\ CacheFollowsTable

(* CacheFollowsTable of one person, of the requests r, the cache c and the    *)
(* table d.                                                                  *)
Agrees(u, r, c, d) ==
  /\ \A t \in Callers : r[t].op = "set" /\ r[t].user = u =>
       /\ c[Scope(u)] = Holds(r[t].val)
       /\ \A w \in Callers \ {t} : r[w].op = "none" \/ r[w].user # u
  /\ \A t \in Callers : r[t].op = "get" /\ r[t].user = u /\ r[t].at = "fill" => r[t].val = d[Scope(u)]
  /\ c[Scope(u)].has /\ c[Scope(u)].val # d[Scope(u)] =>
       \E t \in Callers : r[t].op = "set" /\ r[t].user = u

Shaped(r) ==
  /\ r.op = "none" => r = NoRequest
  /\ r.op = "get" <=> r.at \in {"read", "fill"}
  /\ r.op = "set" <=> r.at = "write"

LEMMA KeyParts ==
  /\ CacheFollowsTable <=> \A u \in People \ (raced \cup broken) : Agrees(u, req, cache, db)
  /\ CacheFollowsTable' <=> \A u \in People \ (raced' \cup broken') : Agrees(u, req', cache', db')
  /\ RequestsAreShaped <=> \A t \in Callers : Shaped(req[t])
  /\ RequestsAreShaped' <=> \A t \in Callers : Shaped(req'[t])
<1>1. CacheFollowsTable <=> \A u \in People \ (raced \cup broken) : Agrees(u, req, cache, db)
  BY Zenon DEF CacheFollowsTable, Agrees, Serves
<1>2. CacheFollowsTable' <=> \A u \in People \ (raced' \cup broken') : Agrees(u, req', cache', db')
  BY Zenon DEF CacheFollowsTable, Agrees, Serves, Scope, Holds
<1>3. RequestsAreShaped <=> \A t \in Callers : Shaped(req[t])
  BY DEF RequestsAreShaped, Shaped
<1>4. RequestsAreShaped' <=> \A t \in Callers : Shaped(req'[t])
  BY DEF RequestsAreShaped, Shaped, NoRequest
<1>5. QED
  BY <1>1, <1>2, <1>3, <1>4

LEMMA ScopeFacts ==
  /\ Scopes = OwnKeys
  /\ \A u \in People : Scope(u) \in Scopes /\ Scope(u) = <<u, Setting>>
  /\ \A u, v \in People : Scope(u) = Scope(v) => u = v
  BY DEF Scopes, Scope, OwnKeys

LEMMA NoRequestType == SettingsAssumption => NoRequest \in AllReq /\ Shaped(NoRequest)
  BY DEF SettingsAssumption, NoRequest, AllReq, Shaped, NotSet

(* A request of one person leaves the others' keys as they are.               *)
LEMMA OthersAgree ==
  ASSUME NEW r, NEW r2, NEW c, NEW c2, NEW d, NEW d2, NEW v \in People, NEW t \in Callers,
         Agrees(v, r, c, d), \A w \in Callers \ {t} : r2[w] = r[w],
         r[t].op = "none" \/ r[t].user # v, r2[t].op = "none" \/ r2[t].user # v,
         c2[Scope(v)] = c[Scope(v)], d2[Scope(v)] = d[Scope(v)]
  PROVE  Agrees(v, r2, c2, d2)
  BY DEF Agrees

LEMMA InitKeys == SettingsAssumption /\ SettingsInit => KeyInv
<1> SUFFICES ASSUME SettingsAssumption, SettingsInit PROVE KeyInv
  OBVIOUS
<1>1. \A t \in Callers : req[t] = NoRequest
  BY DEF SettingsInit
<1>2. NoRequest \in AllReq /\ Shaped(NoRequest) /\ NoRequest.op = "none"
  BY NoRequestType DEF NoRequest
<1>3. KeyTypes
  BY <1>2 DEF SettingsInit, KeyTypes, SettingsAssumption, Missing
<1>4. RequestsAreShaped
  BY <1>1, <1>2, KeyParts
<1>5. TableHasSaved
  BY ScopeFacts DEF SettingsInit, TableHasSaved
<1>6. ASSUME NEW u \in People PROVE Agrees(u, req, cache, db)
  <2>1. cache[Scope(u)] = Missing
    BY ScopeFacts DEF SettingsInit
  <2>2. QED
    BY <1>1, <1>2, <2>1 DEF Agrees, Missing
<1>7. CacheFollowsTable
  BY <1>6, KeyParts
<1>8. QED
  BY <1>3, <1>4, <1>5, <1>7 DEF KeyInv

LEMMA GetStartKeeps ==
  ASSUME SettingsAssumption, KeyInv, NEW t \in Callers, NEW u \in People, GetStart(t, u)
  PROVE  KeyInv'
<1> DEFINE new == [op |-> "get", user |-> u, at |-> "read", val |-> NotSet]
<1>1. /\ req[t] = NoRequest /\ UNCHANGED <<db, cache, saved, broken, failures>>
      /\ \/ UNCHANGED <<req, raced>>
         \/ /\ ~cache[Scope(u)].has /\ req' = [req EXCEPT ![t] = new] /\ raced' = Marked(u, "get")
  BY DEF GetStart
<1>2. CASE UNCHANGED <<req, raced>>
  BY <1>1, <1>2 DEF KeyInv, KeyTypes, RequestsAreShaped, TableHasSaved, CacheFollowsTable, Serves
<1>3. CASE ~cache[Scope(u)].has /\ req' = [req EXCEPT ![t] = new] /\ raced' = Marked(u, "get")
  <2>1. new \in AllReq /\ Shaped(new) /\ new.op = "get" /\ new.user = u /\ new.at = "read"
    BY DEF AllReq, Shaped, NotSet
  <2> HIDE DEF new
  <2>2. req' \in [Callers -> AllReq] /\ req'[t] = new /\ \A w \in Callers \ {t} : req'[w] = req[w]
    BY <1>3, <2>1 DEF KeyInv, KeyTypes
  <2>3. KeyTypes'
    <3>1. raced' \subseteq People
      BY <1>3 DEF Marked, KeyInv, KeyTypes
    <3>2. QED
      BY <1>1, <2>2, <3>1 DEF KeyInv, KeyTypes, Scopes, Scope, OwnKeys
  <2>4. RequestsAreShaped'
    BY <2>1, <2>2, KeyParts DEF KeyInv
  <2>5. TableHasSaved'
    BY <1>1 DEF KeyInv, TableHasSaved
  <2>6. ASSUME NEW v \in People \ (raced' \cup broken') PROVE Agrees(v, req', cache', db')
    <3>1. v \notin raced \cup broken
      BY <1>1, <1>3, <2>6 DEF Marked
    <3>2. Agrees(v, req, cache, db)
      BY <3>1, KeyParts DEF KeyInv
    <3>3. CASE v # u
      <4>1. req[t].op = "none" \/ req[t].user # v
        BY <1>1 DEF NoRequest
      <4>2. req'[t].op = "none" \/ req'[t].user # v
        BY <2>1, <2>2, <3>3
      <4>3. cache'[Scope(v)] = cache[Scope(v)] /\ db'[Scope(v)] = db[Scope(v)]
        BY <1>1
      <4>4. QED
        BY <2>2, <3>2, <4>1, <4>2, <4>3, OthersAgree
    <3>4. CASE v = u
      <4>1. \A w \in Callers : ~(req[w].op = "set" /\ req[w].user = u)
        BY <1>3, <3>4 DEF Marked, Overlaps
      <4>2. \A w \in Callers : ~(req'[w].op = "set" /\ req'[w].user = u)
        BY <2>1, <2>2, <4>1
      <4>3. ASSUME NEW w \in Callers, req'[w].op = "get" /\ req'[w].user = u /\ req'[w].at = "fill"
            PROVE  req'[w].val = db'[Scope(u)]
        BY <1>1, <2>1, <2>2, <3>2, <3>4, <4>3 DEF Agrees
      <4>4. QED
        BY <1>1, <1>3, <3>4, <4>2, <4>3 DEF Agrees
    <3>5. QED
      BY <3>3, <3>4
  <2>7. CacheFollowsTable'
    BY <2>6, KeyParts
  <2>8. QED
    BY <2>3, <2>4, <2>5, <2>7 DEF KeyInv
<1>4. QED
  BY <1>1, <1>2, <1>3

LEMMA GetReadKeeps ==
  ASSUME SettingsAssumption, KeyInv, NEW t \in Callers, GetRead(t)
  PROVE  KeyInv'
<1> DEFINE u == req[t].user
<1> DEFINE new == [req[t] EXCEPT !.at = "fill", !.val = db[Scope(u)]]
<1>1. /\ req[t].at = "read" /\ UNCHANGED <<db, cache, saved, raced, broken, failures>>
      /\ req' = [req EXCEPT ![t].at = "fill", ![t].val = db[Scope(req[t].user)]]
  BY DEF GetRead
<1>2. req[t] \in AllReq /\ u \in People /\ Shaped(req[t])
  BY KeyParts DEF KeyInv, KeyTypes, AllReq
<1>3. req[t].op = "get"
  BY <1>1, <1>2 DEF Shaped
<1>4. db[Scope(u)] \in Values \cup {NotSet}
  BY <1>2, ScopeFacts DEF KeyInv, KeyTypes
<1>5. /\ new \in AllReq /\ new.op = "get" /\ new.user = u /\ new.at = "fill" /\ new.val = db[Scope(u)]
  BY <1>2, <1>3, <1>4 DEF AllReq
<1>6. Shaped(new)
  BY <1>5 DEF Shaped
<1>7. req' = [req EXCEPT ![t] = new]
  BY <1>1, <1>2 DEF KeyInv, KeyTypes, AllReq
<1> HIDE DEF new
<1>8. req' \in [Callers -> AllReq] /\ req'[t] = new /\ \A w \in Callers \ {t} : req'[w] = req[w]
  BY <1>5, <1>7 DEF KeyInv, KeyTypes
<1>9. KeyTypes'
  BY <1>1, <1>8 DEF KeyInv, KeyTypes, Scopes, Scope, OwnKeys
<1>10. RequestsAreShaped'
  BY <1>6, <1>8, KeyParts DEF KeyInv
<1>11. TableHasSaved'
  BY <1>1 DEF KeyInv, TableHasSaved
<1>12. ASSUME NEW v \in People \ (raced' \cup broken') PROVE Agrees(v, req', cache', db')
  <2>1. Agrees(v, req, cache, db)
    BY <1>1, KeyParts DEF KeyInv
  <2>2. \A w \in Callers : req'[w].op = req[w].op /\ req'[w].user = req[w].user
    BY <1>3, <1>5, <1>8
  <2>3. \A w \in Callers : req'[w].op = "set" => req'[w] = req[w]
    BY <1>3, <1>5, <1>8
  <2>4. \A w \in Callers : req'[w].op = "get" /\ req'[w].user = v /\ req'[w].at = "fill"
                             => req'[w].val = db[Scope(v)]
    BY <1>5, <1>8, <2>1 DEF Agrees
  <2>5. ASSUME NEW w \in Callers, req'[w].op = "set" /\ req'[w].user = v
        PROVE  /\ cache'[Scope(v)] = Holds(req'[w].val)
               /\ \A x \in Callers \ {w} : req'[x].op = "none" \/ req'[x].user # v
    <3>1. req[w].op = "set" /\ req[w].user = v /\ req'[w] = req[w] /\ cache' = cache
      BY <1>1, <2>2, <2>3, <2>5
    <3>2. cache[Scope(v)] = Holds(req[w].val) /\ \A x \in Callers \ {w} : req[x].op = "none" \/ req[x].user # v
      BY <2>1, <3>1, Zenon DEF Agrees
    <3>3. QED
      BY <2>2, <3>1, <3>2
  <2>6. cache[Scope(v)].has /\ cache[Scope(v)].val # db[Scope(v)] =>
          \E w \in Callers : req'[w].op = "set" /\ req'[w].user = v
    BY <2>1, <2>2 DEF Agrees
  <2>7. db' = db /\ cache' = cache
    BY <1>1
  <2>8. QED
    BY <2>4, <2>5, <2>6, <2>7, Zenon DEF Agrees
<1>13. CacheFollowsTable'
  BY <1>12, KeyParts
<1>14. QED
  BY <1>9, <1>10, <1>11, <1>13 DEF KeyInv

LEMMA GetFillKeeps ==
  ASSUME SettingsAssumption, KeyInv, NEW t \in Callers, GetFill(t)
  PROVE  KeyInv'
<1> DEFINE u == req[t].user
<1>1. /\ req[t].at = "fill" /\ UNCHANGED <<db, saved, raced, broken, failures>>
      /\ cache' = [cache EXCEPT ![Scope(u)] = Holds(req[t].val)]
      /\ req' = [req EXCEPT ![t] = NoRequest]
  BY DEF GetFill
<1>2. req[t] \in AllReq /\ u \in People /\ Shaped(req[t]) /\ req[t].val \in Values \cup {NotSet}
  BY KeyParts DEF KeyInv, KeyTypes, AllReq
<1>3. req[t].op = "get"
  BY <1>1, <1>2 DEF Shaped
<1>4. NoRequest \in AllReq /\ Shaped(NoRequest) /\ NoRequest.op = "none"
  BY NoRequestType DEF NoRequest
<1>5. req' \in [Callers -> AllReq] /\ req'[t] = NoRequest /\ \A w \in Callers \ {t} : req'[w] = req[w]
  BY <1>1, <1>4 DEF KeyInv, KeyTypes
<1>6. /\ cache' \in [Scopes -> [has : BOOLEAN, val : Values \cup {NotSet}]]
      /\ cache'[Scope(u)] = Holds(req[t].val)
      /\ \A v \in People \ {u} : cache'[Scope(v)] = cache[Scope(v)]
  <2>1. Holds(req[t].val) \in [has : BOOLEAN, val : Values \cup {NotSet}]
    BY <1>2 DEF Holds
  <2>2. cache \in [Scopes -> [has : BOOLEAN, val : Values \cup {NotSet}]]
    BY DEF KeyInv, KeyTypes
  <2>3. QED
    BY <1>1, <1>2, <2>1, <2>2, ScopeFacts
<1>7. KeyTypes'
  BY <1>1, <1>5, <1>6 DEF KeyInv, KeyTypes, Scopes, Scope, OwnKeys
<1>8. RequestsAreShaped'
  BY <1>4, <1>5, KeyParts DEF KeyInv
<1>9. TableHasSaved'
  BY <1>1 DEF KeyInv, TableHasSaved
<1>10. ASSUME NEW v \in People \ (raced' \cup broken') PROVE Agrees(v, req', cache', db')
  <2>1. Agrees(v, req, cache, db)
    BY <1>1, KeyParts DEF KeyInv
  <2>2. CASE v # u
    <3>1. cache'[Scope(v)] = cache[Scope(v)] /\ db'[Scope(v)] = db[Scope(v)]
      BY <1>1, <1>6, <2>2
    <3>2. req[t].user # v /\ req'[t].op = "none"
      BY <1>4, <1>5, <2>2
    <3>3. QED
      BY <1>5, <2>1, <3>1, <3>2, OthersAgree
  <2>3. CASE v = u
    <3>1. req[t].val = db[Scope(u)]
      BY <1>1, <1>3, <2>1, <2>3 DEF Agrees
    <3>2. \A w \in Callers : ~(req[w].op = "set" /\ req[w].user = u)
      BY <1>3, <2>1, <2>3 DEF Agrees
    <3>3. \A w \in Callers : ~(req'[w].op = "set" /\ req'[w].user = u)
      BY <1>4, <1>5, <3>2
    <3>4. ASSUME NEW w \in Callers, req'[w].op = "get" /\ req'[w].user = u /\ req'[w].at = "fill"
          PROVE  req'[w].val = db'[Scope(u)]
      BY <1>1, <1>4, <1>5, <2>1, <2>3, <3>4 DEF Agrees
    <3>5. cache'[Scope(u)].val = db'[Scope(u)]
      BY <1>1, <1>6, <3>1 DEF Holds
    <3>6. QED
      BY <2>3, <3>3, <3>4, <3>5 DEF Agrees
  <2>4. QED
    BY <2>2, <2>3
<1>11. CacheFollowsTable'
  BY <1>10, KeyParts
<1>12. QED
  BY <1>7, <1>8, <1>9, <1>11 DEF KeyInv

LEMMA SetCacheKeeps ==
  ASSUME SettingsAssumption, KeyInv, NEW t \in Callers, NEW u \in People, NEW x \in Values,
         SetCache(t, u, x)
  PROVE  KeyInv'
<1> DEFINE new == [op |-> "set", user |-> u, at |-> "write", val |-> x]
<1>1. /\ req[t] = NoRequest /\ UNCHANGED <<db, saved, broken, failures>>
      /\ cache' = [cache EXCEPT ![Scope(u)] = Holds(x)]
      /\ req' = [req EXCEPT ![t] = new] /\ raced' = Marked(u, "set")
  BY DEF SetCache
<1>2. new \in AllReq /\ Shaped(new) /\ new.op = "set" /\ new.user = u /\ new.val = x
  BY DEF AllReq, Shaped
<1> HIDE DEF new
<1>3. req' \in [Callers -> AllReq] /\ req'[t] = new /\ \A w \in Callers \ {t} : req'[w] = req[w]
  BY <1>1, <1>2 DEF KeyInv, KeyTypes
<1>4. /\ cache' \in [Scopes -> [has : BOOLEAN, val : Values \cup {NotSet}]]
      /\ cache'[Scope(u)] = Holds(x)
      /\ \A v \in People \ {u} : cache'[Scope(v)] = cache[Scope(v)]
  <2>1. Holds(x) \in [has : BOOLEAN, val : Values \cup {NotSet}]
    BY DEF Holds
  <2>2. cache \in [Scopes -> [has : BOOLEAN, val : Values \cup {NotSet}]]
    BY DEF KeyInv, KeyTypes
  <2>3. QED
    BY <1>1, <2>1, <2>2, ScopeFacts
<1>5. raced \subseteq raced' /\ raced' \subseteq People
  BY <1>1 DEF Marked, KeyInv, KeyTypes
<1>6. KeyTypes'
  BY <1>1, <1>3, <1>4, <1>5 DEF KeyInv, KeyTypes, Scopes, Scope, OwnKeys
<1>7. RequestsAreShaped'
  BY <1>2, <1>3, KeyParts DEF KeyInv
<1>8. TableHasSaved'
  BY <1>1 DEF KeyInv, TableHasSaved
<1>9. ASSUME NEW v \in People \ (raced' \cup broken') PROVE Agrees(v, req', cache', db')
  <2>1. Agrees(v, req, cache, db)
    BY <1>1, <1>5, KeyParts DEF KeyInv
  <2>2. CASE v # u
    <3>1. cache'[Scope(v)] = cache[Scope(v)] /\ db'[Scope(v)] = db[Scope(v)]
      BY <1>1, <1>4, <2>2
    <3>2. req[t].op = "none" /\ req'[t].user # v
      BY <1>1, <1>2, <1>3, <2>2 DEF NoRequest
    <3>3. QED
      BY <1>3, <2>1, <3>1, <3>2, OthersAgree
  <2>3. CASE v = u
    <3>1. \A w \in Callers : req[w].op = "none" \/ req[w].user # u
      BY <1>1, <2>3 DEF Marked, Overlaps
    <3>2. \A w \in Callers \ {t} : req'[w].op = "none" \/ req'[w].user # u
      BY <1>3, <3>1
    <3>3. ASSUME NEW w \in Callers, req'[w].op = "set" /\ req'[w].user = u
          PROVE  /\ cache'[Scope(u)] = Holds(req'[w].val)
                 /\ \A y \in Callers \ {w} : req'[y].op = "none" \/ req'[y].user # u
      <4>1. w = t
        BY <3>2, <3>3
      <4>2. QED
        BY <1>2, <1>3, <1>4, <3>2, <4>1
    <3>4. \A w \in Callers : ~(req'[w].op = "get" /\ req'[w].user = u)
      BY <1>2, <1>3, <3>2
    <3>5. req'[t].op = "set" /\ req'[t].user = u
      BY <1>2, <1>3
    <3>6. QED
      BY <2>3, <3>3, <3>4, <3>5, Zenon DEF Agrees
  <2>4. QED
    BY <2>2, <2>3
<1>10. CacheFollowsTable'
  BY <1>9, KeyParts
<1>11. QED
  BY <1>6, <1>7, <1>8, <1>10 DEF KeyInv

LEMMA SetTableKeeps ==
  ASSUME SettingsAssumption, KeyInv, NEW t \in Callers, SetTable(t)
  PROVE  KeyInv'
<1> DEFINE u == req[t].user
<1> DEFINE x == req[t].val
<1>1. /\ req[t].at = "write" /\ UNCHANGED <<cache, raced>> /\ req' = [req EXCEPT ![t] = NoRequest]
      /\ \/ /\ db' = [db EXCEPT ![Scope(u)] = x] /\ saved' = [saved EXCEPT ![<<u, Setting>>] = x]
            /\ UNCHANGED <<broken, failures>>
         \/ /\ failures < MaxFails /\ failures' = failures + 1
            /\ broken' = broken \cup {u} /\ UNCHANGED <<db, saved>>
  BY DEF SetTable
<1>2. req[t] \in AllReq /\ u \in People /\ Shaped(req[t]) /\ x \in Values \cup {NotSet}
  BY KeyParts DEF KeyInv, KeyTypes, AllReq
<1>3. req[t].op = "set"
  BY <1>1, <1>2 DEF Shaped
<1>4. NoRequest \in AllReq /\ Shaped(NoRequest) /\ NoRequest.op = "none"
  BY NoRequestType DEF NoRequest
<1>5. req' \in [Callers -> AllReq] /\ req'[t] = NoRequest /\ \A w \in Callers \ {t} : req'[w] = req[w]
  BY <1>1, <1>4 DEF KeyInv, KeyTypes
<1> HIDE DEF u, x
<1>6. /\ db' \in [Scopes -> Values \cup {NotSet}] /\ saved' \in [OwnKeys -> Values \cup {NotSet}]
      /\ \A v \in People \ {u} : db'[Scope(v)] = db[Scope(v)] /\ saved'[<<v, Setting>>] = saved[<<v, Setting>>]
      /\ (db'[Scope(u)] = x /\ saved'[<<u, Setting>>] = x) \/ (db' = db /\ saved' = saved)
  <2>1. db \in [Scopes -> Values \cup {NotSet}] /\ saved \in [Scopes -> Values \cup {NotSet}]
    BY ScopeFacts DEF KeyInv, KeyTypes
  <2>2. CASE UNCHANGED <<db, saved>>
    BY <2>1, <2>2, ScopeFacts
  <2>3. CASE db' = [db EXCEPT ![Scope(u)] = x] /\ saved' = [saved EXCEPT ![<<u, Setting>>] = x]
    <3>1. Scope(u) \in Scopes /\ <<u, Setting>> = Scope(u) /\ Scopes = OwnKeys
      BY <1>2, ScopeFacts
    <3>2. saved' = [saved EXCEPT ![Scope(u)] = x]
      BY <2>3, <3>1
    <3>3. \A v \in People \ {u} : Scope(v) \in Scopes /\ Scope(v) # Scope(u) /\ Scope(v) = <<v, Setting>>
      BY <1>2, ScopeFacts
    <3>4. \A k \in Scopes : k # Scope(u) => db'[k] = db[k] /\ saved'[k] = saved[k]
      BY <2>1, <2>3, <3>2
    <3>5. /\ db'[Scope(u)] = x /\ saved'[Scope(u)] = x
          /\ db' \in [Scopes -> Values \cup {NotSet}] /\ saved' \in [Scopes -> Values \cup {NotSet}]
      BY <1>2, <2>1, <2>3, <3>1, <3>2
    <3>6. \A v \in People \ {u} : db'[Scope(v)] = db[Scope(v)] /\ saved'[Scope(v)] = saved[Scope(v)]
      BY <3>3, <3>4
    <3>7. \A v \in People \ {u} : saved'[<<v, Setting>>] = saved[<<v, Setting>>]
      BY <3>3, <3>6
    <3>8. saved'[<<u, Setting>>] = x /\ saved' \in [OwnKeys -> Values \cup {NotSet}]
      BY <3>1, <3>5
    <3>9. QED
      BY <3>5, <3>6, <3>7, <3>8
  <2>4. QED
    BY <1>1, <2>2, <2>3
<1>7. /\ broken \subseteq broken' /\ broken' \subseteq People /\ failures' \in 0..MaxFails
      /\ u \in broken' \/ db'[Scope(u)] = x
  <2>1. CASE db' = [db EXCEPT ![Scope(u)] = x] /\ UNCHANGED <<broken, failures>>
    <3>1. db'[Scope(u)] = x
      BY <1>2, <2>1, ScopeFacts DEF KeyInv, KeyTypes
    <3>2. QED
      BY <2>1, <3>1 DEF KeyInv, KeyTypes
  <2>2. CASE failures < MaxFails /\ failures' = failures + 1 /\ broken' = broken \cup {u}
    BY <1>2, <2>2 DEF KeyInv, KeyTypes, SettingsAssumption
  <2>3. QED
    BY <1>1, <2>1, <2>2
<1>8. KeyTypes'
  BY <1>1, <1>5, <1>6, <1>7 DEF KeyInv, KeyTypes, Scopes, Scope, OwnKeys
<1>9. RequestsAreShaped'
  BY <1>4, <1>5, KeyParts DEF KeyInv
<1>10. TableHasSaved'
  <2>1. \A v \in People : db[Scope(v)] = saved[<<v, Setting>>]
    BY DEF KeyInv, TableHasSaved
  <2>2. ASSUME NEW v \in People PROVE db'[Scope(v)] = saved'[<<v, Setting>>]
    BY <1>6, <2>1
  <2>3. QED
    BY <2>2 DEF TableHasSaved, Scope
<1>11. ASSUME NEW v \in People \ (raced' \cup broken') PROVE Agrees(v, req', cache', db')
  <2>1. Agrees(v, req, cache, db)
    BY <1>1, <1>7, KeyParts DEF KeyInv
  <2>2. CASE v # u
    <3>1. cache'[Scope(v)] = cache[Scope(v)] /\ db'[Scope(v)] = db[Scope(v)]
      BY <1>1, <1>6, <2>2
    <3>2. req[t].user # v /\ req'[t].op = "none"
      BY <1>4, <1>5, <2>2 DEF u
    <3>3. QED
      BY <1>5, <2>1, <3>1, <3>2, OthersAgree
  <2>3. CASE v = u
    <3>1. /\ cache[Scope(u)] = Holds(x)
          /\ \A w \in Callers \ {t} : req[w].op = "none" \/ req[w].user # u
      BY <1>3, <2>1, <2>3 DEF Agrees, u, x
    <3>2. \A w \in Callers : req'[w].op = "none" \/ req'[w].user # u
      BY <1>4, <1>5, <3>1
    <3>3. cache'[Scope(u)].val = db'[Scope(u)]
      BY <1>1, <1>7, <2>3, <3>1 DEF Holds
    <3>4. QED
      BY <2>3, <3>2, <3>3 DEF Agrees
  <2>4. QED
    BY <2>2, <2>3
<1>12. CacheFollowsTable'
  BY <1>11, KeyParts
<1>13. QED
  BY <1>8, <1>9, <1>10, <1>12 DEF KeyInv

LEMMA RestartKeeps ==
  ASSUME SettingsAssumption, KeyInv, SettingsRestart
  PROVE  KeyInv'
<1>1. /\ UNCHANGED <<db, failures>> /\ cache' = [k \in Scopes |-> Missing]
      /\ req' = [t \in Callers |-> NoRequest] /\ raced' = {} /\ broken' = {}
      /\ saved' = [k \in OwnKeys |-> db[Scope(k[1])]]
  BY DEF SettingsRestart
<1>2. NoRequest \in AllReq /\ Shaped(NoRequest) /\ NoRequest.op = "none"
  BY NoRequestType DEF NoRequest
<1>3. \A t \in Callers : req'[t] = NoRequest
  BY <1>1
<1>4. \A u \in People : <<u, Setting>> \in OwnKeys /\ saved'[<<u, Setting>>] = db[Scope(u)]
  <2>1. ASSUME NEW u \in People PROVE <<u, Setting>> \in OwnKeys /\ <<u, Setting>>[1] = u
    BY DEF OwnKeys
  <2>2. QED
    BY <1>1, <2>1
<1>5. saved' \in [OwnKeys -> Values \cup {NotSet}]
  <2>1. ASSUME NEW k \in OwnKeys PROVE db[Scope(k[1])] \in Values \cup {NotSet}
    <3>1. k[1] \in People
      BY DEF OwnKeys
    <3>2. QED
      BY <3>1, ScopeFacts DEF KeyInv, KeyTypes
  <2>2. QED
    BY <1>1, <2>1
<1>6. cache' \in [Scopes -> [has : BOOLEAN, val : Values \cup {NotSet}]]
  BY <1>1 DEF Missing
<1>7. req' \in [Callers -> AllReq]
  BY <1>1, <1>2
<1>8. KeyTypes'
  BY <1>1, <1>5, <1>6, <1>7 DEF KeyInv, KeyTypes, Scopes, Scope, OwnKeys
<1>9. RequestsAreShaped'
  BY <1>2, <1>3, KeyParts
<1>10. TableHasSaved'
  BY <1>1, <1>4 DEF TableHasSaved, Scope
<1>11. ASSUME NEW u \in People PROVE Agrees(u, req', cache', db')
  <2>1. cache'[Scope(u)].has = FALSE
    BY <1>1, ScopeFacts DEF Missing
  <2>2. QED
    BY <1>2, <1>3, <2>1 DEF Agrees
<1>12. CacheFollowsTable'
  BY <1>11, KeyParts
<1>13. QED
  BY <1>8, <1>9, <1>10, <1>12 DEF KeyInv

LEMMA NextKeys == SettingsAssumption /\ KeyInv /\ [SettingsNext]_settingVars => KeyInv'
<1> SUFFICES ASSUME SettingsAssumption, KeyInv, [SettingsNext]_settingVars PROVE KeyInv'
  OBVIOUS
<1>1. ASSUME UNCHANGED <<db, cache, req, saved, raced, broken, failures>> PROVE KeyInv'
  BY <1>1 DEF KeyInv, KeyTypes, RequestsAreShaped, TableHasSaved, CacheFollowsTable, Serves
<1>2. CASE SettingRequests
  BY <1>2, GetStartKeeps, GetReadKeeps, GetFillKeeps, SetCacheKeeps, SetTableKeeps DEF SettingRequests
<1>3. CASE RecentFiles
  BY <1>1, <1>3 DEF RecentFiles, AddRecent, FileComesOrGoes, ClearRecent
<1>4. CASE SettingsRestart
  BY <1>4, RestartKeeps
<1>5. CASE UNCHANGED settingVars
  BY <1>1, <1>5 DEF settingVars
<1>6. QED
  BY <1>2, <1>3, <1>4, <1>5 DEF SettingsNext

(* When no request of a person is under way, nothing stands between the cache *)
(* and the table.                                                            *)
LEMMA KeysShow == KeyInv => SavedIsShown
<1> SUFFICES ASSUME KeyInv, NEW u \in People, u \notin raced \cup broken,
                    \A t \in Callers : req[t].user = u => req[t].op = "none"
             PROVE  /\ db[Scope(u)] = saved[<<u, Setting>>]
                    /\ cache[Scope(u)].has => cache[Scope(u)].val = saved[<<u, Setting>>]
  BY DEF SavedIsShown
<1>1. db[Scope(u)] = saved[<<u, Setting>>]
  BY DEF KeyInv, TableHasSaved
<1>2. Agrees(u, req, cache, db)
  BY KeyParts DEF KeyInv
<1>3. QED
  BY <1>1, <1>2 DEF Agrees

-----------------------------------------------------------------------------
(***************************************************************************)
(* Settings: the recent files.                                             *)
(***************************************************************************)
ListTypes ==
  /\ recent \in Seq(Paths) /\ Len(recent) <= MaxRecent /\ opened \in Seq(Paths)
  /\ present \subseteq Paths

ListInv == ListTypes /\ ListFollowsRuns

LEMMA Prepended ==
  ASSUME NEW S, NEW p \in S, NEW s \in Seq(S)
  PROVE  /\ <<p>> \o s \in Seq(S) /\ Len(<<p>> \o s) = Len(s) + 1 /\ (<<p>> \o s)[1] = p
         /\ \A i \in 1..Len(s) : (<<p>> \o s)[i + 1] = s[i]
         /\ \A i \in 2..(Len(s) + 1) : i - 1 \in 1..Len(s) /\ (<<p>> \o s)[i] = s[i - 1]
         /\ <<p>> \o s # <<>>
  OBVIOUS

LEMMA Cut ==
  ASSUME NEW S, NEW s \in Seq(S), NEW m \in 1..Len(s)
  PROVE  /\ SubSeq(s, 1, m) \in Seq(S) /\ Len(SubSeq(s, 1, m)) = m
         /\ \A i \in 1..m : SubSeq(s, 1, m)[i] = s[i]
         /\ SubSeq(s, 1, m) # <<>>
  OBVIOUS

(* The list of runs with the workbook now run moved to its front: distinct as *)
(* before, the others in the order they had.                                 *)
LEMMA MovedToFront ==
  ASSUME NEW p \in Paths, NEW s \in Seq(Paths), \A i, j \in 1..Len(s) : s[i] = s[j] => i = j
  PROVE  LET m == <<p>> \o Kept(s, Paths \ {p}) IN
         /\ m \in Seq(Paths) /\ m # <<>> /\ m[1] = p
         /\ \A i, j \in DOMAIN m : m[i] = m[j] => i = j
         /\ \A q \in Paths : (\E i \in 1..Len(s) : s[i] = q) => \E i \in DOMAIN m : m[i] = q
         /\ \A q \in Paths \ {p} : (\E i \in 1..Len(s) : s[i] = q) => Follows(m, p, q)
         /\ \A q, x \in Paths \ {p} : Follows(s, q, x) => Follows(m, q, x)
<1> DEFINE k == Kept(s, Paths \ {p})
<1> DEFINE m == <<p>> \o k
<1>1. k \in Seq(Paths)
  BY KeptFacts
<1>2. \A i, j \in 1..Len(k) : k[i] = k[j] => i = j
  BY <1>1, KeptDistinct
<1>3. ASSUME NEW i \in 1..Len(k) PROVE k[i] # p
  <2>1. i \in DOMAIN k
    BY <1>1
  <2>2. KeptInOrder(s, Paths \ {p})
    BY KeptFacts
  <2>3. k[i] \in Paths \ {p}
    BY <2>1, <2>2, Zenon DEF KeptInOrder
  <2>4. QED
    BY <2>3
<1>4. ASSUME NEW q \in Paths \ {p}, \E i \in 1..Len(s) : s[i] = q PROVE \E i \in 1..Len(k) : k[i] = q
  <2>1. PICK a \in 1..Len(s) : s[a] = q
    BY <1>4
  <2>2. s[a] \in Paths \ {p}
    BY <2>1
  <2>3. \E i \in DOMAIN k : k[i] = s[a]
    <3>1. KeptInOrder(s, Paths \ {p})
      BY KeptFacts
    <3>2. PICK i \in DOMAIN k : Chosen(s, Paths \ {p})[i] = a
      BY <2>2, <3>1, Zenon DEF KeptInOrder
    <3>3. k[i] = s[Chosen(s, Paths \ {p})[i]]
      BY <3>1, Zenon DEF KeptInOrder
    <3>4. QED
      BY <3>2, <3>3
  <2>4. QED
    BY <1>1, <2>1, <2>3
<1>5. \A q, x \in Paths \ {p} : Follows(s, q, x) => Follows(k, q, x)
  BY KeptFollows
<1> HIDE DEF k
<1>6. /\ m \in Seq(Paths) /\ Len(m) = Len(k) + 1 /\ m[1] = p /\ m # <<>>
      /\ \A i \in 1..Len(k) : m[i + 1] = k[i]
      /\ \A i \in 2..(Len(k) + 1) : i - 1 \in 1..Len(k) /\ m[i] = k[i - 1]
  BY <1>1, Prepended
<1>7. Len(k) \in Nat
  BY <1>1
<1> HIDE DEF m
<1>8. DOMAIN m = 1..(Len(k) + 1)
  BY <1>6
<1>9. ASSUME NEW i \in DOMAIN m, NEW j \in DOMAIN m, m[i] = m[j] PROVE i = j
  <2>1. (i = 1 \/ i \in 2..(Len(k) + 1)) /\ (j = 1 \/ j \in 2..(Len(k) + 1))
    BY <1>7, <1>8
  <2>2. CASE i = 1 /\ j = 1
    BY <2>2
  <2>3. CASE i = 1 /\ j \in 2..(Len(k) + 1)
    BY <1>3, <1>6, <1>9, <2>3
  <2>4. CASE j = 1 /\ i \in 2..(Len(k) + 1)
    BY <1>3, <1>6, <1>9, <2>4
  <2>5. CASE i \in 2..(Len(k) + 1) /\ j \in 2..(Len(k) + 1)
    <3>1. i - 1 \in 1..Len(k) /\ j - 1 \in 1..Len(k) /\ k[i - 1] = k[j - 1]
      BY <1>6, <1>9, <2>5
    <3>2. i - 1 = j - 1
      BY <1>2, <3>1
    <3>3. QED
      BY <1>7, <2>5, <3>2
  <2>6. QED
    BY <2>1, <2>2, <2>3, <2>4, <2>5
<1>10. \A i \in 1..Len(k) : i + 1 \in DOMAIN m /\ 1 < i + 1 /\ m[i + 1] = k[i]
  BY <1>6, <1>7, <1>8
<1>11. 1 \in DOMAIN m
  BY <1>7, <1>8
<1>12. ASSUME NEW q \in Paths \ {p}, \E i \in 1..Len(s) : s[i] = q PROVE Follows(m, p, q)
  <2>1. PICK i \in 1..Len(k) : k[i] = q
    BY <1>4, <1>12
  <2>2. QED
    BY <1>6, <1>10, <1>11, <2>1 DEF Follows
<1>13. ASSUME NEW q \in Paths \ {p}, NEW x \in Paths \ {p}, Follows(s, q, x) PROVE Follows(m, q, x)
  <2>1. PICK a \in 1..Len(k), b \in 1..Len(k) : a < b /\ k[a] = q /\ k[b] = x
    BY <1>1, <1>5, <1>13 DEF Follows
  <2>2. a + 1 < b + 1
    BY <1>7, <2>1
  <2>3. a + 1 \in DOMAIN m /\ b + 1 \in DOMAIN m /\ m[a + 1] = q /\ m[b + 1] = x
    BY <1>10, <2>1
  <2>4. QED
    BY <2>2, <2>3 DEF Follows
<1>14. ASSUME NEW q \in Paths, \E i \in 1..Len(s) : s[i] = q PROVE \E i \in DOMAIN m : m[i] = q
  <2>1. CASE q = p
    BY <1>6, <1>11, <2>1
  <2>2. CASE q # p
    BY <1>12, <1>14, <2>2 DEF Follows
  <2>3. QED
    BY <2>1, <2>2
<1>15. QED
  BY <1>6, <1>9, <1>12, <1>13, <1>14 DEF m, k

(* ListFollowsRuns of two lists.                                              *)
Follow(l, runs) ==
  /\ \A i, j \in DOMAIN runs : runs[i] = runs[j] => i = j
  /\ \A i \in DOMAIN l : \E j \in DOMAIN runs : runs[j] = l[i]
  /\ \A i, j \in DOMAIN l : i < j => Follows(runs, l[i], l[j])
  /\ runs # <<>> => l # <<>> /\ l[1] = runs[1]

LEMMA ListParts ==
  /\ ListFollowsRuns <=> Follow(recent, opened)
  /\ ListFollowsRuns' <=> Follow(recent', opened')
<1>1. \A f, g : Range(f) \subseteq Range(g) <=> \A i \in DOMAIN f : \E j \in DOMAIN g : g[j] = f[i]
  BY DEF Range
<1>2. ListFollowsRuns <=> Follow(recent, opened)
  BY <1>1, Zenon DEF ListFollowsRuns, Follow
<1>3. ListFollowsRuns' <=> Follow(recent', opened')
  BY <1>1, Zenon DEF ListFollowsRuns, Follow, Follows
<1>4. QED
  BY <1>2, <1>3

LEMMA AddRecentKeeps ==
  ASSUME SettingsAssumption, ListInv, NEW p \in Paths, AddRecent(p)
  PROVE  ListInv'
<1> DEFINE k == NotRecent(p)
<1> DEFINE all == <<p>> \o k
<1> DEFINE m == IF Len(all) > MaxRecent THEN MaxRecent ELSE Len(all)
<1>1. /\ recent' = SubSeq(all, 1, m) /\ opened' = <<p>> \o Kept(opened, Paths \ {p})
      /\ present' = present
  BY DEF AddRecent
<1>2. recent \in Seq(Paths) /\ opened \in Seq(Paths) /\ present \subseteq Paths /\ Follow(recent, opened)
  BY ListParts DEF ListInv, ListTypes
<1>3. k \in Seq(Paths)
  BY <1>2, KeptFacts DEF NotRecent
<1>4. ASSUME NEW i \in 1..Len(k)
      PROVE  k[i] \in Paths \ {p} /\ \E a \in 1..Len(opened) : opened[a] = k[i]
  <2>1. k[i] \in present \ {p} /\ \E a \in 1..Len(recent) : recent[a] = k[i]
    <3>1. i \in DOMAIN k
      BY <1>3
    <3>2. k = Kept(recent, present \ {p}) /\ recent \in Seq(Paths)
      BY <1>2 DEF NotRecent
    <3> HIDE DEF k
    <3>3. \A x \in DOMAIN Kept(recent, present \ {p}) :
            /\ Kept(recent, present \ {p})[x] \in present \ {p}
            /\ \E a \in 1..Len(recent) : recent[a] = Kept(recent, present \ {p})[x]
      <4>1. KeptInOrder(recent, present \ {p})
        BY <3>2, KeptFacts
      <4>2. QED
        BY <4>1, Zenon DEF KeptInOrder
    <3>4. QED
      BY <3>1, <3>2, <3>3
  <2>2. QED
    BY <1>2, <2>1 DEF Follow
<1>5. ASSUME NEW i \in 1..Len(k), NEW j \in 1..Len(k), i < j PROVE Follows(opened, k[i], k[j])
  <2>1. i \in DOMAIN k /\ j \in DOMAIN k
    BY <1>3
  <2>2. PICK a \in 1..Len(recent), b \in 1..Len(recent) : a < b /\ recent[a] = k[i] /\ recent[b] = k[j]
    BY <1>2, <1>5, <2>1, KeptOrder DEF NotRecent
  <2>3. QED
    BY <1>2, <2>2 DEF Follow
<1> HIDE DEF k
<1>6. /\ all \in Seq(Paths) /\ Len(all) = Len(k) + 1 /\ all[1] = p
      /\ \A i \in 2..(Len(k) + 1) : i - 1 \in 1..Len(k) /\ all[i] = k[i - 1]
  BY <1>3, Prepended
<1>7. Len(k) \in Nat /\ MaxRecent \in Nat \ {0}
  BY <1>3 DEF SettingsAssumption
<1> HIDE DEF all
<1>8. m \in 1..Len(all) /\ m <= MaxRecent
  BY <1>6, <1>7
<1> HIDE DEF m
<1>9. /\ recent' \in Seq(Paths) /\ Len(recent') = m /\ recent' # <<>>
      /\ \A i \in 1..m : recent'[i] = all[i]
  BY <1>1, <1>6, <1>8, Cut
<1>10. /\ opened' \in Seq(Paths) /\ opened' # <<>> /\ opened'[1] = p
       /\ \A i, j \in DOMAIN opened' : opened'[i] = opened'[j] => i = j
       /\ \A q \in Paths \ {p} : (\E i \in 1..Len(opened) : opened[i] = q) => Follows(opened', p, q)
       /\ \A q, x \in Paths \ {p} : Follows(opened, q, x) => Follows(opened', q, x)
  <2>1. \A i, j \in 1..Len(opened) : opened[i] = opened[j] => i = j
    BY <1>2 DEF Follow
  <2>2. QED
    BY <1>1, <1>2, <2>1, MovedToFront
<1>11. DOMAIN recent' = 1..m /\ m \in Nat /\ 1 \in DOMAIN recent' /\ recent'[1] = p
  BY <1>6, <1>7, <1>8, <1>9
<1>12. ASSUME NEW i \in 2..m PROVE i - 1 \in 1..Len(k) /\ recent'[i] = k[i - 1]
  BY <1>6, <1>7, <1>8, <1>9
<1>13. ASSUME NEW i \in DOMAIN recent', NEW j \in DOMAIN recent', i < j
       PROVE  Follows(opened', recent'[i], recent'[j])
  <2>1. j \in 2..m /\ (i = 1 \/ i \in 2..m)
    BY <1>11, <1>13
  <2>2. recent'[j] = k[j - 1] /\ j - 1 \in 1..Len(k)
    BY <1>12, <2>1
  <2>3. CASE i = 1
    BY <1>4, <1>10, <1>11, <2>2, <2>3
  <2>4. CASE i \in 2..m
    <3>1. recent'[i] = k[i - 1] /\ i - 1 \in 1..Len(k)
      BY <1>12, <2>4
    <3>2. i - 1 < j - 1
      BY <1>11, <1>13
    <3>3. Follows(opened, k[i - 1], k[j - 1])
      BY <1>5, <2>2, <3>1, <3>2
    <3>4. k[i - 1] \in Paths \ {p} /\ k[j - 1] \in Paths \ {p}
      BY <1>4, <2>2, <3>1
    <3>5. QED
      BY <1>10, <2>2, <3>1, <3>3, <3>4
  <2>5. QED
    BY <2>1, <2>3, <2>4
<1>14. ASSUME NEW i \in DOMAIN recent' PROVE \E j \in DOMAIN opened' : opened'[j] = recent'[i]
  <2>1. CASE i = 1
    <3>1. 1 \in DOMAIN opened'
      BY <1>10
    <3>2. QED
      BY <1>10, <1>11, <2>1, <3>1
  <2>2. CASE i # 1
    <3>1. 1 < i
      BY <1>11, <2>2
    <3>2. Follows(opened', recent'[1], recent'[i])
      BY <1>11, <1>13, <3>1
    <3>3. QED
      BY <3>2 DEF Follows
  <2>3. QED
    BY <2>1, <2>2
<1>15. Follow(recent', opened')
  BY <1>9, <1>10, <1>11, <1>13, <1>14 DEF Follow
<1>16. QED
  BY <1>1, <1>2, <1>8, <1>9, <1>10, <1>15, ListParts DEF ListInv, ListTypes

LEMMA InitList == SettingsAssumption /\ SettingsInit => ListInv
<1> SUFFICES ASSUME SettingsAssumption, SettingsInit PROVE ListInv
  OBVIOUS
<1>1. recent = <<>> /\ opened = <<>> /\ present = Paths
  BY DEF SettingsInit
<1>2. Follow(recent, opened)
  BY <1>1 DEF Follow
<1>3. QED
  BY <1>1, <1>2, ListParts DEF ListInv, ListTypes, SettingsAssumption

LEMMA NextList == SettingsAssumption /\ ListInv /\ [SettingsNext]_settingVars => ListInv'
<1> SUFFICES ASSUME SettingsAssumption, ListInv, [SettingsNext]_settingVars PROVE ListInv'
  OBVIOUS
<1>1. ASSUME UNCHANGED <<recent, opened, present>> PROVE ListInv'
  BY <1>1, ListParts DEF ListInv, ListTypes
<1>2. CASE SettingRequests
  BY <1>1, <1>2 DEF SettingRequests, GetStart, GetRead, GetFill, SetCache, SetTable, rest
<1>3. ASSUME NEW p \in Paths, FileComesOrGoes(p) PROVE ListInv'
  BY <1>3, ListParts DEF FileComesOrGoes, ListInv, ListTypes
<1>4. ASSUME ClearRecent PROVE ListInv'
  <2>1. recent' = <<>> /\ opened' = <<>> /\ present' = present
    BY <1>4 DEF ClearRecent
  <2>2. Follow(recent', opened')
    BY <2>1 DEF Follow
  <2>3. QED
    BY <2>1, <2>2, ListParts DEF ListInv, ListTypes, SettingsAssumption
<1>5. CASE SettingsRestart
  BY <1>1, <1>5 DEF SettingsRestart
<1>6. CASE UNCHANGED settingVars
  BY <1>1, <1>6 DEF settingVars
<1>7. QED
  BY <1>2, <1>3, <1>4, <1>5, <1>6, AddRecentKeeps DEF SettingsNext, RecentFiles

(* What is shown is the list without the workbooks that are gone.             *)
LEMMA ListShows == ListInv => RecentIsRecent
<1> SUFFICES ASSUME ListInv PROVE RecentIsRecent
  OBVIOUS
<1> DEFINE spot(p) == CHOOSE i \in DOMAIN opened : opened[i] = p
<1>1. recent \in Seq(Paths) /\ opened \in Seq(Paths) /\ Follow(recent, opened)
  BY ListParts DEF ListInv, ListTypes
<1>2. Shown \in Seq(Paths)
  BY <1>1, KeptFacts DEF Shown
<1>3. \A i \in DOMAIN opened : spot(opened[i]) = i
  BY <1>1 DEF Follow
<1>4. Range(Shown) \subseteq Range(opened)
  <2>1. ASSUME NEW i \in DOMAIN Shown PROVE \E j \in DOMAIN opened : opened[j] = Shown[i]
    <3>1. KeptInOrder(recent, present)
      BY <1>1, KeptFacts
    <3>2. PICK a \in 1..Len(recent) : recent[a] = Shown[i]
      BY <3>1, Zenon DEF KeptInOrder, Shown
    <3>3. QED
      BY <1>1, <3>2 DEF Follow
  <2>2. QED
    BY <2>1 DEF Range
<1>5. ASSUME NEW i \in DOMAIN Shown, NEW j \in DOMAIN Shown, i < j PROVE spot(Shown[i]) < spot(Shown[j])
  <2>1. PICK a \in 1..Len(recent), b \in 1..Len(recent) : a < b /\ recent[a] = Shown[i] /\ recent[b] = Shown[j]
    BY <1>1, <1>5, KeptOrder DEF Shown
  <2>2. Follows(opened, Shown[i], Shown[j])
    BY <1>1, <2>1 DEF Follow
  <2>3. PICK c \in DOMAIN opened, d \in DOMAIN opened : c < d /\ opened[c] = Shown[i] /\ opened[d] = Shown[j]
    BY <2>2 DEF Follows
  <2>4. spot(Shown[i]) = c /\ spot(Shown[j]) = d
    BY <1>3, <2>3
  <2>5. QED
    BY <2>3, <2>4
<1>6. ASSUME opened # <<>>, Head(opened) \in present PROVE Shown # <<>> /\ Head(Shown) = Head(opened)
  <2>1. recent # <<>> /\ recent[1] = opened[1] /\ Head(opened) = opened[1]
    BY <1>1, <1>6 DEF Follow
  <2>2. Kept(recent, present) # <<>> /\ Kept(recent, present)[1] = recent[1]
    BY <1>1, <1>6, <2>1, KeptFirst
  <2>3. QED
    BY <1>2, <2>1, <2>2 DEF Shown
<1>7. QED
  BY <1>4, <1>5, <1>6 DEF RecentIsRecent

-----------------------------------------------------------------------------
LEMMA SettingsParts ==
  SettingsAssumption =>
    (SettingsInv <=> KeyInv /\ ListInv /\ restarts \in 0..MaxReopens)
<1>1. SettingsTypeOK <=> KeyTypes /\ ListTypes /\ restarts \in 0..MaxReopens
  BY DEF SettingsTypeOK, KeyTypes, ListTypes, AllReq
<1>2. QED
  BY <1>1, KeysShow, ListShows DEF SettingsInv, KeyInv, ListInv

LEMMA SettingsStep ==
  SettingsAssumption /\ SettingsInv /\ [SettingsNext]_settingVars =>
    KeyInv' /\ ListInv' /\ restarts' \in 0..MaxReopens
<1> SUFFICES ASSUME SettingsAssumption, SettingsInv, [SettingsNext]_settingVars
             PROVE  KeyInv' /\ ListInv' /\ restarts' \in 0..MaxReopens
  OBVIOUS
<1>1. KeyInv /\ ListInv /\ restarts \in 0..MaxReopens
  BY SettingsParts
<1>2. restarts' = restarts \/ (restarts < MaxReopens /\ restarts' = restarts + 1)
  <2>1. ASSUME SettingRequests PROVE restarts' = restarts
    BY <2>1 DEF SettingRequests, GetStart, GetRead, GetFill, SetCache, SetTable, rest
  <2>2. ASSUME RecentFiles PROVE restarts' = restarts
    BY <2>2 DEF RecentFiles, AddRecent, FileComesOrGoes, ClearRecent
  <2>3. ASSUME SettingsRestart \/ UNCHANGED settingVars PROVE restarts' = restarts \/ (restarts < MaxReopens /\ restarts' = restarts + 1)
    <3>1. ASSUME UNCHANGED settingVars PROVE restarts' = restarts
      BY <3>1 DEF settingVars
    <3>2. ASSUME SettingsRestart PROVE restarts < MaxReopens /\ restarts' = restarts + 1
      BY <3>2, Zenon DEF SettingsRestart
    <3>3. QED
      BY <2>3, <3>1, <3>2
  <2>4. QED
    BY <2>1, <2>2, <2>3 DEF SettingsNext
<1>3. restarts' \in 0..MaxReopens
  BY <1>1, <1>2 DEF SettingsAssumption
<1>4. QED
  BY <1>1, <1>3, NextKeys, NextList

(* Whatever requests overlap, whatever writes fail and whenever the program   *)
(* ends: what a person saved is what they are shown and what is there at the  *)
(* next start, unless two of their requests met on the key or its write        *)
(* failed, and the recent files are those run last, the last first (repos.py). *)
THEOREM SettingsKept == SettingsSpec => []SettingsInv
<1> USE SettingsAssumption
<1>1. SettingsInit => KeyInv /\ ListInv /\ restarts \in 0..MaxReopens
  BY InitKeys, InitList DEF SettingsInit, SettingsAssumption
<1>2. SettingsInit => SettingsInv
  BY <1>1, SettingsParts
<1>3. SettingsInv /\ [SettingsNext]_settingVars => (KeyInv /\ ListInv /\ restarts \in 0..MaxReopens)'
  BY SettingsStep
<1>4. (KeyInv /\ ListInv /\ restarts \in 0..MaxReopens) => SettingsInv
  BY SettingsParts
<1>5. QED
  BY <1>2, <1>3, <1>4, PTL DEF SettingsSpec

-----------------------------------------------------------------------------
(***************************************************************************)
(* RunFolders.                                                             *)
(***************************************************************************)
USE RunFoldersAssumption

AtShape == [pc : {"idle", "file", "branch", "zip", "remove"}, idx : Nat,
            label : Labels \cup {<<>>}, dir : (Labels \X Nat) \cup {<<>>}, todo : SUBSET Branches]

(* Among "label", "label_2", ... one is free, and so there is a first.       *)
LEMMA FolderIsNew ==
  ASSUME IsFiniteSet(DOMAIN folders), NEW label
  PROVE  \E k \in Nat : DistinctDir(label) = <<label, k>> /\ <<label, k>> \notin DOMAIN folders
<1> DEFINE c == Cardinality(DOMAIN folders)
           free == {k \in 1..(c + 1) : <<label, k>> \notin DOMAIN folders}
<1>1. c \in Nat
  BY FS_CardinalityType
<1>2. free # {}
  <2> SUFFICES ASSUME free = {} PROVE FALSE
    OBVIOUS
  <2> DEFINE f == [k \in 1..(c + 1) |-> <<label, k>>]
  <2>1. f \in [1..(c + 1) -> DOMAIN folders]
    OBVIOUS
  <2>2. IsFiniteSet(1..(c + 1)) /\ Cardinality(1..(c + 1)) = c + 1
    BY <1>1, FS_Interval
  <2>3. c < c + 1
    BY <1>1
  <2>4. \E x, y \in 1..(c + 1) : x # y /\ f[x] = f[y]
    <3> DEFINE S == 1..(c + 1)
               T == DOMAIN folders
    <3>1. IsFiniteSet(S) /\ IsFiniteSet(T) /\ Cardinality(T) < Cardinality(S) /\ f \in [S -> T]
      BY <2>1, <2>2, <2>3
    <3>2. \E x, y \in S : x # y /\ f[x] = f[y]
      <4> HIDE DEF f, S, T
      <4>1. QED
        BY <3>1, FS_PigeonHole
    <3>3. QED
      BY <3>2
  <2>5. QED
    BY <2>4
<1>3. PICK k \in free : \A j \in free : k <= j
  <2>1. free \subseteq Nat
    OBVIOUS
  <2> HIDE DEF free
  <2>2. QED
    BY <1>2, <2>1, LeastNumber
<1>4. \A j \in 1..(k - 1) : <<label, j>> \in DOMAIN folders
  BY <1>1, <1>3
<1>5. \E m \in 1..(c + 1) : /\ <<label, m>> \notin DOMAIN folders
                             /\ \A j \in 1..(m - 1) : <<label, j>> \in DOMAIN folders
  BY <1>3, <1>4
<1>6. QED
  BY <1>5, <1>1 DEF DistinctDir

LEMMA InitFolders == FoldersInit => FoldersInv
<1> SUFFICES ASSUME FoldersInit PROVE FoldersInv
  OBVIOUS
<1>1. DOMAIN folders = {} /\ DOMAIN zips = {} /\ at = Idle
  BY DEF FoldersInit
<1>2. Idle \in AtShape /\ Idle.pc = "idle"
  BY DEF Idle, AtShape
<1>3. IsFiniteSet(DOMAIN folders)
  BY <1>1, FS_EmptySet
<1>4. batch \in Seq(Workbooks) /\ Len(batch) = 0
  BY DEF FoldersInit
<1>5. FoldersTypeOK
  <2>1. clock \in 0..MaxClock /\ runNo \in 0..MaxStarts /\ mode \in Modes /\ cancel \in BOOLEAN
    <3>1. clock = 0 /\ runNo = 0
      BY Zenon DEF FoldersInit
    <3>2. mode = "FOLDER" /\ cancel = FALSE
      BY Zenon DEF FoldersInit
    <3>3. clock \in 0..MaxClock /\ runNo \in 0..MaxStarts
      BY ONLY <3>1, RunFoldersAssumption, SMT
    <3>4. mode \in Modes /\ cancel \in BOOLEAN
      BY <3>2, Zenon DEF Modes
    <3>5. QED
      BY <3>3, <3>4, Zenon
  <2>2. Len(batch) <= MaxBatch
    BY <1>4
  <2>3. at \in AtShape
    BY <1>1, <1>2
  <2>4. /\ IsFiniteSet(DOMAIN folders)
        /\ \A d \in DOMAIN folders : d \in Labels \X Nat /\ folders[d] \subseteq Reports
        /\ \A l \in DOMAIN zips : l \in Labels /\ zips[l] \subseteq Reports
    BY <1>1, <1>3
  <2>5. batch \in Seq(Workbooks)
    BY <1>4
  <2>6. QED
    BY <2>1, <2>2, <2>3, <2>4, <2>5, Zenon DEF FoldersTypeOK, AtShape
<1>6. NothingMerged /\ FolderIsItsOwn
  BY <1>1, <1>2 DEF NothingMerged, FolderIsItsOwn
<1>7. QED
  BY <1>5, <1>6 DEF FoldersInv

-----------------------------------------------------------------------------
(* Steps that leave folders and ZIPs alone.                                  *)
LEMMA SameFolders ==
  ASSUME FoldersInv, UNCHANGED <<folders, zips>>, FoldersTypeOK', FolderIsItsOwn'
  PROVE  FoldersInv' /\ Folded' = Folded
  BY DEF FoldersInv, NothingMerged, Folded

LEMMA SecondStep ==
  ASSUME FoldersInv, Second
  PROVE  FoldersInv' /\ Folded' = Folded
<1>1. UNCHANGED <<runNo, mode, batch, at, folders, zips, cancel>> /\ clock' \in 0..MaxClock
  BY DEF FoldersInv, FoldersTypeOK, Second
<1>2. FoldersTypeOK' /\ FolderIsItsOwn'
  BY <1>1 DEF FoldersInv, FoldersTypeOK, FolderIsItsOwn
<1>3. QED
  BY <1>1, <1>2, SameFolders

LEMMA RunStartStep ==
  ASSUME FoldersInv, NEW m \in Modes, NEW n \in 1..MaxBatch, NEW b \in [1..n -> Workbooks], StartRun(m, b)
  PROVE  FoldersInv' /\ Folded' = Folded
<1>1. UNCHANGED <<clock, folders, zips>> /\ mode' = m /\ batch' = b /\ cancel' = FALSE /\ runNo' = runNo + 1
      /\ runNo' \in 0..MaxStarts /\ runNo' > 0 /\ at' = [Idle EXCEPT !.pc = "file", !.idx = 1]
  BY DEF FoldersInv, FoldersTypeOK, StartRun
<1>2. b \in Seq(Workbooks) /\ Len(b) = n /\ n <= MaxBatch
  OBVIOUS
<1>3. at' \in AtShape /\ at'.pc = "file" /\ at'.idx = 1
  BY <1>1 DEF Idle, AtShape
<1>4. FoldersTypeOK'
  <2>1. clock' \in 0..MaxClock /\ runNo' \in 0..MaxStarts /\ mode' \in Modes /\ cancel' \in BOOLEAN
    BY <1>1 DEF FoldersInv, FoldersTypeOK
  <2>2. batch' \in Seq(Workbooks) /\ Len(batch') <= MaxBatch
    BY <1>1, <1>2
  <2>3. QED
    BY <1>1, <1>3, <2>1, <2>2 DEF FoldersInv, FoldersTypeOK, AtShape
<1>5. FolderIsItsOwn'
  BY <1>1, <1>3 DEF FolderIsItsOwn
<1>6. QED
  BY <1>1, <1>4, <1>5, SameFolders

LEMMA CancelStep ==
  ASSUME FoldersInv, CancelRun
  PROVE  FoldersInv' /\ Folded' = Folded
<1>1. UNCHANGED <<clock, runNo, mode, batch, at, folders, zips>> /\ cancel' = TRUE
  BY DEF CancelRun
<1>2. FoldersTypeOK' /\ FolderIsItsOwn'
  BY <1>1 DEF FoldersInv, FoldersTypeOK, FolderIsItsOwn
<1>3. QED
  BY <1>1, <1>2, SameFolders

(* The worker goes on to the next workbook, to the ZIP, or ends.             *)
LEMMA GoOn ==
  ASSUME FoldersInv, UNCHANGED <<clock, runNo, mode, batch, folders, zips, cancel>>, at' \in AtShape,
         \/ at'.pc = "idle"
         \/ at'.pc = "file" /\ at'.idx > 0 /\ at.pc # "idle"
  PROVE  FoldersInv' /\ Folded' = Folded
<1>1. FoldersTypeOK'
  BY DEF FoldersInv, FoldersTypeOK, AtShape
<1>2. FolderIsItsOwn'
  BY DEF FoldersInv, FolderIsItsOwn
<1>3. QED
  BY <1>1, <1>2, SameFolders

LEMMA NextFile ==
  ASSUME FoldersInv, at.pc # "idle"
  PROVE  /\ [Idle EXCEPT !.pc = "file", !.idx = at.idx + 1] \in AtShape
         /\ [Idle EXCEPT !.pc = "file", !.idx = at.idx + 1].pc = "file"
         /\ [Idle EXCEPT !.pc = "file", !.idx = at.idx + 1].idx > 0
         /\ Idle \in AtShape /\ Idle.pc = "idle"
<1>1. at.idx \in Nat
  BY DEF FoldersInv, FoldersTypeOK
<1>2. at.idx + 1 \in Nat /\ at.idx + 1 > 0
  BY <1>1
<1>3. QED
  BY <1>2 DEF Idle, AtShape

LEMMA EndStep ==
  ASSUME FoldersInv, EndBatch \/ RaiseError
  PROVE  FoldersInv' /\ Folded' = Folded
<1>1. at' = Idle /\ UNCHANGED <<clock, runNo, mode, batch, folders, zips, cancel>> /\ at.pc # "idle"
  BY DEF EndBatch, RaiseError
<1>2. QED
  BY <1>1, NextFile, GoOn

LEMMA BranchesDoneStep ==
  ASSUME FoldersInv, BranchesDone
  PROVE  FoldersInv' /\ Folded' = Folded
<1>1. UNCHANGED <<clock, runNo, mode, batch, folders, zips, cancel>> /\ at.pc = "branch"
      /\ at \in AtShape
  BY DEF BranchesDone, FoldersInv, FoldersTypeOK, AtShape
<1>2. CASE at' = [Idle EXCEPT !.pc = "file", !.idx = at.idx + 1]
  BY <1>1, <1>2, NextFile, GoOn
<1>3. CASE at' = [at EXCEPT !.pc = "zip"] /\ at.todo = {}
  <2>1. /\ at' \in AtShape /\ at'.pc = "zip" /\ at'.idx = at.idx /\ at'.label = at.label
        /\ at'.dir = at.dir /\ at'.todo = {}
    BY <1>1, <1>3 DEF AtShape
  <2>2. FoldersTypeOK'
    BY <1>1, <2>1 DEF FoldersInv, FoldersTypeOK, AtShape
  <2>3. FolderIsItsOwn'
    BY <1>1, <1>3, <2>1 DEF FoldersInv, FolderIsItsOwn
  <2>4. QED
    BY <1>1, <2>2, <2>3, SameFolders
<1>4. QED
  BY <1>2, <1>3 DEF BranchesDone

-----------------------------------------------------------------------------
LEMMA BeginStep ==
  ASSUME FoldersInv, BeginWorkbook
  PROVE  FoldersInv' /\ Folded \subseteq Folded'
<1> DEFINE label == <<batch[at.idx], clock>>
           dir == DistinctDir(label)
<1>1. /\ at.pc = "file" /\ at.idx <= Len(batch) /\ at.idx > 0 /\ runNo > 0 /\ at \in AtShape
      /\ IsFiniteSet(DOMAIN folders) /\ batch \in Seq(Workbooks)
      /\ at' = [at EXCEPT !.pc = "branch", !.label = label, !.dir = dir, !.todo = Branches]
      /\ folders' = [d \in DOMAIN folders \cup {dir} |-> IF d \in DOMAIN folders THEN folders[d] ELSE {}]
      /\ UNCHANGED <<clock, runNo, mode, batch, zips, cancel>>
  BY DEF BeginWorkbook, FoldersInv, FoldersTypeOK, FolderIsItsOwn, AtShape
<1>2. batch[at.idx] \in Workbooks
  BY <1>1 DEF AtShape
<1>3. label \in Labels
  BY <1>2 DEF Labels, FoldersInv, FoldersTypeOK
<1>4. dir \in Labels \X Nat /\ dir \notin DOMAIN folders
  <2>1. PICK k \in Nat : dir = <<label, k>> /\ <<label, k>> \notin DOMAIN folders
    BY <1>1, FolderIsNew
  <2>2. QED
    BY <1>3, <2>1
<1> HIDE DEF label, dir
<1>5. /\ at' \in AtShape /\ at'.pc = "branch" /\ at'.idx = at.idx /\ at'.label = label /\ at'.dir = dir
      /\ at'.todo = Branches
  BY <1>1, <1>3, <1>4 DEF AtShape
<1>6. /\ DOMAIN folders' = DOMAIN folders \cup {dir} /\ folders'[dir] = {}
      /\ \A d \in DOMAIN folders : folders'[d] = folders[d]
  BY <1>1, <1>4
<1>7. IsFiniteSet(DOMAIN folders')
  BY <1>1, <1>6, FS_AddElement
<1>8. FoldersTypeOK'
  BY <1>1, <1>4, <1>5, <1>6, <1>7 DEF FoldersInv, FoldersTypeOK, AtShape
<1>9. NothingMerged'
  BY <1>1, <1>6 DEF FoldersInv, NothingMerged
<1>10. FolderIsItsOwn'
  BY <1>1, <1>3, <1>5, <1>6 DEF FolderIsItsOwn
<1>11. Folded \subseteq Folded'
  BY <1>6 DEF Folded
<1>12. QED
  BY <1>8, <1>9, <1>10, <1>11 DEF FoldersInv

(* A report of the workbook at hand, of a branch not written before.         *)
LEMMA ReportStep ==
  ASSUME FoldersInv, NEW b \in Branches, Report(b)
  PROVE  FoldersInv' /\ Folded \subseteq Folded'
<1> DEFINE rep == <<<<runNo, at.idx>>, b>>
           new == {r \in folders[at.dir] : r[2] # b} \cup {rep}
<1>1. /\ at.pc = "branch" /\ b \in at.todo /\ at \in AtShape /\ at.dir \in DOMAIN folders
      /\ folders' = [folders EXCEPT ![at.dir] = new]
      /\ at' = [at EXCEPT !.todo = at.todo \ {b}]
      /\ UNCHANGED <<clock, runNo, mode, batch, zips, cancel>>
  BY DEF Report, FoldersInv, FoldersTypeOK, FolderIsItsOwn, AtShape
<1>2. /\ \A r \in folders[at.dir] : r[1] = <<runNo, at.idx>> /\ r \in Reports
      /\ {r[2] : r \in folders[at.dir]} = Branches \ at.todo
      /\ at.idx > 0 /\ runNo > 0 /\ at.idx <= Len(batch) /\ Len(batch) <= MaxBatch /\ runNo \in 0..MaxStarts
  BY <1>1 DEF FoldersInv, FoldersTypeOK, FolderIsItsOwn
<1>3. rep \in Reports /\ rep[1] = <<runNo, at.idx>> /\ rep[2] = b
  <2>1. at.idx \in 1..MaxBatch
    BY <1>1, <1>2 DEF AtShape, FoldersInv, FoldersTypeOK
  <2>2. <<runNo, at.idx>> \in Inputs
    BY <1>2, <2>1 DEF Inputs
  <2>3. QED
    BY <2>2 DEF Reports
<1> HIDE DEF rep
<1>4. \A r \in folders[at.dir] : r[2] # b
  BY <1>1, <1>2
<1>5. new = folders[at.dir] \cup {rep}
  BY <1>4
<1> HIDE DEF new
<1>6. /\ DOMAIN folders' = DOMAIN folders /\ folders'[at.dir] = folders[at.dir] \cup {rep}
      /\ \A d \in DOMAIN folders : d # at.dir => folders'[d] = folders[d]
  BY <1>1, <1>5
<1>7. /\ at' \in AtShape /\ at'.pc = "branch" /\ at'.idx = at.idx /\ at'.label = at.label
      /\ at'.dir = at.dir /\ at'.todo = at.todo \ {b}
  BY <1>1 DEF AtShape
<1>8. FoldersTypeOK'
  BY <1>1, <1>3, <1>6, <1>7 DEF FoldersInv, FoldersTypeOK, AtShape
<1>9. NothingMerged'
  BY <1>1, <1>2, <1>3, <1>6 DEF FoldersInv, NothingMerged
<1>10. FolderIsItsOwn'
  <2>1. {r[2] : r \in folders'[at.dir]} = (Branches \ at.todo) \cup {b}
    BY <1>2, <1>3, <1>6
  <2>2. (Branches \ at.todo) \cup {b} = Branches \ (at.todo \ {b})
    BY <1>1
  <2>3. QED
    BY <1>1, <1>2, <1>3, <1>6, <1>7, <2>1, <2>2 DEF FoldersInv, FolderIsItsOwn
<1>11. Folded \subseteq Folded'
  BY <1>6 DEF Folded
<1>12. QED
  BY <1>8, <1>9, <1>10, <1>11 DEF FoldersInv

LEMMA CompressStep ==
  ASSUME FoldersInv, Compress
  PROVE  FoldersInv' /\ Folded' = Folded
<1>1. /\ at.pc = "zip" /\ at \in AtShape /\ UNCHANGED <<clock, runNo, mode, batch, folders, cancel>>
      /\ zips' = [l \in DOMAIN zips \cup {at.label} |-> IF l = at.label THEN folders[at.dir] ELSE zips[l]]
      /\ at.label \in Labels /\ at.dir \in DOMAIN folders /\ at.todo = {}
      /\ (\A r \in folders[at.dir] : r[1] = <<runNo, at.idx>>)
      /\ {r[2] : r \in folders[at.dir]} = Branches
  BY DEF Compress, FoldersInv, FoldersTypeOK, FolderIsItsOwn, AtShape
<1>2. \/ at' = [at EXCEPT !.pc = "remove"] /\ mode = "ZIP ONLY"
      \/ at' = [Idle EXCEPT !.pc = "file", !.idx = at.idx + 1]
  BY DEF Compress
<1>3. at' \in AtShape
      /\ \/ at'.pc = "remove" /\ mode = "ZIP ONLY" /\ at'.idx = at.idx /\ at'.label = at.label
            /\ at'.dir = at.dir /\ at'.todo = at.todo
         \/ at'.pc = "file" /\ at'.idx > 0
  <2>1. CASE at' = [at EXCEPT !.pc = "remove"] /\ mode = "ZIP ONLY"
    BY <1>1, <2>1 DEF AtShape
  <2>2. CASE at' = [Idle EXCEPT !.pc = "file", !.idx = at.idx + 1]
    BY <1>1, <2>2, NextFile
  <2>3. QED
    BY <1>2, <2>1, <2>2
<1>4. FoldersTypeOK'
  BY <1>1, <1>3 DEF FoldersInv, FoldersTypeOK, AtShape
<1>5. NothingMerged'
  <2>1. /\ DOMAIN zips' = DOMAIN zips \cup {at.label} /\ zips'[at.label] = folders[at.dir]
        /\ \A l \in DOMAIN zips : l # at.label => zips'[l] = zips[l]
    BY <1>1
  <2>2. ASSUME NEW l \in DOMAIN zips'
        PROVE  (\A r, s \in zips'[l] : r[1] = s[1]) /\ {r[2] : r \in zips'[l]} = Branches
    <3>1. CASE l = at.label
      <4>1. zips'[l] = folders[at.dir]
        BY <2>1, <3>1
      <4>2. \A r, s \in folders[at.dir] : r[1] = s[1]
        BY <1>1, Zenon DEF FoldersInv, NothingMerged
      <4>3. QED
        BY <1>1, <4>1, <4>2
    <3>2. CASE l # at.label
      <4>1. l \in DOMAIN zips /\ zips'[l] = zips[l]
        BY <2>1, <3>2
      <4>2. QED
        BY <4>1 DEF FoldersInv, NothingMerged
    <3>3. QED
      BY <3>1, <3>2
  <2>3. \A d \in DOMAIN folders' : \A r, s \in folders'[d] : r[1] = s[1]
    BY <1>1 DEF FoldersInv, NothingMerged
  <2>4. QED
    BY <2>2, <2>3 DEF NothingMerged
<1>6. FolderIsItsOwn'
  BY <1>1, <1>3 DEF FoldersInv, FolderIsItsOwn
<1>7. QED
  BY <1>1, <1>4, <1>5, <1>6 DEF FoldersInv, Folded

LEMMA RemoveStep ==
  ASSUME FoldersInv, RemoveFolder
  PROVE  FoldersInv' /\ mode = "ZIP ONLY"
<1>1. /\ at.pc = "remove" /\ mode = "ZIP ONLY" /\ UNCHANGED <<clock, runNo, mode, batch, zips, cancel>>
      /\ folders' = [d \in DOMAIN folders \ {at.dir} |-> folders[d]]
      /\ at' = [Idle EXCEPT !.pc = "file", !.idx = at.idx + 1]
  BY DEF RemoveFolder, FoldersInv, FolderIsItsOwn
<1>2. at' \in AtShape /\ at'.pc = "file" /\ at'.idx > 0
  BY <1>1, NextFile
<1>3. /\ DOMAIN folders' = DOMAIN folders \ {at.dir}
      /\ \A d \in DOMAIN folders' : folders'[d] = folders[d]
  BY <1>1
<1>4. IsFiniteSet(DOMAIN folders')
  BY <1>3, FS_RemoveElement DEF FoldersInv, FoldersTypeOK
<1>5. FoldersTypeOK'
  BY <1>1, <1>2, <1>3, <1>4 DEF FoldersInv, FoldersTypeOK, AtShape
<1>6. NothingMerged' /\ FolderIsItsOwn'
  <2>1. \A d \in DOMAIN folders' : \A r, s \in folders'[d] : r[1] = s[1]
    BY <1>3 DEF FoldersInv, NothingMerged
  <2>2. NothingMerged'
    BY <1>1, <2>1 DEF FoldersInv, NothingMerged
  <2>3. FolderIsItsOwn'
    BY <1>1, <1>2 DEF FoldersInv, FolderIsItsOwn
  <2>4. QED
    BY <2>2, <2>3
<1>7. QED
  BY <1>1, <1>5, <1>6 DEF FoldersInv

LEMMA NextFolders ==
  ASSUME FoldersInv, [FoldersNext]_folderVars
  PROVE  FoldersInv' /\ (mode # "ZIP ONLY" => Folded \subseteq Folded')
<1>1. CASE \E m \in Modes, b \in UNION {[1..n -> Workbooks] : n \in 1..MaxBatch} : StartRun(m, b)
  <2>1. PICK m \in Modes : \E b \in UNION {[1..n -> Workbooks] : n \in 1..MaxBatch} : StartRun(m, b)
    BY <1>1
  <2>2. PICK n \in 1..MaxBatch : \E b \in [1..n -> Workbooks] : StartRun(m, b)
    BY <2>1
  <2>3. PICK b \in [1..n -> Workbooks] : StartRun(m, b)
    BY <2>2
  <2>4. QED
    BY <2>3, RunStartStep
<1>2. CASE UNCHANGED folderVars
  <2>1. FoldersTypeOK' /\ FolderIsItsOwn' /\ UNCHANGED <<folders, zips>>
    BY <1>2 DEF FoldersInv, FoldersTypeOK, FolderIsItsOwn, folderVars
  <2>2. QED
    BY <2>1, SameFolders
<1>3. QED
  BY <1>1, <1>2, SecondStep, CancelStep, BeginStep, EndStep, ReportStep, BranchesDoneStep, CompressStep,
     RemoveStep DEF FoldersNext

(* No folder or ZIP mixes the reports of two workbooks or runs, whatever      *)
(* their names and the clock (_distinct_run_dir).                             *)
THEOREM NothingIsMerged == FoldersSpec => []FoldersInv
<1>1. FoldersInv /\ [FoldersNext]_folderVars => FoldersInv'
  BY NextFolders
<1>2. QED
  BY <1>1, InitFolders, PTL DEF FoldersSpec

(* A report that was written is never lost to a later workbook or run, as     *)
(* long as folders are kept (output_mode).                                    *)
THEOREM ReportsStay == FoldersSpec => FoldersKeep
<1>1. FoldersInv /\ [FoldersNext]_folderVars => FoldersInv'
  BY NextFolders
<1>2. FoldersInv /\ [FoldersNext]_folderVars => [mode # "ZIP ONLY" => Folded \subseteq Folded']_folderVars
  BY NextFolders
<1>3. QED
  BY <1>1, <1>2, InitFolders, PTL DEF FoldersSpec, FoldersKeep

-----------------------------------------------------------------------------
(* The desktop tools, when the page sends one call of a run handler at a time. *)
HIDE RunFoldersAssumption
USE DesktopToolAssumption

Stages == {"none", "name", "work", "write", "close", "summary", "pct",
           "flag", "fail", "failpct", "failflag", "done"}
TrackerShape == [running : BOOLEAN, pct : {0, 50, 100}, summary : 0..MaxRuns,
                 error : 0..MaxRuns, begun : BOOLEAN]
CallShape == [at : {"idle", "reset", "start"}, src : Sources]
WorkerShape == [at : Stages, src : Sources, copy : Copies]
PollShape == [at : {"idle", "pct", "summary", "error"}, running : BOOLEAN,
              pct : {0, 50, 100}, summary : 0..MaxRuns]
AnswerShape == [running : BOOLEAN, pct : {0, 50, 100}, summary : 0..MaxRuns, error : 0..MaxRuns]

Turns == ToolTypeOK /\ TrackerIsOwned /\ StagesOfRun /\ PollsAgree /\ OutputsHaveRuns

LEMMA TypesAre ==
  ToolTypeOK <=>
    /\ tool \in Tools /\ trk \in TrackerShape /\ call \in [Calls -> CallShape]
    /\ worker \in [Runs -> WorkerShape] /\ out \in [Outputs -> 0..(MaxRuns + 1)]
    /\ poll \in PollShape /\ seen \in AnswerShape /\ closes \in 0..MaxCloses
  BY Zenon DEF ToolTypeOK, TrackerShape, CallShape, WorkerShape, PollShape, AnswerShape, Stages

LEMMA Beginnings ==
  /\ NoCall \in CallShape /\ NoCall.at = "idle"
  /\ NoWorker \in WorkerShape /\ NoWorker.at = "none"
  /\ NoPoll \in PollShape /\ NoPoll.at = "idle" /\ NoPoll.running = TRUE
  /\ NoAnswer \in AnswerShape /\ NoAnswer.running = TRUE
  /\ FreshTracker \in TrackerShape /\ FreshTracker.begun = FALSE /\ FreshTracker.running = FALSE
  /\ FreshTracker.summary = 0 /\ FreshTracker.error = 0
<1>1. (CHOOSE s \in Sources : TRUE) \in Sources
  OBVIOUS
<1>2. 1 \in Copies /\ 0 \in 0..MaxRuns
  BY DEF Copies
<1>3. NoCall \in CallShape /\ NoCall.at = "idle"
  BY <1>1 DEF NoCall, CallShape
<1>4. NoWorker \in WorkerShape /\ NoWorker.at = "none"
  BY <1>1, <1>2 DEF NoWorker, WorkerShape, Stages
<1>5. NoPoll \in PollShape /\ NoPoll.at = "idle" /\ NoPoll.running = TRUE
  BY <1>2 DEF NoPoll, PollShape
<1>6. NoAnswer \in AnswerShape /\ NoAnswer.running = TRUE
  BY <1>2 DEF NoAnswer, AnswerShape
<1>7. /\ FreshTracker \in TrackerShape /\ FreshTracker.begun = FALSE /\ FreshTracker.running = FALSE
      /\ FreshTracker.summary = 0 /\ FreshTracker.error = 0
  BY <1>2 DEF FreshTracker, TrackerShape
<1>8. QED
  BY <1>3, <1>4, <1>5, <1>6, <1>7

(* Who polls or is told of a run that is over has its outcome.               *)
LEMMA Told == ASSUME Turns PROVE OverHasOutcome
<1> SUFFICES ASSUME ~seen.running
             PROVE  /\ seen.pct = 100 /\ (seen.summary = 0) # (seen.error = 0)
                    /\ seen.summary # 0 => out[Dest(seen.summary)] = seen.summary
  BY DEF OverHasOutcome
<1>1. Over /\ seen.pct = trk.pct /\ seen.summary = trk.summary /\ seen.error = trk.error
  BY Zenon DEF Turns, PollsAgree
<1>2. /\ trk.pct = 100 /\ (trk.summary = 0) # (trk.error = 0)
      /\ trk.summary # 0 => out[Dest(trk.summary)] = trk.summary
  BY <1>1, Zenon DEF Turns, StagesOfRun
<1>3. QED
  BY <1>1, <1>2, Zenon

LEMMA InitTool == ToolInit => Turns
<1> SUFFICES ASSUME ToolInit PROVE Turns
  OBVIOUS
<1>1. /\ trk = FreshTracker /\ poll = NoPoll /\ seen = NoAnswer /\ tool \in Tools /\ closes = 0
      /\ \A c \in Calls : call[c] = NoCall
      /\ \A r \in Runs : worker[r] = NoWorker
      /\ \A n \in Outputs : out[n] = NoOutput
  BY DEF ToolInit
<1>2. call \in [Calls -> CallShape] /\ worker \in [Runs -> WorkerShape]
  BY Beginnings DEF ToolInit
<1>3. out \in [Outputs -> 0..(MaxRuns + 1)]
  BY DEF ToolInit, NoOutput
<1>4. closes \in 0..MaxCloses
  BY <1>1
<1>5. ToolTypeOK
  BY <1>1, <1>2, <1>3, <1>4, Beginnings, TypesAre, Zenon
<1>6. TrackerIsOwned
  BY <1>1, Beginnings DEF TrackerIsOwned, Busy
<1>7. StagesOfRun
  BY <1>1, Beginnings DEF StagesOfRun, Over
<1>8. PollsAgree /\ OutputsHaveRuns
  BY <1>1, Beginnings DEF PollsAgree, OutputsHaveRuns
<1>9. QED
  BY <1>5, <1>6, <1>7, <1>8 DEF Turns

-----------------------------------------------------------------------------
(* The page's calls.                                                         *)
LEMMA AskStep ==
  ASSUME Turns, ~Overlap, NEW c \in Calls, NEW s \in Sources, RunAsk(c, s)
  PROVE  Turns'
<1>1. /\ UNCHANGED <<tool, trk, worker, out, poll, seen, closes>>
      /\ (\A d \in Calls : call[d] = NoCall) /\ poll = NoPoll /\ ~trk.running
      /\ call' = [call EXCEPT ![c] = [at |-> "reset", src |-> s]]
  BY DEF RunAsk
<1>2. call' \in [Calls -> CallShape] /\ call'[c].at = "reset" /\ \A d \in Calls : d # c => call'[d] = NoCall
  BY <1>1, TypesAre DEF Turns, CallShape
<1>3. ToolTypeOK'
  BY <1>1, <1>2, TypesAre DEF Turns, ToolTypeOK, CallShape
<1>4. TrackerIsOwned'
  BY <1>1, <1>2, Beginnings DEF Turns, TrackerIsOwned, Busy
<1>5. StagesOfRun'
  BY <1>1, <1>2, Beginnings DEF Turns, StagesOfRun, Over, Dest
<1>6. PollsAgree' /\ OutputsHaveRuns'
  BY <1>1 DEF Turns, PollsAgree, OutputsHaveRuns, Over, Dest
<1>7. QED
  BY <1>3, <1>4, <1>5, <1>6 DEF Turns

(* While a call is on its way nothing else is.                               *)
LEMMA CallsAlone ==
  ASSUME Turns, NEW c \in Calls, call[c].at # "idle"
  PROVE  /\ poll = NoPoll /\ (trk.running <=> call[c].at = "start")
         /\ \A d \in Calls : d # c => call[d].at = "idle" /\ call[d] = NoCall
         /\ \A r \in Runs : worker[r].at \in {"none", "done"}
  BY DEF Turns, TrackerIsOwned, Busy

LEMMA ResetStep ==
  ASSUME Turns, NEW c \in Calls, RunReset(c)
  PROVE  Turns'
<1>1. /\ UNCHANGED <<tool, worker, out, poll, closes>> /\ seen' = NoAnswer /\ call[c].at = "reset"
      /\ trk' = [FreshTracker EXCEPT !.running = TRUE, !.begun = TRUE]
      /\ call' = [call EXCEPT ![c].at = "start"]
  BY DEF RunReset
<1>2. /\ trk' \in TrackerShape /\ trk'.running = TRUE /\ trk'.summary = 0 /\ trk'.error = 0
  BY <1>1, Beginnings DEF FreshTracker, TrackerShape
<1>3. /\ call' \in [Calls -> CallShape] /\ call'[c].at = "start"
      /\ \A d \in Calls : d # c => call'[d] = call[d]
  BY <1>1, TypesAre DEF Turns, CallShape
<1>4. /\ poll = NoPoll
      /\ \A d \in Calls : d # c => call[d].at = "idle" /\ call[d] = NoCall
      /\ \A r \in Runs : worker[r].at \in {"none", "done"}
  BY <1>1, CallsAlone
<1>5. ToolTypeOK'
  BY <1>1, <1>2, <1>3, Beginnings, TypesAre DEF Turns, ToolTypeOK, CallShape, TrackerShape, AnswerShape
<1>6. TrackerIsOwned'
  BY <1>1, <1>2, <1>3, <1>4 DEF TrackerIsOwned, Busy
<1>7. StagesOfRun'
  BY <1>1, <1>2, <1>3, <1>4 DEF StagesOfRun, Over
<1>8. PollsAgree' /\ OutputsHaveRuns'
  BY <1>1, <1>4, Beginnings DEF Turns, PollsAgree, OutputsHaveRuns, Dest
<1>9. QED
  BY <1>5, <1>6, <1>7, <1>8 DEF Turns

LEMMA ToolStartStep ==
  ASSUME Turns, NEW c \in Calls, RunStart(c)
  PROVE  Turns'
<1>1. /\ UNCHANGED <<tool, trk, out, poll, seen, closes>> /\ call[c].at = "start"
      /\ call' = [call EXCEPT ![c] = NoCall]
  BY DEF RunStart
<1>2. PICK r \in Runs : /\ worker[r].at = "none"
                        /\ worker' = [worker EXCEPT ![r] = [at |-> "name", src |-> call[c].src, copy |-> 1]]
  BY DEF RunStart
<1>3. call[c].src \in Sources /\ 1 \in Copies
  BY TypesAre DEF Turns, CallShape, Copies
<1>4. /\ worker' \in [Runs -> WorkerShape] /\ worker'[r].at = "name"
      /\ \A q \in Runs : q # r => worker'[q] = worker[q]
  BY <1>2, <1>3, TypesAre DEF Turns, WorkerShape, Stages
<1>5. /\ poll = NoPoll /\ trk.running
      /\ \A d \in Calls : d # c => call[d].at = "idle" /\ call[d] = NoCall
      /\ \A q \in Runs : worker[q].at \in {"none", "done"}
  BY <1>1, CallsAlone
<1>6. call' \in [Calls -> CallShape] /\ \A d \in Calls : call'[d] = NoCall
  BY <1>1, <1>5, Beginnings, TypesAre DEF Turns
<1>7. ToolTypeOK'
  BY <1>1, <1>4, <1>6, TypesAre DEF Turns, ToolTypeOK, CallShape, WorkerShape, Stages
<1>8. TrackerIsOwned'
  BY <1>1, <1>4, <1>5, <1>6, Beginnings DEF TrackerIsOwned, Busy
<1>9. trk.summary = 0 /\ trk.error = 0
  BY <1>1 DEF Turns, StagesOfRun
<1>10. StagesOfRun'
  BY <1>1, <1>4, <1>5, <1>6, <1>9, Beginnings DEF StagesOfRun, Over
<1>11. PollsAgree'
  BY <1>1 DEF Turns, PollsAgree, Over
<1>12. OutputsHaveRuns'
  BY <1>1, <1>2, <1>4 DEF Turns, OutputsHaveRuns, Dest
<1>13. QED
  BY <1>7, <1>8, <1>10, <1>11, <1>12 DEF Turns

-----------------------------------------------------------------------------
(* While a thread is at work nothing else is, and no poll has seen its end.  *)
LEMMA WorksAlone ==
  ASSUME Turns, NEW r \in Runs, Busy(r)
  PROVE  /\ trk.running /\ poll.running /\ seen.running
         /\ \A d \in Calls : call[d].at = "idle" /\ call[d] = NoCall
         /\ \A q \in Runs : q # r => worker[q].at \in {"none", "done"}
<1>1. trk.running
  BY DEF Turns, TrackerIsOwned
<1>2. poll.running /\ seen.running
  BY <1>1 DEF Turns, PollsAgree, Over
<1>3. \A d \in Calls : call[d].at = "idle" /\ call[d] = NoCall
  BY DEF Turns, TrackerIsOwned
<1>4. \A q \in Runs : q # r => worker[q].at \in {"none", "done"}
  BY DEF Turns, TrackerIsOwned, Busy
<1>5. QED
  BY <1>1, <1>2, <1>3, <1>4

(* A thread's step from one stage to the next.                               *)
LEMMA Moves ==
  ASSUME Turns, NEW r \in Runs, NEW a, NEW b \in Stages, At(r, a, b)
  PROVE  /\ worker' \in [Runs -> WorkerShape] /\ worker[r].at = a /\ worker'[r].at = b
         /\ \A q \in Runs : q # r => worker'[q] = worker[q]
         /\ \A q \in Runs : worker'[q].src = worker[q].src /\ worker'[q].copy = worker[q].copy
<1>1. worker \in [Runs -> WorkerShape] /\ worker[r].at = a /\ worker' = [worker EXCEPT ![r].at = b]
  BY TypesAre DEF Turns, At
<1>2. QED
  BY <1>1 DEF WorkerShape

(* The step of a thread at work: what it must show of its own stage.         *)
LEMMA Working ==
  ASSUME Turns, NEW r \in Runs, Busy(r),
         UNCHANGED <<tool, call, poll, seen, closes>>,
         trk' \in TrackerShape, out' \in [Outputs -> 0..(MaxRuns + 1)],
         worker' \in [Runs -> WorkerShape], worker'[r].at \notin {"none", "name"},
         \A q \in Runs : q # r => worker'[q] = worker[q],
         trk'.running <=> worker'[r].at # "done",
         worker'[r].at \in {"work", "write", "close", "summary", "fail"} => trk'.summary = 0 /\ trk'.error = 0,
         worker'[r].at \in {"pct", "flag"} => trk'.summary = r /\ trk'.error = 0,
         worker'[r].at \in {"failpct", "failflag"} => trk'.summary = 0 /\ trk'.error = r,
         worker'[r].at \in {"flag", "failflag"} => trk'.pct = 100,
         worker'[r].at \in {"summary", "pct", "flag"} => out'[<<worker'[r].src, worker'[r].copy>>] = r,
         worker'[r].at = "done" =>
           /\ trk'.pct = 100 /\ (trk'.summary = 0) # (trk'.error = 0)
           /\ trk'.summary # 0 => trk'.summary = r /\ out'[<<worker'[r].src, worker'[r].copy>>] = r,
         \A n \in Outputs : out'[n] # NoOutput =>
           out[n] # NoOutput \/ n = <<worker'[r].src, worker'[r].copy>>,
         worker[r].at # "name" => worker'[r].src = worker[r].src /\ worker'[r].copy = worker[r].copy
  PROVE  Turns'
<1>1. /\ trk.running /\ poll.running /\ seen.running
      /\ \A d \in Calls : call[d].at = "idle" /\ call[d] = NoCall
      /\ \A q \in Runs : q # r => worker[q].at \in {"none", "done"}
  BY WorksAlone
<1>2. ToolTypeOK'
  BY TypesAre DEF Turns, ToolTypeOK, TrackerShape, WorkerShape, Stages
<1>3. TrackerIsOwned'
  BY <1>1 DEF TrackerIsOwned, Busy
<1>4. StagesOfRun'
  <2>1. \A c \in Calls : call'[c].at # "start"
    BY <1>1
  <2>2. \A q \in Runs : q # r => worker'[q].at \in {"none", "done"}
    BY <1>1
  <2>3. Over' => worker'[r].at = "done"
    BY DEF Over
  <2>4. QED
    BY <2>1, <2>2, <2>3 DEF StagesOfRun, Dest
<1>5. PollsAgree'
  BY <1>1 DEF Turns, PollsAgree
<1>6. OutputsHaveRuns'
  <2> SUFFICES ASSUME NEW n \in Outputs, out'[n] # NoOutput
               PROVE  \E q \in Runs : worker'[q].at \notin {"none", "name"} /\ <<worker'[q].src, worker'[q].copy>> = n
    BY DEF OutputsHaveRuns, Dest
  <2>1. CASE n = <<worker'[r].src, worker'[r].copy>>
    BY <2>1
  <2>2. CASE out[n] # NoOutput
    <3>1. PICK q \in Runs : worker[q].at \notin {"none", "name"} /\ <<worker[q].src, worker[q].copy>> = n
      BY <2>2 DEF Turns, OutputsHaveRuns, Dest
    <3>2. worker'[q].at \notin {"none", "name"} /\ worker'[q].src = worker[q].src /\ worker'[q].copy = worker[q].copy
      BY <3>1
    <3>3. QED
      BY <3>1, <3>2
  <2>3. QED
    BY <2>1, <2>2
<1>7. QED
  BY <1>2, <1>3, <1>4, <1>5, <1>6 DEF Turns

-----------------------------------------------------------------------------
(* There are more names for an output than runs to take them.                *)
LEMMA LeastCopy ==
  ASSUME NEW T, T \subseteq Nat, T # {}
  PROVE  \E x \in T : \A y \in T : y < x => FALSE
<1> DEFINE R == OpToRel(<, Nat)
<1>1. PICK x \in T : \A y \in T : ~(<<y, x>> \in R)
  BY NatLessThanWellFounded, WFMin, Zenon
<1>2. ASSUME NEW y \in T, y < x PROVE FALSE
  <2>1. <<y, x>> \in Nat \X Nat
    OBVIOUS
  <2>2. <<y, x>>[1] = y /\ <<y, x>>[2] = x
    OBVIOUS
  <2>3. <<y, x>> \in R
    BY <1>2, <2>1, <2>2, Zenon DEF OpToRel
  <2>4. QED
    BY <1>1, <2>3, Zenon
<1>3. QED
  BY <1>2

LEMMA CopyIsThere ==
  ASSUME Turns, NEW r \in Runs, NEW s \in Sources
  PROVE  OutputCopy(s, r) \in Copies
<1> DEFINE free == {n \in Copies : out[<<s, n>>] = NoOutput}
<1>1. free # {}
  <2> SUFFICES ASSUME free = {} PROVE FALSE
    OBVIOUS
  <2>1. \A n \in Copies : \E q \in Runs : worker[q].copy = n
    <3> SUFFICES ASSUME NEW n \in Copies PROVE \E q \in Runs : worker[q].copy = n
      OBVIOUS
    <3>1. <<s, n>> \in Outputs /\ out[<<s, n>>] # NoOutput
      BY DEF Outputs
    <3>2. PICK q \in Runs : Dest(q) = <<s, n>>
      BY <3>1, Zenon DEF Turns, OutputsHaveRuns
    <3>3. QED
      BY <3>2 DEF Dest
  <2> DEFINE f == [n \in Copies |-> CHOOSE q \in Runs : worker[q].copy = n]
  <2>2. f \in [Copies -> Runs]
    BY <2>1
  <2>3. \A n \in Copies : worker[f[n]].copy = n
    BY <2>1
  <2>4. /\ IsFiniteSet(Copies) /\ Cardinality(Copies) = MaxRuns + 1
        /\ IsFiniteSet(Runs) /\ Cardinality(Runs) = MaxRuns
    BY FS_Interval DEF Copies, Runs
  <2>5. Cardinality(Runs) < Cardinality(Copies)
    BY <2>4
  <2>6. \E x, y \in Copies : x # y /\ f[x] = f[y]
    <3> HIDE DEF f
    <3>1. QED
      BY <2>2, <2>4, <2>5, FS_PigeonHole
  <2>7. QED
    BY <2>3, <2>6
<1>2. free \subseteq Nat
  BY DEF Copies
<1>3. PICK n \in free : \A m \in free : m < n => FALSE
  <2> HIDE DEF free
  <2>1. QED
    BY <1>1, <1>2, LeastCopy
<1>4. n \in Copies /\ out[<<s, n>>] = NoOutput /\ \A m \in Copies : m < n => out[<<s, m>>] # NoOutput
  BY <1>3
<1>5. 1 \in Copies
  BY DEF Copies
<1>6. QED
  BY <1>4, <1>5 DEF OutputCopy

LEMMA NamesStep ==
  ASSUME Turns, NEW r \in Runs, WorkerNames(r)
  PROVE  Turns'
<1>1. /\ UNCHANGED <<tool, trk, call, out, poll, seen, closes>> /\ worker[r].at = "name"
      /\ worker' = [worker EXCEPT ![r].at = "work", ![r].copy = OutputCopy(worker[r].src, r)]
  BY DEF WorkerNames
<1>2. worker \in [Runs -> WorkerShape] /\ OutputCopy(worker[r].src, r) \in Copies
  <2>1. worker \in [Runs -> WorkerShape]
    BY TypesAre DEF Turns
  <2>2. worker[r].src \in Sources
    BY <2>1 DEF WorkerShape
  <2>3. QED
    BY <2>1, <2>2, CopyIsThere
<1>3. /\ worker' \in [Runs -> WorkerShape] /\ worker'[r].at = "work"
      /\ \A q \in Runs : q # r => worker'[q] = worker[q]
  <2> DEFINE k == OutputCopy(worker[r].src, r)
  <2>1. k \in Copies /\ worker' = [worker EXCEPT ![r].at = "work", ![r].copy = k]
    BY <1>1, <1>2
  <2> HIDE DEF k
  <2>2. QED
    BY <1>2, <2>1 DEF WorkerShape, Stages
<1>4. Busy(r)
  BY <1>1 DEF Busy
<1>5. trk.summary = 0 /\ trk.error = 0 /\ trk.running
  BY <1>1, <1>4, WorksAlone DEF Turns, StagesOfRun
<1>6. trk' \in TrackerShape /\ out' \in [Outputs -> 0..(MaxRuns + 1)] /\ trk' = trk
  BY <1>1, TypesAre DEF Turns
<1>7. QED
  BY <1>1, <1>3, <1>4, <1>5, <1>6, Working

(* A thread moves on, the outputs stay as they are.                          *)
LEMMA WorksStep ==
  ASSUME Turns, NEW r \in Runs, WorkerWorks(r)
  PROVE  Turns'
<1>1. UNCHANGED <<tool, call, out, poll, seen, closes>> /\ out' \in [Outputs -> 0..(MaxRuns + 1)]
      /\ trk \in TrackerShape
  BY TypesAre DEF Turns, WorkerWorks
<1>2. worker[r].at = "work" /\ Busy(r)
  BY DEF WorkerWorks, At, Busy
<1>3. trk.summary = 0 /\ trk.error = 0 /\ trk.running
  BY <1>2, WorksAlone DEF Turns, StagesOfRun
<1>4. CASE At(r, "work", "write") /\ trk' = [trk EXCEPT !.pct = 50]
  <2>1. /\ worker' \in [Runs -> WorkerShape] /\ worker'[r].at = "write"
        /\ \A q \in Runs : q # r => worker'[q] = worker[q]
        /\ worker'[r].src = worker[r].src /\ worker'[r].copy = worker[r].copy
    BY <1>4, Moves DEF Stages
  <2>2. trk' \in TrackerShape /\ trk'.summary = 0 /\ trk'.error = 0 /\ trk'.running
    BY <1>1, <1>3, <1>4 DEF TrackerShape
  <2>3. QED
    BY <1>1, <1>2, <2>1, <2>2, Working
<1>5. CASE At(r, "work", "fail") /\ UNCHANGED trk
  <2>1. /\ worker' \in [Runs -> WorkerShape] /\ worker'[r].at = "fail"
        /\ \A q \in Runs : q # r => worker'[q] = worker[q]
        /\ worker'[r].src = worker[r].src /\ worker'[r].copy = worker[r].copy
    BY <1>5, Moves DEF Stages
  <2>2. trk' \in TrackerShape /\ trk'.summary = 0 /\ trk'.error = 0 /\ trk'.running
    BY <1>1, <1>3, <1>5
  <2>3. QED
    BY <1>1, <1>2, <2>1, <2>2, Working
<1>6. QED
  BY <1>4, <1>5 DEF WorkerWorks

(* The output is opened, written, or left half way.                          *)
LEMMA DestIsOutput ==
  ASSUME Turns, NEW r \in Runs
  PROVE  Dest(r) \in Outputs
  BY TypesAre DEF Turns, WorkerShape, Dest, Outputs

LEMMA OpensStep ==
  ASSUME Turns, NEW r \in Runs, WorkerOpens(r)
  PROVE  Turns'
<1>1. /\ UNCHANGED <<tool, trk, call, poll, seen, closes>> /\ trk' \in TrackerShape
      /\ At(r, "write", "close") /\ out' = [out EXCEPT ![Dest(r)] = Partial]
  BY TypesAre DEF Turns, WorkerOpens
<1>2. /\ worker' \in [Runs -> WorkerShape] /\ worker[r].at = "write" /\ worker'[r].at = "close"
      /\ \A q \in Runs : q # r => worker'[q] = worker[q]
      /\ worker'[r].src = worker[r].src /\ worker'[r].copy = worker[r].copy
  BY <1>1, Moves DEF Stages
<1>3. Busy(r)
  BY <1>2 DEF Busy
<1>4. trk'.summary = 0 /\ trk'.error = 0 /\ trk'.running
  BY <1>1, <1>2, <1>3, WorksAlone DEF Turns, StagesOfRun
<1>5. out \in [Outputs -> 0..(MaxRuns + 1)] /\ Partial \in 0..(MaxRuns + 1)
  BY TypesAre DEF Turns, Partial
<1>6. /\ out' \in [Outputs -> 0..(MaxRuns + 1)]
      /\ \A n \in Outputs : n # Dest(r) => out'[n] = out[n]
  BY <1>1, <1>5, DestIsOutput
<1>7. \A n \in Outputs : out'[n] # NoOutput =>
        out[n] # NoOutput \/ n = <<worker'[r].src, worker'[r].copy>>
  BY <1>2, <1>6 DEF Dest
<1>8. QED
  BY <1>1, <1>2, <1>3, <1>4, <1>6, <1>7, Working

LEMMA WritesStep ==
  ASSUME Turns, NEW r \in Runs, WorkerWrites(r)
  PROVE  Turns'
<1>1. UNCHANGED <<tool, trk, call, poll, seen, closes>> /\ trk' \in TrackerShape
      /\ out \in [Outputs -> 0..(MaxRuns + 1)]
  BY TypesAre DEF Turns, WorkerWrites
<1>2. worker[r].at = "close" /\ Busy(r)
  BY DEF WorkerWrites, At, Busy
<1>3. trk'.summary = 0 /\ trk'.error = 0 /\ trk'.running
  BY <1>1, <1>2, WorksAlone DEF Turns, StagesOfRun
<1>4. CASE At(r, "close", "summary") /\ out' = [out EXCEPT ![Dest(r)] = r]
  <2>1. /\ worker' \in [Runs -> WorkerShape] /\ worker'[r].at = "summary"
        /\ \A q \in Runs : q # r => worker'[q] = worker[q]
        /\ worker'[r].src = worker[r].src /\ worker'[r].copy = worker[r].copy
    BY <1>4, Moves DEF Stages
  <2>2. r \in 0..(MaxRuns + 1)
    BY DEF Runs
  <2>3. /\ out' \in [Outputs -> 0..(MaxRuns + 1)] /\ out'[Dest(r)] = r
        /\ \A n \in Outputs : n # Dest(r) => out'[n] = out[n]
    BY <1>1, <1>4, <2>2, DestIsOutput
  <2>4. /\ out'[<<worker'[r].src, worker'[r].copy>>] = r
        /\ \A n \in Outputs : out'[n] # NoOutput =>
             out[n] # NoOutput \/ n = <<worker'[r].src, worker'[r].copy>>
    BY <2>1, <2>3 DEF Dest
  <2>5. QED
    BY <1>1, <1>2, <1>3, <2>1, <2>3, <2>4, Working
<1>5. CASE At(r, "close", "fail") /\ UNCHANGED out
  <2>1. /\ worker' \in [Runs -> WorkerShape] /\ worker'[r].at = "fail"
        /\ \A q \in Runs : q # r => worker'[q] = worker[q]
        /\ worker'[r].src = worker[r].src /\ worker'[r].copy = worker[r].copy
    BY <1>5, Moves DEF Stages
  <2>2. QED
    BY <1>1, <1>2, <1>3, <1>5, <2>1, Working
<1>6. QED
  BY <1>4, <1>5 DEF WorkerWrites

(* The end of a run, good or bad, is told value by value.                    *)
LEMMA ReportsStep ==
  ASSUME Turns, NEW r \in Runs, WorkerReports(r)
  PROVE  Turns'
<1>1. /\ UNCHANGED <<tool, call, out, poll, seen, closes>> /\ trk \in TrackerShape
      /\ out' \in [Outputs -> 0..(MaxRuns + 1)] /\ r \in 0..MaxRuns /\ r # 0
  BY TypesAre DEF Turns, WorkerReports, Runs
<1>2. CASE At(r, "summary", "pct") /\ trk' = [trk EXCEPT !.summary = r]
  <2>1. /\ worker' \in [Runs -> WorkerShape] /\ worker[r].at = "summary" /\ worker'[r].at = "pct"
        /\ \A q \in Runs : q # r => worker'[q] = worker[q]
        /\ worker'[r].src = worker[r].src /\ worker'[r].copy = worker[r].copy
    BY <1>2, Moves DEF Stages
  <2>2. Busy(r) /\ trk.running
    BY <2>1, WorksAlone DEF Busy
  <2>3. trk.error = 0 /\ out[<<worker[r].src, worker[r].copy>>] = r
    BY <2>1 DEF Turns, StagesOfRun, Dest
  <2>4. trk' \in TrackerShape /\ trk'.summary = r /\ trk'.error = 0 /\ trk'.running
    BY <1>1, <1>2, <2>2, <2>3 DEF TrackerShape
  <2>5. QED
    BY <1>1, <2>1, <2>2, <2>3, <2>4, Working
<1>3. CASE At(r, "pct", "flag") /\ trk' = [trk EXCEPT !.pct = 100]
  <2>1. /\ worker' \in [Runs -> WorkerShape] /\ worker[r].at = "pct" /\ worker'[r].at = "flag"
        /\ \A q \in Runs : q # r => worker'[q] = worker[q]
        /\ worker'[r].src = worker[r].src /\ worker'[r].copy = worker[r].copy
    BY <1>3, Moves DEF Stages
  <2>2. Busy(r) /\ trk.running
    BY <2>1, WorksAlone DEF Busy
  <2>3. trk.summary = r /\ trk.error = 0 /\ out[<<worker[r].src, worker[r].copy>>] = r
    BY <2>1 DEF Turns, StagesOfRun, Dest
  <2>4. trk' \in TrackerShape /\ trk'.summary = r /\ trk'.error = 0 /\ trk'.pct = 100 /\ trk'.running
    BY <1>1, <1>3, <2>2, <2>3 DEF TrackerShape
  <2>5. QED
    BY <1>1, <2>1, <2>2, <2>3, <2>4, Working
<1>4. CASE At(r, "flag", "done") /\ trk' = [trk EXCEPT !.running = FALSE]
  <2>1. /\ worker' \in [Runs -> WorkerShape] /\ worker[r].at = "flag" /\ worker'[r].at = "done"
        /\ \A q \in Runs : q # r => worker'[q] = worker[q]
        /\ worker'[r].src = worker[r].src /\ worker'[r].copy = worker[r].copy
    BY <1>4, Moves DEF Stages
  <2>2. Busy(r) /\ trk.running
    BY <2>1, WorksAlone DEF Busy
  <2>3. trk.summary = r /\ trk.error = 0 /\ trk.pct = 100 /\ out[<<worker[r].src, worker[r].copy>>] = r
    BY <2>1 DEF Turns, StagesOfRun, Dest
  <2>4. trk' \in TrackerShape /\ trk'.summary = r /\ trk'.error = 0 /\ trk'.pct = 100 /\ ~trk'.running
    BY <1>1, <1>4, <2>2, <2>3 DEF TrackerShape
  <2>5. QED
    BY <1>1, <2>1, <2>2, <2>3, <2>4, Working
<1>5. QED
  BY <1>2, <1>3, <1>4 DEF WorkerReports

LEMMA FailsStep ==
  ASSUME Turns, NEW r \in Runs, WorkerFails(r)
  PROVE  Turns'
<1>1. /\ UNCHANGED <<tool, call, out, poll, seen, closes>> /\ trk \in TrackerShape
      /\ out' \in [Outputs -> 0..(MaxRuns + 1)] /\ r \in 0..MaxRuns /\ r # 0
  BY TypesAre DEF Turns, WorkerFails, Runs
<1>2. CASE At(r, "fail", "failpct") /\ trk' = [trk EXCEPT !.error = r]
  <2>1. /\ worker' \in [Runs -> WorkerShape] /\ worker[r].at = "fail" /\ worker'[r].at = "failpct"
        /\ \A q \in Runs : q # r => worker'[q] = worker[q]
        /\ worker'[r].src = worker[r].src /\ worker'[r].copy = worker[r].copy
    BY <1>2, Moves DEF Stages
  <2>2. Busy(r) /\ trk.running
    BY <2>1, WorksAlone DEF Busy
  <2>3. trk.summary = 0
    BY <2>1 DEF Turns, StagesOfRun, Dest
  <2>4. trk' \in TrackerShape /\ trk'.summary = 0 /\ trk'.error = r /\ trk'.running
    BY <1>1, <1>2, <2>2, <2>3 DEF TrackerShape
  <2>5. QED
    BY <1>1, <2>1, <2>2, <2>3, <2>4, Working
<1>3. CASE At(r, "failpct", "failflag") /\ trk' = [trk EXCEPT !.pct = 100]
  <2>1. /\ worker' \in [Runs -> WorkerShape] /\ worker[r].at = "failpct" /\ worker'[r].at = "failflag"
        /\ \A q \in Runs : q # r => worker'[q] = worker[q]
        /\ worker'[r].src = worker[r].src /\ worker'[r].copy = worker[r].copy
    BY <1>3, Moves DEF Stages
  <2>2. Busy(r) /\ trk.running
    BY <2>1, WorksAlone DEF Busy
  <2>3. trk.summary = 0 /\ trk.error = r
    BY <2>1 DEF Turns, StagesOfRun, Dest
  <2>4. trk' \in TrackerShape /\ trk'.summary = 0 /\ trk'.error = r /\ trk'.pct = 100 /\ trk'.running
    BY <1>1, <1>3, <2>2, <2>3 DEF TrackerShape
  <2>5. QED
    BY <1>1, <2>1, <2>2, <2>3, <2>4, Working
<1>4. CASE At(r, "failflag", "done") /\ trk' = [trk EXCEPT !.running = FALSE]
  <2>1. /\ worker' \in [Runs -> WorkerShape] /\ worker[r].at = "failflag" /\ worker'[r].at = "done"
        /\ \A q \in Runs : q # r => worker'[q] = worker[q]
        /\ worker'[r].src = worker[r].src /\ worker'[r].copy = worker[r].copy
    BY <1>4, Moves DEF Stages
  <2>2. Busy(r) /\ trk.running
    BY <2>1, WorksAlone DEF Busy
  <2>3. trk.summary = 0 /\ trk.error = r /\ trk.pct = 100
    BY <2>1 DEF Turns, StagesOfRun, Dest
  <2>4. trk' \in TrackerShape /\ trk'.summary = 0 /\ trk'.error = r /\ trk'.pct = 100 /\ ~trk'.running
    BY <1>1, <1>4, <2>2, <2>3 DEF TrackerShape
  <2>5. QED
    BY <1>1, <2>1, <2>2, <2>3, <2>4, Working
<1>5. QED
  BY <1>2, <1>3, <1>4 DEF WorkerFails

-----------------------------------------------------------------------------
(* A poll reads the tracker field by field while others write.               *)
LEMMA PollStep ==
  ASSUME Turns, ~Overlap, Poll
  PROVE  Turns'
<1>1. /\ UNCHANGED <<tool, trk, call, worker, out, closes>>
      /\ trk \in TrackerShape /\ poll \in PollShape /\ seen \in AnswerShape
  BY TypesAre DEF Turns, Poll
<1>2. \A c \in Calls : call[c].at = "idle"
  <2>1. CASE poll.at = "idle" /\ \A c \in Calls : call[c] = NoCall
    BY <2>1, Beginnings
  <2>2. CASE poll.at # "idle"
    BY <2>2, CallsAlone, Beginnings
  <2>3. QED
    BY <2>1, <2>2 DEF Poll
<1>3. /\ ~poll.running =>
           /\ Over
           /\ poll.at \in {"summary", "error"} => poll.pct = trk.pct
           /\ poll.at = "error" => poll.summary = trk.summary
      /\ ~seen.running =>
           Over /\ seen.pct = trk.pct /\ seen.summary = trk.summary /\ seen.error = trk.error
  BY DEF Turns, PollsAgree
<1>4. Over' = Over
  BY <1>1 DEF Over
<1>5. poll' \in PollShape /\ seen' \in AnswerShape /\ PollsAgree'
  <2>1. CASE /\ poll.at = "idle" /\ trk.begun
             /\ poll' = [poll EXCEPT !.at = "pct", !.running = trk.running] /\ UNCHANGED seen
    <3>1. poll' \in PollShape /\ poll'.at = "pct" /\ poll'.running = trk.running
      BY <1>1, <2>1 DEF PollShape, TrackerShape
    <3>2. QED
      BY <1>1, <1>3, <1>4, <2>1, <3>1 DEF PollsAgree, Over
  <2>2. CASE poll.at = "pct" /\ poll' = [poll EXCEPT !.at = "summary", !.pct = trk.pct] /\ UNCHANGED seen
    <3>1. /\ poll' \in PollShape /\ poll'.at = "summary" /\ poll'.running = poll.running
          /\ poll'.pct = trk.pct
      BY <1>1, <2>2 DEF PollShape, TrackerShape
    <3>2. QED
      BY <1>1, <1>3, <1>4, <2>2, <3>1 DEF PollsAgree
  <2>3. CASE poll.at = "summary" /\ poll' = [poll EXCEPT !.at = "error", !.summary = trk.summary]
             /\ UNCHANGED seen
    <3>1. /\ poll' \in PollShape /\ poll'.at = "error" /\ poll'.running = poll.running
          /\ poll'.pct = poll.pct /\ poll'.summary = trk.summary
      BY <1>1, <2>3 DEF PollShape, TrackerShape
    <3>2. QED
      BY <1>1, <1>3, <1>4, <2>3, <3>1 DEF PollsAgree
  <2>4. CASE /\ poll.at = "error" /\ poll' = NoPoll
             /\ seen' = [running |-> poll.running, pct |-> poll.pct,
                         summary |-> poll.summary, error |-> trk.error]
    <3>1. /\ seen' \in AnswerShape /\ seen'.running = poll.running /\ seen'.pct = poll.pct
          /\ seen'.summary = poll.summary /\ seen'.error = trk.error
      BY <1>1, <2>4 DEF PollShape, TrackerShape, AnswerShape
    <3>2. QED
      BY <1>1, <1>3, <1>4, <2>4, <3>1, Beginnings DEF PollsAgree
  <2>5. QED
    BY <2>1, <2>2, <2>3, <2>4 DEF Poll
<1>6. ToolTypeOK'
  BY <1>1, <1>5 DEF Turns, ToolTypeOK, PollShape, AnswerShape
<1>7. TrackerIsOwned'
  BY <1>1, <1>2 DEF Turns, TrackerIsOwned, Busy
<1>8. StagesOfRun' /\ OutputsHaveRuns'
  BY <1>1 DEF Turns, StagesOfRun, OutputsHaveRuns, Over, Dest
<1>9. QED
  BY <1>5, <1>6, <1>7, <1>8 DEF Turns

LEMMA CloseStep ==
  ASSUME Turns, Close
  PROVE  Turns'
<1>1. /\ UNCHANGED <<tool, out>> /\ trk' = FreshTracker /\ poll' = NoPoll /\ seen' = NoAnswer
      /\ call' = [c \in Calls |-> NoCall] /\ closes < MaxCloses /\ closes' = closes + 1
      /\ worker' = [r \in Runs |-> IF worker[r].at = "none" THEN NoWorker
                                   ELSE [worker[r] EXCEPT !.at = "done"]]
  BY DEF Close
<1>2. closes' \in 0..MaxCloses
  BY <1>1, TypesAre DEF Turns
<1>3. /\ worker' \in [Runs -> WorkerShape] /\ \A r \in Runs : worker'[r].at \in {"none", "done"}
      /\ \A r \in Runs : worker[r].at # "none" =>
           worker'[r].at = "done" /\ worker'[r].src = worker[r].src /\ worker'[r].copy = worker[r].copy
  BY <1>1, Beginnings, TypesAre DEF Turns, WorkerShape, Stages
<1>4. call' \in [Calls -> CallShape] /\ \A c \in Calls : call'[c] = NoCall
  BY <1>1, Beginnings
<1>5. ToolTypeOK'
  BY <1>1, <1>2, <1>3, <1>4, Beginnings, TypesAre
     DEF Turns, ToolTypeOK, TrackerShape, CallShape, WorkerShape, Stages, PollShape, AnswerShape
<1>6. TrackerIsOwned'
  BY <1>3, <1>4, Beginnings DEF TrackerIsOwned, Busy
<1>7. StagesOfRun'
  BY <1>1, <1>3, <1>4, Beginnings DEF StagesOfRun, Over
<1>8. PollsAgree'
  BY <1>1, Beginnings DEF PollsAgree
<1>9. OutputsHaveRuns'
  BY <1>1, <1>3 DEF Turns, OutputsHaveRuns, Dest
<1>10. QED
  BY <1>5, <1>6, <1>7, <1>8, <1>9 DEF Turns

LEMMA NextTurns ==
  ASSUME ~Overlap, Turns, [ToolNext]_toolVars
  PROVE  Turns'
<1>1. CASE UNCHANGED toolVars
  BY <1>1 DEF Turns, ToolTypeOK, TrackerIsOwned, StagesOfRun, PollsAgree, OutputsHaveRuns, toolVars,
     Busy, Over, Dest
<1>2. CASE \E r \in Runs : Worker(r)
  BY <1>2, NamesStep, WorksStep, OpensStep, WritesStep, ReportsStep, FailsStep DEF Worker
<1>3. QED
  BY <1>1, <1>2, AskStep, ResetStep, ToolStartStep, PollStep, CloseStep DEF ToolNext

(* A poll that says a run is over comes with the whole bar, one outcome and   *)
(* its output on disk, whatever it overtakes (_MergeTracker, the flag last);  *)
(* runs take turns at the tracker when calls of the run handler do.           *)
THEOREM OutcomesAreTold == ASSUME ~Overlap PROVE ToolSpec => []ToolInv
<1>1. Turns /\ [ToolNext]_toolVars => Turns'
  BY NextTurns
<1>2. Turns => ToolInv
  BY Told DEF Turns, ToolInv
<1>3. QED
  BY <1>1, <1>2, InitTool, PTL DEF ToolSpec

HIDE RunFoldersAssumption

-----------------------------------------------------------------------------
USE UpdaterAssumption

StateShape == [latest : Versions, url : Versions, sha : Versions, downloading : BOOLEAN,
               success : BOOLEAN, preflight : BOOLEAN, staged : Versions,
               fresh : {"no", "bg", "page"}]
LocalShape == [tag : Versions, ok : BOOLEAN, version : Versions, sum : Versions,
               pkg : Versions, fd : Inodes \cup {NoFile}]
AllPlaces == {"wait", "idle", "look", "latest", "url", "sha", "close", "decide", "call",
              "preflight", "begin", "fetch", "swap", "open", "copy", "clean", "over"}

LEMMA Types ==
  ASSUME TypeOK
  PROVE  /\ us \in StateShape /\ pc \in [Threads -> AllPlaces] /\ loc \in [Threads -> LocalShape]
         /\ \A t \in Threads : loc[t] \in LocalShape
  BY DEF TypeOK, StateShape, LocalShape, AllPlaces

LEMMA InstallersAreThreads == Installers \subseteq Threads /\ "bg" \in Threads /\ "page" \in Threads
                              /\ "btn" \in Threads /\ "bg" \in Installers /\ "btn" \in Installers
  BY DEF Installers, Threads

LEMMA PlacesKnown ==
  /\ Places["page"] = {"idle", "look", "latest", "url", "sha", "close"}
  /\ Places["btn"] = {"idle", "preflight", "begin", "fetch", "swap", "open", "copy", "clean"}
  /\ Places["bg"] = {"wait", "look", "latest", "url", "sha", "close", "decide", "call",
                     "preflight", "begin", "fetch", "swap", "open", "copy", "clean", "over"}
  /\ Rest["bg"] = "wait" /\ Rest["page"] = "idle" /\ Rest["btn"] = "idle"
  /\ \A t \in Threads : Places[t] \subseteq AllPlaces /\ Rest[t] \in Places[t] /\ Rest[t] \in {"wait", "idle"}
  BY DEF Places, Rest, Threads, AllPlaces

LEMMA FreshKnown ==
  /\ FreshState \in StateShape /\ FreshState.staged = 0 /\ FreshState.latest = 0 /\ FreshState.url = 0
  /\ ~FreshState.downloading /\ ~FreshState.success
  /\ NoLocals \in LocalShape /\ NoLocals.fd = NoFile
  BY DEF FreshState, NoLocals, StateShape, LocalShape, Versions, NoFile

LEMMA InitHolds == Init => UpdaterInv
<1> SUFFICES ASSUME Init PROVE UpdaterInv
  OBVIOUS
<1>1. /\ us = FreshState /\ pc = Rest /\ published = 0 /\ running = 0 /\ spoiled = "no"
      /\ loc = [t \in Threads |-> NoLocals] /\ exe = 1 /\ disk = [i \in Inodes |-> 0] /\ bak = NoFile
      /\ faults = 0 /\ quits = 0
  BY DEF Init
<1>2. 0 \in Versions /\ 1 \in Inodes /\ 1 # NoFile /\ Whole(exe)
  BY <1>1 DEF Versions, Inodes, NoFile, Whole
<1>3. pc \in [Threads -> AllPlaces] /\ \A t \in Threads : pc[t] \in {"wait", "idle"} /\ Resting(t)
                                                         /\ pc[t] \in Places[t]
  BY <1>1, PlacesKnown DEF Rest, AllPlaces, Resting
<1>4. TypeOK
  BY <1>1, <1>2, <1>3, FreshKnown DEF TypeOK, StateShape, LocalShape, AllPlaces
<1>5. OneAtWork
  BY <1>3 DEF OneAtWork
<1>6. ReleaseIsOne
  BY <1>1, <1>3, FreshKnown, InstallersAreThreads DEF ReleaseIsOne
<1>7. SwapStages
  BY <1>1, <1>2, <1>3, FreshKnown DEF SwapStages
<1>8. StagedStays /\ AProgramRemains /\ StagedIsOnDisk
  BY <1>1, <1>2, <1>3, FreshKnown, InstallersAreThreads DEF StagedStays, AProgramRemains, StagedIsOnDisk
<1>9. QED
  BY <1>4, <1>5, <1>6, <1>7, <1>8 DEF UpdaterInv

-----------------------------------------------------------------------------
(* A thread that goes on is the only one at work.                           *)
LEMMA GoesAlone ==
  ASSUME Apart, UpdaterInv, NEW t \in Threads, NEW a \in AllPlaces, NEW b \in Places[t],
         NEW l \in LocalShape, Goes(t, a, b, l)
  PROVE  /\ Up /\ pc[t] = a /\ pc'[t] = b /\ loc'[t] = l /\ a \in Places[t]
         /\ pc' \in [Threads -> AllPlaces] /\ loc' \in [Threads -> LocalShape]
         /\ \A u \in Threads \ {t} : /\ pc'[u] = pc[u] /\ loc'[u] = loc[u] /\ pc[u] \in {"wait", "idle"}
                                     /\ loc[u].fd = NoFile
         /\ OneAtWork'
<1>1. TypeOK /\ OneAtWork /\ SwapStages
  BY DEF UpdaterInv
<1>2. pc \in [Threads -> AllPlaces] /\ loc \in [Threads -> LocalShape] /\ b \in AllPlaces
  BY <1>1, Types, PlacesKnown
<1>3. /\ Up /\ pc[t] = a /\ pc' = [pc EXCEPT ![t] = b] /\ loc' = [loc EXCEPT ![t] = l]
      /\ Resting(t) => \A u \in Threads : Resting(u)
  BY DEF Goes
<1>4. \A u \in Threads \ {t} : Resting(u)
  BY <1>1, <1>3 DEF OneAtWork
<1>5. \A u \in Threads \ {t} : pc'[u] = pc[u] /\ loc'[u] = loc[u] /\ pc[u] \in {"wait", "idle"}
  BY <1>2, <1>3, <1>4, PlacesKnown DEF Resting
<1>6. \A u \in Threads \ {t} : loc[u].fd = NoFile
  BY <1>1, <1>5 DEF SwapStages
<1>7. pc'[t] = b /\ loc'[t] = l /\ pc' \in [Threads -> AllPlaces] /\ loc' \in [Threads -> LocalShape]
  BY <1>2, <1>3
<1>8. OneAtWork'
  BY <1>1, <1>2, <1>4, <1>5, <1>7, PlacesKnown DEF OneAtWork, Resting
<1>9. QED
  BY <1>1, <1>3, <1>5, <1>6, <1>7, <1>8 DEF OneAtWork

(* What the thread at work knows before it goes on.                         *)
LEMMA Known ==
  ASSUME UpdaterInv, NEW t \in Threads, \A u \in Threads \ {t} : pc[u] \in {"wait", "idle"}
  PROVE  /\ us \in StateShape /\ loc[t] \in LocalShape /\ published \in Nat
         /\ us.staged <= us.latest /\ us.latest <= published
         /\ pc[t] # "url" => us.url = us.latest
         /\ pc[t] = "latest" => us.latest <= loc[t].tag
         /\ pc[t] \in {"latest", "url", "sha", "close"} => loc[t].tag <= published
         /\ pc[t] \in {"url", "sha", "close"} => loc[t].tag = us.latest
         /\ pc[t] \in {"swap", "open", "copy", "clean"} => loc[t].pkg = us.latest
         /\ t = "bg" /\ pc[t] \in {"call", "preflight", "begin", "fetch", "swap", "open", "copy",
                                   "clean", "over"} => loc[t].version = us.latest
         /\ IF pc[t] = "copy" THEN loc[t].fd = exe /\ exe # NoFile ELSE loc[t].fd = NoFile
         /\ pc[t] \in {"fetch", "swap", "open", "copy", "clean"} => us.downloading
         /\ pc[t] \in {"open", "copy", "clean"} => spoiled # "failed"
         /\ spoiled = "no" /\ pc[t] = "open" => exe = NoFile /\ Whole(bak)
         /\ spoiled = "no" /\ pc[t] = "copy" => Whole(bak) /\ bak # exe /\ disk[exe] = Part
         /\ spoiled = "no" /\ pc[t] = "clean" => Installed
         /\ spoiled = "no" /\ Up /\ pc[t] \notin {"open", "copy"} => Whole(exe)
         /\ spoiled = "failed" => Whole(bak)
         /\ spoiled = "no" /\ us.staged # 0 /\ us.staged = us.latest
              /\ pc[t] \notin {"open", "copy", "clean"} => Installed
         /\ spoiled = "no" /\ t = "bg" /\ pc[t] = "over" /\ us.success => Installed
<1>1. us \in StateShape /\ loc[t] \in LocalShape /\ published \in Nat
  BY Types DEF UpdaterInv, TypeOK, Versions
<1>2. \A u \in Threads : u # t => pc[u] \notin {"url", "open", "copy", "clean"}
  OBVIOUS
<1>3. QED
  BY <1>1, <1>2 DEF UpdaterInv, ReleaseIsOne, SwapStages, StagedStays, Installed

(* The same after its step, gives back the invariant.                       *)
LEMMA KnownAfter ==
  ASSUME NEW t \in Threads, TypeOK', OneAtWork', "bg" \in Threads,
         \A u \in Threads \ {t} : pc'[u] \in {"wait", "idle"} /\ loc'[u].fd = NoFile,
         us'.staged <= us'.latest, us'.latest <= published',
         pc'[t] # "url" => us'.url = us'.latest,
         pc'[t] = "latest" => us'.latest <= loc'[t].tag,
         pc'[t] \in {"latest", "url", "sha", "close"} => loc'[t].tag <= published',
         pc'[t] \in {"url", "sha", "close"} => loc'[t].tag = us'.latest,
         pc'[t] \in {"swap", "open", "copy", "clean"} => loc'[t].pkg = us'.latest,
         t = "bg" /\ pc'[t] \in {"call", "preflight", "begin", "fetch", "swap", "open", "copy",
                                 "clean", "over"} => loc'[t].version = us'.latest,
         IF pc'[t] = "copy" THEN loc'[t].fd = exe' /\ exe' # NoFile ELSE loc'[t].fd = NoFile,
         pc'[t] \in {"fetch", "swap", "open", "copy", "clean"} => us'.downloading,
         pc'[t] \in {"open", "copy", "clean"} => spoiled' # "failed",
         spoiled' = "no" /\ pc'[t] = "open" => exe' = NoFile /\ Whole(bak)',
         spoiled' = "no" /\ pc'[t] = "copy" => Whole(bak)' /\ bak' # exe' /\ disk'[exe'] = Part,
         spoiled' = "no" /\ pc'[t] = "clean" => Installed',
         spoiled' = "no" /\ Up' /\ pc'[t] \notin {"open", "copy"} => Whole(exe)',
         spoiled' = "no" /\ ~Up' => Whole(exe)' \/ Whole(bak)',
         spoiled' = "failed" => Whole(bak)',
         spoiled' = "no" /\ us'.staged # 0 /\ us'.staged = us'.latest
           /\ pc'[t] \notin {"open", "copy", "clean"} => Installed',
         spoiled' = "no" /\ t = "bg" /\ pc'[t] = "over" /\ us'.success => Installed'
  PROVE  UpdaterInv'
<1>1. \A u \in Threads : u # t => pc'[u] \notin {"latest", "url", "sha", "close", "call", "preflight",
                    "begin", "fetch", "swap", "open", "copy", "clean", "over"}
  OBVIOUS
<1>2. ReleaseIsOne'
  BY <1>1 DEF ReleaseIsOne
<1>3. SwapStages'
  BY <1>1 DEF SwapStages, Installed
<1>4. StagedStays'
  BY <1>1 DEF StagedStays, Installed
<1>5. spoiled' \in {"no", "failed", "retried"}
  BY DEF TypeOK
<1>6. AProgramRemains'
  BY <1>5 DEF AProgramRemains, Whole
<1>7. StagedIsOnDisk'
  BY DEF StagedIsOnDisk, Installed
<1>8. QED
  BY <1>2, <1>3, <1>4, <1>6, <1>7 DEF UpdaterInv


-----------------------------------------------------------------------------
Swapping == {"open", "copy", "clean"}

(* A step of the thread at work that leaves the files alone.                *)
LEMMA QuietStep ==
  ASSUME Apart, UpdaterInv, NEW t \in Threads, NEW a \in AllPlaces \ Swapping,
         NEW b \in Places[t] \ Swapping, NEW l \in LocalShape, Goes(t, a, b, l), l.fd = NoFile,
         us' \in StateShape, faults' \in 0..MaxFaults, UNCHANGED <<files, world>>,
         us'.staged <= us'.latest, us'.latest <= published,
         b # "url" => us'.url = us'.latest,
         b = "latest" => us'.latest <= l.tag,
         b \in {"latest", "url", "sha", "close"} => l.tag <= published,
         b \in {"url", "sha", "close"} => l.tag = us'.latest,
         b = "swap" => l.pkg = us'.latest,
         t = "bg" /\ b \in {"call", "preflight", "begin", "fetch", "swap", "over"}
           => l.version = us'.latest,
         b \in {"fetch", "swap"} => us'.downloading,
         spoiled = "no" /\ us'.staged # 0 /\ us'.staged = us'.latest => Installed',
         spoiled = "no" /\ t = "bg" /\ b = "over" /\ us'.success => Installed'
  PROVE  UpdaterInv'
<1>1. /\ Up /\ pc[t] = a /\ pc'[t] = b /\ loc'[t] = l
      /\ pc' \in [Threads -> AllPlaces] /\ loc' \in [Threads -> LocalShape]
      /\ \A u \in Threads \ {t} : pc'[u] \in {"wait", "idle"} /\ pc[u] \in {"wait", "idle"}
                                  /\ loc'[u].fd = NoFile
      /\ OneAtWork'
  BY GoesAlone
<1>2. UNCHANGED <<exe, bak, disk, spoiled, published, running, quits>>
  BY DEF files, world
<1>3. (spoiled = "no" => Whole(exe)) /\ (spoiled = "failed" => Whole(bak))
  BY <1>1, Known DEF Swapping
<1>4. TypeOK'
  BY <1>1, <1>2 DEF UpdaterInv, TypeOK, StateShape, LocalShape, AllPlaces
<1>5. Whole(exe)' = Whole(exe) /\ Whole(bak)' = Whole(bak) /\ Up'
  BY <1>1, <1>2 DEF Whole, Up
<1>6. b \notin {"open", "copy", "clean"}
  BY DEF Swapping
<1>7. QED
  BY <1>1, <1>2, <1>3, <1>4, <1>5, <1>6, KnownAfter, InstallersAreThreads

LEMMA Faults ==
  ASSUME UpdaterInv, Fault \/ NoFault
  PROVE  faults' \in 0..MaxFaults
  BY DEF UpdaterInv, TypeOK, Fault, NoFault

(* What a step that keeps the locals and the state knows of them.           *)
LEMMA GoesFrom ==
  ASSUME Apart, UpdaterInv, NEW t \in Threads, NEW a, NEW b, NEW l, Goes(t, a, b, l)
  PROVE  /\ pc[t] = a /\ Up /\ \A u \in Threads \ {t} : pc[u] \in {"wait", "idle"}
         /\ us \in StateShape /\ loc[t] \in LocalShape /\ a \in Places[t]
<1>1. Up /\ pc[t] = a /\ (Resting(t) => \A u \in Threads : Resting(u))
  BY DEF Goes
<1>2. \A u \in Threads \ {t} : Resting(u)
  BY <1>1 DEF UpdaterInv, OneAtWork
<1>3. QED
  BY <1>1, <1>2, Types, PlacesKnown DEF Resting, UpdaterInv, OneAtWork

LEMMA NothingFoundStep ==
  ASSUME Apart, UpdaterInv, NEW t \in {"bg", "page"}, NothingFound(t)
  PROVE  UpdaterInv'
<1>1. /\ t \in Threads /\ Goes(t, "look", AfterCheck(t), loc[t]) /\ UNCHANGED <<files, world>>
      /\ us' = [us EXCEPT !.preflight = FALSE, !.fresh = t] /\ faults' \in 0..MaxFaults
  BY Faults, InstallersAreThreads DEF NothingFound, CloseState
<1>2. /\ pc[t] = "look" /\ (\A u \in Threads \ {t} : pc[u] \in {"wait", "idle"})
      /\ us \in StateShape /\ loc[t] \in LocalShape
  BY <1>1, GoesFrom
<1>3. AfterCheck(t) \in Places[t] \ Swapping /\ AfterCheck(t) \in {"decide", "idle"}
      /\ "look" \in AllPlaces \ Swapping
  BY PlacesKnown DEF AfterCheck, Swapping, AllPlaces
<1>4. /\ us' \in StateShape /\ us'.staged = us.staged /\ us'.latest = us.latest /\ us'.url = us.url
      /\ us'.success = us.success
  BY <1>1, <1>2 DEF StateShape
<1>5. Installed' <=> Installed
  BY <1>1, <1>4 DEF Installed, files
<1>6. /\ us.staged <= us.latest /\ us.latest <= published /\ us.url = us.latest
      /\ loc[t].fd = NoFile
      /\ (spoiled = "no" /\ us.staged # 0 /\ us.staged = us.latest => Installed)
  BY <1>1, <1>2, Known
<1>7. QED
  BY <1>1, <1>3, <1>4, <1>5, <1>6, <1>2, QuietStep

LEMMA FoundStep ==
  ASSUME Apart, UpdaterInv, NEW t \in {"bg", "page"}, Found(t)
  PROVE  UpdaterInv'
<1>1. PICK ok \in BOOLEAN :
         /\ faults' \in 0..MaxFaults
         /\ Goes(t, "look", "latest", [loc[t] EXCEPT !.tag = published, !.ok = ok])
  BY Faults DEF Found
<1> DEFINE l == [loc[t] EXCEPT !.tag = published, !.ok = ok]
<1>2. t \in Threads /\ UNCHANGED <<files, world>> /\ us' = us /\ Goes(t, "look", "latest", l)
  BY <1>1, InstallersAreThreads DEF Found
<1>3. /\ pc[t] = "look" /\ (\A u \in Threads \ {t} : pc[u] \in {"wait", "idle"})
      /\ us \in StateShape /\ loc[t] \in LocalShape
  BY <1>2, GoesFrom
<1>4. l \in LocalShape /\ l.tag = published /\ l.fd = loc[t].fd
  BY <1>3 DEF LocalShape, UpdaterInv, TypeOK
<1> HIDE DEF l
<1>5. "latest" \in Places[t] \ Swapping /\ "look" \in AllPlaces \ Swapping
  BY PlacesKnown DEF Swapping, AllPlaces
<1>6. Installed' <=> Installed
  BY <1>2 DEF Installed, files
<1>7. /\ us.staged <= us.latest /\ us.latest <= published /\ us.url = us.latest /\ published \in Nat
      /\ loc[t].fd = NoFile
      /\ (spoiled = "no" /\ us.staged # 0 /\ us.staged = us.latest => Installed)
  BY <1>2, <1>3, Known
<1>8. QED
  BY <1>1, <1>2, <1>3, <1>4, <1>5, <1>6, <1>7, QuietStep


LEMMA AnnounceStep ==
  ASSUME Apart, UpdaterInv, NEW t \in {"bg", "page"}, Announce(t)
  PROVE  UpdaterInv'
<1>1. t \in Threads /\ UNCHANGED <<files, world>> /\ faults' \in 0..MaxFaults
  BY InstallersAreThreads DEF Announce, UpdaterInv, TypeOK
<1>2. \A b : b \in {"url", "sha", "close"} => b \in Places[t] \ Swapping
  BY PlacesKnown DEF Swapping
<1>3. \A a : a \in {"latest", "url", "sha"} => a \in AllPlaces \ Swapping
  BY DEF AllPlaces, Swapping
<1>4. CASE Goes(t, "latest", "url", loc[t]) /\ us' = [us EXCEPT !.latest = loc[t].tag]
  <2>1. /\ pc[t] = "latest" /\ (\A u \in Threads \ {t} : pc[u] \in {"wait", "idle"})
        /\ us \in StateShape /\ loc[t] \in LocalShape
    BY <1>1, <1>4, GoesFrom
  <2>2. /\ us.staged <= us.latest /\ us.latest <= published /\ published \in Nat /\ loc[t].fd = NoFile
        /\ us.latest <= loc[t].tag /\ loc[t].tag <= published
        /\ (spoiled = "no" /\ us.staged # 0 /\ us.staged = us.latest => Installed)
    BY <1>1, <2>1, Known
  <2>3. us' \in StateShape /\ us'.staged = us.staged /\ us'.latest = loc[t].tag /\ us'.url = us.url
    BY <1>4, <2>1 DEF StateShape, LocalShape
  <2>4. us.staged \in Nat /\ us.latest \in Nat /\ loc[t].tag \in Nat
    BY <2>1 DEF StateShape, LocalShape, Versions
  <2>5. us'.staged = us'.latest => us.staged = us.latest /\ us'.latest = us.latest
    BY <2>2, <2>3, <2>4
  <2>6. us'.latest = us.latest => (Installed' <=> Installed)
    BY <1>1 DEF Installed, files
  <2>7. us'.staged <= us'.latest
    BY <2>2, <2>3, <2>4
  <2>8. spoiled = "no" /\ us'.staged # 0 /\ us'.staged = us'.latest => Installed'
    BY <2>2, <2>3, <2>5, <2>6
  <2>9. QED
    BY <1>1, <1>2, <1>3, <1>4, <2>1, <2>2, <2>3, <2>7, <2>8, QuietStep
<1>5. CASE Goes(t, "url", "sha", loc[t]) /\ us' = [us EXCEPT !.url = loc[t].tag]
  <2>1. /\ pc[t] = "url" /\ (\A u \in Threads \ {t} : pc[u] \in {"wait", "idle"})
        /\ us \in StateShape /\ loc[t] \in LocalShape
    BY <1>1, <1>5, GoesFrom
  <2>2. /\ us.staged <= us.latest /\ us.latest <= published /\ loc[t].fd = NoFile
        /\ loc[t].tag = us.latest
        /\ (spoiled = "no" /\ us.staged # 0 /\ us.staged = us.latest => Installed)
    BY <1>1, <2>1, Known
  <2>3. us' \in StateShape /\ us'.staged = us.staged /\ us'.latest = us.latest /\ us'.url = us.latest
    BY <1>5, <2>1, <2>2 DEF StateShape, LocalShape
  <2>4. Installed' <=> Installed
    BY <1>1, <2>3 DEF Installed, files
  <2>5. QED
    BY <1>1, <1>2, <1>3, <1>5, <2>1, <2>2, <2>3, <2>4, QuietStep
<1>6. CASE Goes(t, "sha", "close", loc[t]) /\ us' = [us EXCEPT !.sha = loc[t].tag]
  <2>1. /\ pc[t] = "sha" /\ (\A u \in Threads \ {t} : pc[u] \in {"wait", "idle"})
        /\ us \in StateShape /\ loc[t] \in LocalShape
    BY <1>1, <1>6, GoesFrom
  <2>2. /\ us.staged <= us.latest /\ us.latest <= published /\ loc[t].fd = NoFile
        /\ loc[t].tag = us.latest /\ us.url = us.latest
        /\ (spoiled = "no" /\ us.staged # 0 /\ us.staged = us.latest => Installed)
    BY <1>1, <2>1, Known
  <2>3. us' \in StateShape /\ us'.staged = us.staged /\ us'.latest = us.latest /\ us'.url = us.latest
    BY <1>6, <2>1, <2>2 DEF StateShape, LocalShape
  <2>4. Installed' <=> Installed
    BY <1>1, <2>3 DEF Installed, files
  <2>5. QED
    BY <1>1, <1>2, <1>3, <1>6, <2>1, <2>2, <2>3, <2>4, QuietStep
<1>7. QED
  BY <1>4, <1>5, <1>6 DEF Announce

LEMMA CloseCheckStep ==
  ASSUME Apart, UpdaterInv, NEW t \in {"bg", "page"}, CloseCheck(t)
  PROVE  UpdaterInv'
<1> DEFINE l == loc[t]
<1>1. /\ t \in Threads /\ Goes(t, "close", AfterCheck(t), l)
      /\ UNCHANGED <<files, world>> /\ us' = [us EXCEPT !.preflight = loc[t].ok, !.fresh = t] /\ faults' \in 0..MaxFaults
  BY Faults, InstallersAreThreads DEF CloseCheck, CloseState, UpdaterInv, TypeOK
<1>2. /\ pc[t] = "close" /\ (\A u \in Threads \ {t} : pc[u] \in {"wait", "idle"})
      /\ us \in StateShape /\ loc[t] \in LocalShape
  BY <1>1, GoesFrom
<1>3. /\ us.staged <= us.latest /\ us.latest <= published /\ us.url = us.latest /\ loc[t].fd = NoFile
      /\ (spoiled = "no" /\ us.staged # 0 /\ us.staged = us.latest => Installed)
  BY <1>1, <1>2, Known
<1>4. us' \in StateShape /\ us'.staged = us.staged /\ us'.latest = us.latest /\ us'.url = us.url
  BY <1>1, <1>2 DEF StateShape, LocalShape
<1>5. Installed' <=> Installed
  BY <1>1, <1>4 DEF Installed, files
<1>6. l \in LocalShape /\ l.fd = NoFile
  BY <1>2, <1>3, FreshKnown DEF LocalShape, StateShape
<1>7. AfterCheck(t) \in Places[t] \ Swapping /\ AfterCheck(t) \in {"decide", "idle"} /\ "close" \in AllPlaces \ Swapping
  BY PlacesKnown DEF Swapping, AllPlaces, AfterCheck
<1> HIDE DEF l
<1>8. QED
  BY <1>1, <1>2, <1>3, <1>4, <1>5, <1>6, <1>7, QuietStep

LEMMA WakeToDecideStep ==
  ASSUME Apart, UpdaterInv, Goes("bg", "wait", "decide", loc["bg"]), Wake
  PROVE  UpdaterInv'
<1> DEFINE l == loc["bg"]
<1>1. /\ "bg" \in Threads /\ Goes("bg", "wait", "decide", l)
      /\ UNCHANGED <<files, world>> /\ us' = us /\ faults' \in 0..MaxFaults
  BY Faults, InstallersAreThreads DEF Wake, UpdaterInv, TypeOK
<1>2. /\ pc["bg"] = "wait" /\ (\A u \in Threads \ {"bg"} : pc[u] \in {"wait", "idle"})
      /\ us \in StateShape /\ loc["bg"] \in LocalShape
  BY <1>1, GoesFrom
<1>3. /\ us.staged <= us.latest /\ us.latest <= published /\ us.url = us.latest /\ loc["bg"].fd = NoFile
      /\ (spoiled = "no" /\ us.staged # 0 /\ us.staged = us.latest => Installed)
  BY <1>1, <1>2, Known
<1>4. us' \in StateShape /\ us'.staged = us.staged /\ us'.latest = us.latest /\ us'.url = us.url
  BY <1>1, <1>2 DEF StateShape
<1>5. Installed' <=> Installed
  BY <1>1, <1>4 DEF Installed, files
<1>6. l \in LocalShape /\ l.fd = NoFile
  BY <1>2, <1>3, FreshKnown DEF LocalShape, StateShape
<1>7. "decide" \in Places["bg"] \ Swapping /\ "wait" \in AllPlaces \ Swapping
  BY PlacesKnown DEF Swapping, AllPlaces
<1> HIDE DEF l
<1>8. QED
  BY <1>1, <1>2, <1>3, <1>4, <1>5, <1>6, <1>7, QuietStep

LEMMA WakeToLookStep ==
  ASSUME Apart, UpdaterInv, Goes("bg", "wait", "look", loc["bg"]), Wake
  PROVE  UpdaterInv'
<1> DEFINE l == loc["bg"]
<1>1. /\ "bg" \in Threads /\ Goes("bg", "wait", "look", l)
      /\ UNCHANGED <<files, world>> /\ us' = us /\ faults' \in 0..MaxFaults
  BY Faults, InstallersAreThreads DEF Wake, UpdaterInv, TypeOK
<1>2. /\ pc["bg"] = "wait" /\ (\A u \in Threads \ {"bg"} : pc[u] \in {"wait", "idle"})
      /\ us \in StateShape /\ loc["bg"] \in LocalShape
  BY <1>1, GoesFrom
<1>3. /\ us.staged <= us.latest /\ us.latest <= published /\ us.url = us.latest /\ loc["bg"].fd = NoFile
      /\ (spoiled = "no" /\ us.staged # 0 /\ us.staged = us.latest => Installed)
  BY <1>1, <1>2, Known
<1>4. us' \in StateShape /\ us'.staged = us.staged /\ us'.latest = us.latest /\ us'.url = us.url
  BY <1>1, <1>2 DEF StateShape
<1>5. Installed' <=> Installed
  BY <1>1, <1>4 DEF Installed, files
<1>6. l \in LocalShape /\ l.fd = NoFile
  BY <1>2, <1>3, FreshKnown DEF LocalShape, StateShape
<1>7. "look" \in Places["bg"] \ Swapping /\ "wait" \in AllPlaces \ Swapping
  BY PlacesKnown DEF Swapping, AllPlaces
<1> HIDE DEF l
<1>8. QED
  BY <1>1, <1>2, <1>3, <1>4, <1>5, <1>6, <1>7, QuietStep

LEMMA DecideToCallStep ==
  ASSUME Apart, UpdaterInv, Goes("bg", "decide", "call", [loc["bg"] EXCEPT !.version = us.latest]), Decide
  PROVE  UpdaterInv'
<1> DEFINE l == [loc["bg"] EXCEPT !.version = us.latest]
<1>1. /\ "bg" \in Threads /\ Goes("bg", "decide", "call", l)
      /\ UNCHANGED <<files, world>> /\ us' = us /\ faults' \in 0..MaxFaults
  BY Faults, InstallersAreThreads DEF Decide, UpdaterInv, TypeOK
<1>2. /\ pc["bg"] = "decide" /\ (\A u \in Threads \ {"bg"} : pc[u] \in {"wait", "idle"})
      /\ us \in StateShape /\ loc["bg"] \in LocalShape
  BY <1>1, GoesFrom
<1>3. /\ us.staged <= us.latest /\ us.latest <= published /\ us.url = us.latest /\ loc["bg"].fd = NoFile
      /\ (spoiled = "no" /\ us.staged # 0 /\ us.staged = us.latest => Installed)
  BY <1>1, <1>2, Known
<1>4. us' \in StateShape /\ us'.staged = us.staged /\ us'.latest = us.latest /\ us'.url = us.url
  BY <1>1, <1>2 DEF StateShape
<1>5. Installed' <=> Installed
  BY <1>1, <1>4 DEF Installed, files
<1>6. l \in LocalShape /\ l.fd = NoFile /\ l.version = us.latest
  BY <1>2, <1>3, FreshKnown DEF LocalShape, StateShape
<1>7. "call" \in Places["bg"] \ Swapping /\ "decide" \in AllPlaces \ Swapping
  BY PlacesKnown DEF Swapping, AllPlaces
<1> HIDE DEF l
<1>8. QED
  BY <1>1, <1>2, <1>3, <1>4, <1>5, <1>6, <1>7, QuietStep

LEMMA DecideToWaitStep ==
  ASSUME Apart, UpdaterInv, Goes("bg", "decide", "wait", NoLocals), Decide
  PROVE  UpdaterInv'
<1> DEFINE l == NoLocals
<1>1. /\ "bg" \in Threads /\ Goes("bg", "decide", "wait", l)
      /\ UNCHANGED <<files, world>> /\ us' = us /\ faults' \in 0..MaxFaults
  BY Faults, InstallersAreThreads DEF Decide, UpdaterInv, TypeOK
<1>2. /\ pc["bg"] = "decide" /\ (\A u \in Threads \ {"bg"} : pc[u] \in {"wait", "idle"})
      /\ us \in StateShape /\ loc["bg"] \in LocalShape
  BY <1>1, GoesFrom
<1>3. /\ us.staged <= us.latest /\ us.latest <= published /\ us.url = us.latest /\ loc["bg"].fd = NoFile
      /\ (spoiled = "no" /\ us.staged # 0 /\ us.staged = us.latest => Installed)
  BY <1>1, <1>2, Known
<1>4. us' \in StateShape /\ us'.staged = us.staged /\ us'.latest = us.latest /\ us'.url = us.url
  BY <1>1, <1>2 DEF StateShape
<1>5. Installed' <=> Installed
  BY <1>1, <1>4 DEF Installed, files
<1>6. l \in LocalShape /\ l.fd = NoFile
  BY <1>2, <1>3, FreshKnown DEF LocalShape, StateShape
<1>7. "wait" \in Places["bg"] \ Swapping /\ "decide" \in AllPlaces \ Swapping
  BY PlacesKnown DEF Swapping, AllPlaces
<1> HIDE DEF l
<1>8. QED
  BY <1>1, <1>2, <1>3, <1>4, <1>5, <1>6, <1>7, QuietStep

LEMMA CallStep ==
  ASSUME Apart, UpdaterInv, CallWorker
  PROVE  UpdaterInv'
<1> DEFINE l == [loc["bg"] EXCEPT !.sum = us.sha]
<1>1. /\ "bg" \in Threads /\ Goes("bg", "call", "preflight", l)
      /\ UNCHANGED <<files, world>> /\ us' = us /\ faults' \in 0..MaxFaults
  BY Faults, InstallersAreThreads DEF CallWorker, UpdaterInv, TypeOK
<1>2. /\ pc["bg"] = "call" /\ (\A u \in Threads \ {"bg"} : pc[u] \in {"wait", "idle"})
      /\ us \in StateShape /\ loc["bg"] \in LocalShape
  BY <1>1, GoesFrom
<1>3. /\ us.staged <= us.latest /\ us.latest <= published /\ us.url = us.latest /\ loc["bg"].fd = NoFile
      /\ (spoiled = "no" /\ us.staged # 0 /\ us.staged = us.latest => Installed)
      /\ loc["bg"].version = us.latest
  BY <1>1, <1>2, Known
<1>4. us' \in StateShape /\ us'.staged = us.staged /\ us'.latest = us.latest /\ us'.url = us.url
  BY <1>1, <1>2 DEF StateShape
<1>5. Installed' <=> Installed
  BY <1>1, <1>4 DEF Installed, files
<1>6. l \in LocalShape /\ l.fd = NoFile /\ l.version = us.latest
  BY <1>2, <1>3, FreshKnown DEF LocalShape, StateShape
<1>7. "preflight" \in Places["bg"] \ Swapping /\ "call" \in AllPlaces \ Swapping
  BY PlacesKnown DEF Swapping, AllPlaces
<1> HIDE DEF l
<1>8. QED
  BY <1>1, <1>2, <1>3, <1>4, <1>5, <1>6, <1>7, QuietStep

LEMMA PressCheckStep ==
  ASSUME Apart, UpdaterInv, PressCheck
  PROVE  UpdaterInv'
<1> DEFINE l == NoLocals
<1>1. /\ "page" \in Threads /\ Goes("page", "idle", "look", l)
      /\ UNCHANGED <<files, world>> /\ us' = us /\ faults' \in 0..MaxFaults
  BY Faults, InstallersAreThreads DEF PressCheck, UpdaterInv, TypeOK
<1>2. /\ pc["page"] = "idle" /\ (\A u \in Threads \ {"page"} : pc[u] \in {"wait", "idle"})
      /\ us \in StateShape /\ loc["page"] \in LocalShape
  BY <1>1, GoesFrom
<1>3. /\ us.staged <= us.latest /\ us.latest <= published /\ us.url = us.latest /\ loc["page"].fd = NoFile
      /\ (spoiled = "no" /\ us.staged # 0 /\ us.staged = us.latest => Installed)
  BY <1>1, <1>2, Known
<1>4. us' \in StateShape /\ us'.staged = us.staged /\ us'.latest = us.latest /\ us'.url = us.url
  BY <1>1, <1>2 DEF StateShape
<1>5. Installed' <=> Installed
  BY <1>1, <1>4 DEF Installed, files
<1>6. l \in LocalShape /\ l.fd = NoFile
  BY <1>2, <1>3, FreshKnown DEF LocalShape, StateShape
<1>7. "look" \in Places["page"] \ Swapping /\ "idle" \in AllPlaces \ Swapping
  BY PlacesKnown DEF Swapping, AllPlaces
<1> HIDE DEF l
<1>8. QED
  BY <1>1, <1>2, <1>3, <1>4, <1>5, <1>6, <1>7, QuietStep

LEMMA PressInstallStep ==
  ASSUME Apart, UpdaterInv, PressInstall
  PROVE  UpdaterInv'
<1> DEFINE l == [NoLocals EXCEPT !.sum = us.sha]
<1>1. /\ "btn" \in Threads /\ Goes("btn", "idle", "preflight", l)
      /\ UNCHANGED <<files, world>> /\ us' = us /\ faults' \in 0..MaxFaults
  BY Faults, InstallersAreThreads DEF PressInstall, UpdaterInv, TypeOK
<1>2. /\ pc["btn"] = "idle" /\ (\A u \in Threads \ {"btn"} : pc[u] \in {"wait", "idle"})
      /\ us \in StateShape /\ loc["btn"] \in LocalShape
  BY <1>1, GoesFrom
<1>3. /\ us.staged <= us.latest /\ us.latest <= published /\ us.url = us.latest /\ loc["btn"].fd = NoFile
      /\ (spoiled = "no" /\ us.staged # 0 /\ us.staged = us.latest => Installed)
  BY <1>1, <1>2, Known
<1>4. us' \in StateShape /\ us'.staged = us.staged /\ us'.latest = us.latest /\ us'.url = us.url
  BY <1>1, <1>2 DEF StateShape
<1>5. Installed' <=> Installed
  BY <1>1, <1>4 DEF Installed, files
<1>6. l \in LocalShape /\ l.fd = NoFile
  BY <1>2, <1>3, FreshKnown DEF LocalShape, StateShape
<1>7. "preflight" \in Places["btn"] \ Swapping /\ "idle" \in AllPlaces \ Swapping
  BY PlacesKnown DEF Swapping, AllPlaces
<1> HIDE DEF l
<1>8. QED
  BY <1>1, <1>2, <1>3, <1>4, <1>5, <1>6, <1>7, QuietStep

LEMMA PassStep ==
  ASSUME Apart, UpdaterInv, NEW t \in Installers, Preflight(t), us' = us, Goes(t, "preflight", "begin", loc[t])
  PROVE  UpdaterInv'
<1> DEFINE l == loc[t]
<1>1. /\ t \in Threads /\ Goes(t, "preflight", "begin", l)
      /\ UNCHANGED <<files, world>> /\ us' = us /\ faults' \in 0..MaxFaults
  BY Faults, InstallersAreThreads DEF Preflight, UpdaterInv, TypeOK
<1>2. /\ pc[t] = "preflight" /\ (\A u \in Threads \ {t} : pc[u] \in {"wait", "idle"})
      /\ us \in StateShape /\ loc[t] \in LocalShape
  BY <1>1, GoesFrom
<1>3. /\ us.staged <= us.latest /\ us.latest <= published /\ us.url = us.latest /\ loc[t].fd = NoFile
      /\ (spoiled = "no" /\ us.staged # 0 /\ us.staged = us.latest => Installed)
      /\ (t = "bg" => loc[t].version = us.latest)
  BY <1>1, <1>2, Known
<1>4. us' \in StateShape /\ us'.staged = us.staged /\ us'.latest = us.latest /\ us'.url = us.url
  BY <1>1, <1>2 DEF StateShape
<1>5. Installed' <=> Installed
  BY <1>1, <1>4 DEF Installed, files
<1>6. l \in LocalShape /\ l.fd = NoFile /\ l.version = loc[t].version
  BY <1>2, <1>3, FreshKnown DEF LocalShape, StateShape
<1>7. "begin" \in Places[t] \ Swapping /\ "preflight" \in AllPlaces \ Swapping
  BY PlacesKnown DEF Swapping, AllPlaces, Installers
<1> HIDE DEF l
<1>8. QED
  BY <1>1, <1>2, <1>3, <1>4, <1>5, <1>6, <1>7, QuietStep

LEMMA RejectStep ==
  ASSUME Apart, UpdaterInv, NEW t \in Installers, Preflight(t), us' # us \/ ~Goes(t, "preflight", "begin", loc[t])
  PROVE  UpdaterInv'
<1> DEFINE l == loc[t]
<1>1. /\ t \in Threads /\ Goes(t, "preflight", AfterWork(t), l)
      /\ UNCHANGED <<files, world>> /\ us' = [us EXCEPT !.success = FALSE, !.downloading = FALSE] /\ faults' \in 0..MaxFaults
  BY Faults, InstallersAreThreads DEF Preflight, UpdaterInv, TypeOK
<1>2. /\ pc[t] = "preflight" /\ (\A u \in Threads \ {t} : pc[u] \in {"wait", "idle"})
      /\ us \in StateShape /\ loc[t] \in LocalShape
  BY <1>1, GoesFrom
<1>3. /\ us.staged <= us.latest /\ us.latest <= published /\ us.url = us.latest /\ loc[t].fd = NoFile
      /\ (spoiled = "no" /\ us.staged # 0 /\ us.staged = us.latest => Installed)
      /\ (t = "bg" => loc[t].version = us.latest)
  BY <1>1, <1>2, Known
<1>4. us' \in StateShape /\ us'.staged = us.staged /\ us'.latest = us.latest /\ us'.url = us.url /\ ~us'.success
  BY <1>1, <1>2 DEF StateShape
<1>5. Installed' <=> Installed
  BY <1>1, <1>4 DEF Installed, files
<1>6. l \in LocalShape /\ l.fd = NoFile /\ l.version = loc[t].version
  BY <1>2, <1>3, FreshKnown DEF LocalShape, StateShape
<1>7. AfterWork(t) \in Places[t] \ Swapping /\ AfterWork(t) \in {"over", "idle"}
      /\ "preflight" \in AllPlaces \ Swapping
  BY PlacesKnown DEF Swapping, AllPlaces, AfterWork, Installers
<1> HIDE DEF l
<1>8. QED
  BY <1>1, <1>2, <1>3, <1>4, <1>5, <1>6, <1>7, QuietStep

LEMMA BeginUpdateStep ==
  ASSUME Apart, UpdaterInv, NEW t \in Installers, Begin(t)
  PROVE  UpdaterInv'
<1> DEFINE l == loc[t]
<1>1. /\ t \in Threads /\ Goes(t, "begin", "fetch", l)
      /\ UNCHANGED <<files, world>> /\ us' = [us EXCEPT !.success = FALSE, !.downloading = TRUE] /\ faults' \in 0..MaxFaults
  BY Faults, InstallersAreThreads DEF Begin, UpdaterInv, TypeOK
<1>2. /\ pc[t] = "begin" /\ (\A u \in Threads \ {t} : pc[u] \in {"wait", "idle"})
      /\ us \in StateShape /\ loc[t] \in LocalShape
  BY <1>1, GoesFrom
<1>3. /\ us.staged <= us.latest /\ us.latest <= published /\ us.url = us.latest /\ loc[t].fd = NoFile
      /\ (spoiled = "no" /\ us.staged # 0 /\ us.staged = us.latest => Installed)
      /\ (t = "bg" => loc[t].version = us.latest)
  BY <1>1, <1>2, Known
<1>4. us' \in StateShape /\ us'.staged = us.staged /\ us'.latest = us.latest /\ us'.url = us.url /\ us'.downloading
  BY <1>1, <1>2 DEF StateShape
<1>5. Installed' <=> Installed
  BY <1>1, <1>4 DEF Installed, files
<1>6. l \in LocalShape /\ l.fd = NoFile /\ l.version = loc[t].version
  BY <1>2, <1>3, FreshKnown DEF LocalShape, StateShape
<1>7. "fetch" \in Places[t] \ Swapping /\ "begin" \in AllPlaces \ Swapping
  BY PlacesKnown DEF Swapping, AllPlaces, Installers
<1> HIDE DEF l
<1>8. QED
  BY <1>1, <1>2, <1>3, <1>4, <1>5, <1>6, <1>7, QuietStep

LEMMA FetchedStep ==
  ASSUME Apart, UpdaterInv, NEW t \in Installers, Fetch(t), us' = us, Goes(t, "fetch", "swap", [loc[t] EXCEPT !.pkg = us.url])
  PROVE  UpdaterInv'
<1> DEFINE l == [loc[t] EXCEPT !.pkg = us.url]
<1>1. /\ t \in Threads /\ Goes(t, "fetch", "swap", l)
      /\ UNCHANGED <<files, world>> /\ us' = us /\ faults' \in 0..MaxFaults
  BY Faults, InstallersAreThreads DEF Fetch, UpdaterInv, TypeOK
<1>2. /\ pc[t] = "fetch" /\ (\A u \in Threads \ {t} : pc[u] \in {"wait", "idle"})
      /\ us \in StateShape /\ loc[t] \in LocalShape
  BY <1>1, GoesFrom
<1>3. /\ us.staged <= us.latest /\ us.latest <= published /\ us.url = us.latest /\ loc[t].fd = NoFile
      /\ (spoiled = "no" /\ us.staged # 0 /\ us.staged = us.latest => Installed)
      /\ (t = "bg" => loc[t].version = us.latest)
      /\ us.downloading
  BY <1>1, <1>2, Known
<1>4. us' \in StateShape /\ us'.staged = us.staged /\ us'.latest = us.latest /\ us'.url = us.url
  BY <1>1, <1>2 DEF StateShape
<1>5. Installed' <=> Installed
  BY <1>1, <1>4 DEF Installed, files
<1>6. l \in LocalShape /\ l.fd = NoFile /\ l.version = loc[t].version /\ l.pkg = us.latest
  BY <1>2, <1>3, FreshKnown DEF LocalShape, StateShape
<1>7. "swap" \in Places[t] \ Swapping /\ "fetch" \in AllPlaces \ Swapping
  BY PlacesKnown DEF Swapping, AllPlaces, Installers
<1> HIDE DEF l
<1>8. QED
  BY <1>1, <1>2, <1>3, <1>4, <1>5, <1>6, <1>7, QuietStep

LEMMA FetchFailsStep ==
  ASSUME Apart, UpdaterInv, NEW t \in Installers, Fetch(t), Fails(t, "fetch")
  PROVE  UpdaterInv'
<1> DEFINE l == [loc[t] EXCEPT !.fd = NoFile]
<1>1. /\ t \in Threads /\ Goes(t, "fetch", AfterWork(t), l)
      /\ UNCHANGED <<files, world>> /\ us' = [us EXCEPT !.success = FALSE, !.downloading = FALSE] /\ faults' \in 0..MaxFaults
  BY Faults, InstallersAreThreads DEF Fetch, Fails, UpdaterInv, TypeOK
<1>2. /\ pc[t] = "fetch" /\ (\A u \in Threads \ {t} : pc[u] \in {"wait", "idle"})
      /\ us \in StateShape /\ loc[t] \in LocalShape
  BY <1>1, GoesFrom
<1>3. /\ us.staged <= us.latest /\ us.latest <= published /\ us.url = us.latest /\ loc[t].fd = NoFile
      /\ (spoiled = "no" /\ us.staged # 0 /\ us.staged = us.latest => Installed)
      /\ (t = "bg" => loc[t].version = us.latest)
  BY <1>1, <1>2, Known
<1>4. us' \in StateShape /\ us'.staged = us.staged /\ us'.latest = us.latest /\ us'.url = us.url /\ ~us'.success
  BY <1>1, <1>2 DEF StateShape
<1>5. Installed' <=> Installed
  BY <1>1, <1>4 DEF Installed, files
<1>6. l \in LocalShape /\ l.fd = NoFile /\ l.version = loc[t].version
  BY <1>2, <1>3, FreshKnown DEF LocalShape, StateShape
<1>7. AfterWork(t) \in Places[t] \ Swapping /\ AfterWork(t) \in {"over", "idle"}
      /\ "fetch" \in AllPlaces \ Swapping
  BY PlacesKnown DEF Swapping, AllPlaces, AfterWork, Installers
<1> HIDE DEF l
<1>8. QED
  BY <1>1, <1>2, <1>3, <1>4, <1>5, <1>6, <1>7, QuietStep


(* The update is noted as staged: it is on disk, for all that is known.     *)
LEMMA RecordStep ==
  ASSUME Apart, UpdaterInv, Record
  PROVE  UpdaterInv'
<1>1. /\ "bg" \in Threads /\ Goes("bg", "over", "wait", NoLocals)
      /\ UNCHANGED <<files, world>> /\ faults' \in 0..MaxFaults
  BY InstallersAreThreads DEF Record, UpdaterInv, TypeOK
<1>2. /\ pc["bg"] = "over" /\ (\A u \in Threads \ {"bg"} : pc[u] \in {"wait", "idle"})
      /\ us \in StateShape /\ loc["bg"] \in LocalShape
  BY <1>1, GoesFrom
<1>3. /\ us.staged <= us.latest /\ us.latest <= published /\ us.url = us.latest
      /\ loc["bg"].version = us.latest
      /\ (spoiled = "no" /\ us.staged # 0 /\ us.staged = us.latest => Installed)
      /\ (spoiled = "no" /\ us.success => Installed)
  BY <1>1, <1>2, Known
<1>4. us' \in StateShape /\ us'.latest = us.latest /\ us'.url = us.url
      /\ (us'.staged = us.staged \/ (us.success /\ us'.staged = us.latest))
  BY <1>1, <1>2, <1>3 DEF Record, StateShape, LocalShape
<1>5. Installed' <=> Installed
  BY <1>1, <1>4 DEF Installed, files
<1>6. us.latest <= us.latest
  BY <1>2 DEF StateShape, Versions
<1>7. "wait" \in Places["bg"] \ Swapping /\ "over" \in AllPlaces \ Swapping
  BY PlacesKnown DEF Swapping, AllPlaces
<1>8. us'.staged <= us'.latest /\ (spoiled = "no" /\ us'.staged # 0 /\ us'.staged = us'.latest => Installed')
  BY <1>3, <1>4, <1>5, <1>6
<1>9. QED
  BY <1>1, <1>3, <1>4, <1>7, <1>8, FreshKnown, QuietStep

-----------------------------------------------------------------------------
(* The stages of the swap, by the thread that is alone at it.               *)
LEMMA SwapStep ==
  ASSUME Apart, UpdaterInv, NEW t \in Installers, Swap(t)
  PROVE  UpdaterInv'
<1>1. /\ t \in Threads /\ Goes(t, "swap", "open", loc[t]) /\ UNCHANGED <<us, disk, published, running, quits, faults>>
      /\ exe' = NoFile /\ bak' = (IF exe # NoFile THEN exe ELSE bak)
      /\ spoiled' = (IF spoiled = "no" THEN "no" ELSE "retried")
  BY InstallersAreThreads DEF Swap, world
<1>2. "open" \in Places[t] /\ "swap" \in AllPlaces
  BY PlacesKnown DEF AllPlaces, Installers
<1>3. /\ pc[t] = "swap" /\ (\A u \in Threads \ {t} : pc[u] \in {"wait", "idle"})
      /\ us \in StateShape /\ loc[t] \in LocalShape
  BY <1>1, GoesFrom
<1>4. /\ Up /\ pc'[t] = "open" /\ loc'[t] = loc[t]
      /\ pc' \in [Threads -> AllPlaces] /\ loc' \in [Threads -> LocalShape]
      /\ \A u \in Threads \ {t} : pc'[u] \in {"wait", "idle"} /\ loc'[u].fd = NoFile
      /\ OneAtWork'
  BY <1>1, <1>2, <1>3, GoesAlone
<1>5. /\ us.staged <= us.latest /\ us.latest <= published /\ us.url = us.latest /\ loc[t].fd = NoFile
      /\ loc[t].pkg = us.latest /\ us.downloading
      /\ (t = "bg" => loc[t].version = us.latest)
      /\ (spoiled = "no" => Whole(exe))
  BY <1>1, <1>3, <1>4, Known
<1>6. TypeOK'
  BY <1>1, <1>4 DEF UpdaterInv, TypeOK, StateShape, LocalShape, AllPlaces
<1>7. (spoiled = "no" => Whole(bak)') /\ (Up' <=> Up)
  BY <1>1, <1>5 DEF Whole, Up
<1>8. spoiled' # "failed" /\ (spoiled' = "no" => spoiled = "no")
  BY <1>1
<1>9. QED
  BY <1>1, <1>4, <1>5, <1>6, <1>7, <1>8, KnownAfter, InstallersAreThreads

(* A thread that gives up in the middle spoils what is there; the backup is whole. *)
LEMMA SpoilStep ==
  ASSUME Apart, UpdaterInv, NEW t \in Installers, NEW a \in {"open", "copy"}, Fails(t, a), Fault,
         spoiled' = IF spoiled = "no" THEN "failed" ELSE spoiled,
         UNCHANGED <<exe, disk, bak, world>>
  PROVE  UpdaterInv'
<1> DEFINE l == [loc[t] EXCEPT !.fd = NoFile]
<1>1. /\ t \in Threads /\ Goes(t, a, AfterWork(t), l) /\ faults' \in 0..MaxFaults
      /\ us' = [us EXCEPT !.success = FALSE, !.downloading = FALSE]
      /\ UNCHANGED <<exe, disk, bak, published, running, quits>>
  BY InstallersAreThreads, Faults DEF Fails, world
<1>2. AfterWork(t) \in Places[t] /\ AfterWork(t) \in {"over", "idle"} /\ a \in AllPlaces
  BY PlacesKnown DEF AllPlaces, Installers, AfterWork
<1>3. /\ pc[t] = a /\ (\A u \in Threads \ {t} : pc[u] \in {"wait", "idle"})
      /\ us \in StateShape /\ loc[t] \in LocalShape
  BY <1>1, GoesFrom
<1>4. l \in LocalShape /\ l.fd = NoFile /\ l.version = loc[t].version
  BY <1>3 DEF LocalShape
<1> HIDE DEF l
<1>5. /\ Up /\ pc'[t] = AfterWork(t) /\ loc'[t] = l
      /\ pc' \in [Threads -> AllPlaces] /\ loc' \in [Threads -> LocalShape]
      /\ \A u \in Threads \ {t} : pc'[u] \in {"wait", "idle"} /\ loc'[u].fd = NoFile
      /\ OneAtWork'
  BY <1>1, <1>2, <1>3, <1>4, GoesAlone
<1>6. /\ us.staged <= us.latest /\ us.latest <= published /\ us.url = us.latest
      /\ (t = "bg" => loc[t].version = us.latest)
      /\ spoiled # "failed" /\ (spoiled = "no" => Whole(bak))
  BY <1>1, <1>3, <1>5, Known
<1>7. us' \in StateShape /\ us'.staged = us.staged /\ us'.latest = us.latest /\ us'.url = us.url
  BY <1>1, <1>3 DEF StateShape
<1>8. TypeOK'
  BY <1>1, <1>5, <1>7 DEF UpdaterInv, TypeOK, StateShape, LocalShape, AllPlaces
<1>9. spoiled' # "no" /\ (spoiled' = "failed" => Whole(bak)')
  BY <1>1, <1>6 DEF UpdaterInv, TypeOK, Whole
<1>10. QED
  BY <1>1, <1>2, <1>4, <1>5, <1>6, <1>7, <1>8, <1>9, KnownAfter, InstallersAreThreads

(* Of four inodes one is neither named nor open.                             *)
LEMMA AnInodeIsFree ==
  ASSUME UpdaterInv, exe = NoFile
  PROVE  (CHOOSE n \in Inodes : n \notin InUse) \in Inodes \ InUse
<1>1. InUse = {NoFile, bak, loc["bg"].fd, loc["btn"].fd}
  BY DEF InUse, Installers
<1>2. \E n \in {1, 2, 3, 4} : n \notin {NoFile, bak, loc["bg"].fd, loc["btn"].fd}
  BY DEF NoFile
<1>3. {1, 2, 3, 4} \subseteq Inodes
  BY DEF Inodes
<1>4. QED
  BY <1>1, <1>2, <1>3

LEMMA OpenCopyStep ==
  ASSUME Apart, UpdaterInv, NEW t \in Installers, OpenCopy(t)
  PROVE  UpdaterInv'
<1> DEFINE i == IF exe # NoFile THEN exe ELSE CHOOSE n \in Inodes : n \notin InUse
           l == [loc[t] EXCEPT !.fd = i]
<1>1. i \in Inodes /\ i # NoFile /\ (exe = NoFile => i # bak)
  <2>1. CASE exe = NoFile
    BY <2>1, AnInodeIsFree DEF InUse, Inodes, NoFile
  <2>2. CASE exe # NoFile
    BY <2>2 DEF UpdaterInv, TypeOK
  <2>3. QED
    BY <2>1, <2>2
<1>2. CASE Fault /\ Fails(t, "open") /\ spoiled' = (IF spoiled = "no" THEN "failed" ELSE spoiled)
           /\ UNCHANGED <<exe, disk>>
  BY <1>2, SpoilStep DEF OpenCopy
<1>3. CASE /\ Goes(t, "open", "copy", l) /\ exe' = i /\ disk' = [disk EXCEPT ![i] = Part]
           /\ NoFault /\ UNCHANGED <<us, spoiled>>
  <2>1. /\ t \in Threads /\ faults' \in 0..MaxFaults /\ UNCHANGED <<bak, published, running, quits>>
        /\ "copy" \in Places[t] /\ "open" \in AllPlaces
    BY <1>3, InstallersAreThreads, Faults, PlacesKnown DEF OpenCopy, world, AllPlaces, Installers
  <2>2. /\ pc[t] = "open" /\ (\A u \in Threads \ {t} : pc[u] \in {"wait", "idle"})
        /\ us \in StateShape /\ loc[t] \in LocalShape
    BY <1>3, <2>1, GoesFrom
  <2>3. l \in LocalShape /\ l.fd = i /\ l.version = loc[t].version /\ l.pkg = loc[t].pkg
    BY <1>1, <2>2 DEF LocalShape
  <2> HIDE DEF i, l
  <2>4. /\ Up /\ pc'[t] = "copy" /\ loc'[t] = l
        /\ pc' \in [Threads -> AllPlaces] /\ loc' \in [Threads -> LocalShape]
        /\ \A u \in Threads \ {t} : pc'[u] \in {"wait", "idle"} /\ loc'[u].fd = NoFile
        /\ OneAtWork'
    BY <1>3, <2>1, <2>2, <2>3, GoesAlone
  <2>5. /\ us.staged <= us.latest /\ us.latest <= published /\ us.url = us.latest
        /\ loc[t].pkg = us.latest /\ us.downloading /\ spoiled # "failed"
        /\ (t = "bg" => loc[t].version = us.latest)
        /\ (spoiled = "no" => exe = NoFile /\ Whole(bak))
    BY <2>1, <2>2, <2>4, Known
  <2>6. TypeOK'
    BY <1>1, <1>3, <2>1, <2>4 DEF UpdaterInv, TypeOK, StateShape, LocalShape, AllPlaces
  <2>7. spoiled = "no" => Whole(bak)' /\ bak' # exe' /\ disk'[exe'] = Part
    BY <1>1, <1>3, <2>1, <2>5 DEF Whole, UpdaterInv, TypeOK
  <2>8. Up' /\ exe' # NoFile
    BY <1>1, <1>3, <2>1, <2>4 DEF Up
  <2>9. QED
    BY <1>3, <2>1, <2>3, <2>4, <2>5, <2>6, <2>7, <2>8, KnownAfter, InstallersAreThreads
<1>4. QED
  BY <1>2, <1>3 DEF OpenCopy

LEMMA CopyStep ==
  ASSUME Apart, UpdaterInv, NEW t \in Installers, Copy(t)
  PROVE  UpdaterInv'
<1> DEFINE i == loc[t].fd
           others == {u \in Installers \ {t} : loc[u].fd = i}
           what == IF disk[i] = Junk \/ (\E u \in others : loc[u].pkg # loc[t].pkg)
                   THEN Junk ELSE IF others # {} THEN Part ELSE loc[t].pkg
           l == [loc[t] EXCEPT !.fd = NoFile]
<1>1. CASE Fault /\ Fails(t, "copy") /\ spoiled' = (IF spoiled = "no" THEN "failed" ELSE spoiled)
           /\ UNCHANGED disk
  BY <1>1, SpoilStep DEF Copy
<1>2. CASE /\ Goes(t, "copy", "clean", l) /\ disk' = [disk EXCEPT ![i] = what]
           /\ NoFault /\ UNCHANGED <<us, spoiled>>
  <2>1. /\ t \in Threads /\ faults' \in 0..MaxFaults /\ UNCHANGED <<exe, bak, published, running, quits>>
        /\ "clean" \in Places[t] /\ "copy" \in AllPlaces
    BY <1>2, InstallersAreThreads, Faults, PlacesKnown DEF Copy, world, AllPlaces, Installers
  <2>2. /\ pc[t] = "copy" /\ (\A u \in Threads \ {t} : pc[u] \in {"wait", "idle"})
        /\ us \in StateShape /\ loc[t] \in LocalShape
    BY <1>2, <2>1, GoesFrom
  <2>3. l \in LocalShape /\ l.fd = NoFile /\ l.version = loc[t].version /\ l.pkg = loc[t].pkg
    BY <2>2 DEF LocalShape
  <2>4. /\ Up /\ pc'[t] = "clean" /\ loc'[t] = l
        /\ pc' \in [Threads -> AllPlaces] /\ loc' \in [Threads -> LocalShape]
        /\ \A u \in Threads \ {t} : pc'[u] \in {"wait", "idle"} /\ loc'[u].fd = NoFile /\ loc[u].fd = NoFile
        /\ OneAtWork'
    BY <1>2, <2>1, <2>2, <2>3, GoesAlone
  <2>5. /\ us.staged <= us.latest /\ us.latest <= published /\ us.url = us.latest
        /\ loc[t].pkg = us.latest /\ us.downloading /\ spoiled # "failed"
        /\ (t = "bg" => loc[t].version = us.latest)
        /\ i = exe /\ exe # NoFile /\ (spoiled = "no" => disk[i] = Part)
    BY <2>1, <2>2, <2>4, Known
  <2>6. i \in Inodes /\ others = {} /\ what \in Versions \cup {Part, Junk}
    BY <2>2, <2>4, <2>5, InstallersAreThreads DEF LocalShape
  <2>7. spoiled = "no" => what = us.latest
    <3>1. Part # Junk
      BY DEF Part, Junk
    <3>2. QED
      BY <2>5, <2>6, <3>1
  <2> HIDE DEF what, l
  <2>8. TypeOK'
    BY <1>2, <2>1, <2>4, <2>6 DEF UpdaterInv, TypeOK, StateShape, LocalShape, AllPlaces
  <2>9. exe' # NoFile /\ (spoiled = "no" => Installed' /\ Whole(exe)')
    BY <1>2, <2>1, <2>2, <2>5, <2>6, <2>7 DEF Whole, Installed, StateShape, UpdaterInv, TypeOK
  <2>10. Up'
    BY <2>1, <2>4 DEF Up
  <2>11. QED
    BY <1>2, <2>1, <2>3, <2>4, <2>5, <2>8, <2>9, <2>10, KnownAfter, InstallersAreThreads
<1>3. QED
  BY <1>1, <1>2 DEF Copy

LEMMA CleanStep ==
  ASSUME Apart, UpdaterInv, NEW t \in Installers, Clean(t)
  PROVE  UpdaterInv'
<1>1. /\ t \in Threads /\ Goes(t, "clean", AfterWork(t), loc[t]) /\ bak' = NoFile
      /\ us' = [us EXCEPT !.success = TRUE, !.downloading = FALSE]
      /\ UNCHANGED <<exe, disk, spoiled, published, running, quits, faults>>
  BY InstallersAreThreads DEF Clean, world
<1>2. AfterWork(t) \in Places[t] /\ AfterWork(t) \in {"over", "idle"} /\ "clean" \in AllPlaces
  BY PlacesKnown DEF AllPlaces, Installers, AfterWork
<1>3. /\ pc[t] = "clean" /\ (\A u \in Threads \ {t} : pc[u] \in {"wait", "idle"})
      /\ us \in StateShape /\ loc[t] \in LocalShape
  BY <1>1, GoesFrom
<1>4. /\ Up /\ pc'[t] = AfterWork(t) /\ loc'[t] = loc[t]
      /\ pc' \in [Threads -> AllPlaces] /\ loc' \in [Threads -> LocalShape]
      /\ \A u \in Threads \ {t} : pc'[u] \in {"wait", "idle"} /\ loc'[u].fd = NoFile
      /\ OneAtWork'
  BY <1>1, <1>2, <1>3, GoesAlone
<1>5. /\ us.staged <= us.latest /\ us.latest <= published /\ us.url = us.latest /\ loc[t].fd = NoFile
      /\ (t = "bg" => loc[t].version = us.latest)
      /\ spoiled # "failed" /\ (spoiled = "no" => Installed /\ Whole(exe))
  BY <1>1, <1>3, <1>4, Known
<1>6. us' \in StateShape /\ us'.staged = us.staged /\ us'.latest = us.latest /\ us'.url = us.url
  BY <1>1, <1>3 DEF StateShape
<1>7. TypeOK'
  BY <1>1, <1>4, <1>6 DEF UpdaterInv, TypeOK, StateShape, LocalShape, AllPlaces
<1>8. (Installed' <=> Installed) /\ (Whole(exe)' <=> Whole(exe)) /\ Up'
  BY <1>1, <1>4, <1>6 DEF Installed, Whole, Up
<1>9. QED
  BY <1>1, <1>2, <1>4, <1>5, <1>6, <1>7, <1>8, KnownAfter, InstallersAreThreads


-----------------------------------------------------------------------------
(* The process ends and another may begin: no thread is left, the files are. *)
LEMMA EndUpdateStep ==
  ASSUME UpdaterInv, NEW v \in Versions \cup {Down}, EndsAs(v), UNCHANGED <<published, files, faults>>,
         quits' \in 0..MaxQuits, v # Down => Whole(exe)
  PROVE  UpdaterInv'
<1>1. /\ us' = FreshState /\ pc' = Rest /\ loc' = [u \in Threads |-> NoLocals] /\ running' = v
      /\ UNCHANGED <<published, exe, bak, disk, spoiled, faults>>
  BY DEF EndsAs, files
<1>2. /\ pc' \in [Threads -> AllPlaces] /\ loc' \in [Threads -> LocalShape]
      /\ \A u \in Threads : pc'[u] \in {"wait", "idle"} /\ loc'[u].fd = NoFile /\ pc'[u] \in Places[u]
                            /\ Resting(u)'
  BY <1>1, PlacesKnown, FreshKnown DEF Rest, Resting, AllPlaces
<1>3. TypeOK'
  BY <1>1, <1>2, FreshKnown DEF UpdaterInv, TypeOK, StateShape, LocalShape, AllPlaces
<1>4. OneAtWork'
  BY <1>2 DEF OneAtWork
<1>5. us'.staged = 0 /\ us'.latest = 0 /\ us'.url = 0 /\ 0 <= published
  BY <1>1, FreshKnown DEF UpdaterInv, TypeOK, Versions
<1>6. AProgramRemains' /\ (spoiled = "failed" => Whole(bak)')
  BY <1>1 DEF UpdaterInv, AProgramRemains, SwapStages, Whole
<1>7. Up' => Whole(exe)'
  BY <1>1 DEF Up, Whole
<1>8. QED
  BY <1>1, <1>2, <1>3, <1>4, <1>5, <1>6, <1>7, KnownAfter, InstallersAreThreads DEF AProgramRemains

LEMMA WorldStep ==
  ASSUME UpdaterInv, Apply \/ Quit \/ Start
  PROVE  UpdaterInv'
<1>1. TypeOK /\ MaxQuits \in Nat /\ Down \in Versions \cup {Down}
  BY DEF UpdaterInv
<1>2. CASE Apply
  <2>1. quits' \in 0..MaxQuits
    BY <1>1, <1>2 DEF Apply, TypeOK
  <2>2. Whole(exe) => disk[exe] \in Versions
    BY DEF Whole
  <2>3. QED
    BY <1>1, <1>2, <2>1, <2>2, EndUpdateStep DEF Apply
<1>3. CASE Quit
  <2>1. quits' \in 0..MaxQuits
    BY <1>1, <1>3 DEF Quit, TypeOK
  <2>2. QED
    BY <1>1, <1>3, <2>1, EndUpdateStep DEF Quit
<1>4. CASE Start
  <2>1. quits' \in 0..MaxQuits /\ Whole(exe) /\ disk[exe] \in Versions
    BY <1>1, <1>4 DEF Start, TypeOK, Whole
  <2>2. QED
    BY <1>4, <2>1, EndUpdateStep DEF Start
<1>5. QED
  BY <1>2, <1>3, <1>4

(* A step that touches no thread, no file and nothing that was read.        *)
LEMMA AsideStep ==
  ASSUME UpdaterInv, UNCHANGED <<pc, loc, files, running, faults, quits>>, us' \in StateShape,
         us'.latest = us.latest, us'.url = us.url, us'.staged = us.staged, us'.success = us.success,
         us'.downloading = us.downloading,
         published' \in Versions, published <= published'
  PROVE  UpdaterInv'
<1>1. UNCHANGED <<pc, loc, exe, bak, disk, spoiled, running, faults, quits>>
  BY DEF files
<1>2. (Whole(exe)' <=> Whole(exe)) /\ (Whole(bak)' <=> Whole(bak)) /\ (Installed' <=> Installed)
      /\ (Up' <=> Up)
  BY <1>1 DEF Whole, Installed, Up
<1>3. TypeOK'
  BY <1>1 DEF UpdaterInv, TypeOK, StateShape
<1>4. OneAtWork'
  BY <1>1 DEF UpdaterInv, OneAtWork, Resting
<1>5. /\ us.latest \in Nat /\ published \in Nat /\ published' \in Nat
      /\ \A t \in Threads : loc[t].tag \in Nat
  BY Types DEF UpdaterInv, TypeOK, StateShape, LocalShape, Versions
<1>6. ReleaseIsOne'
  BY <1>1, <1>5 DEF UpdaterInv, ReleaseIsOne
<1>7. SwapStages'
  BY <1>1, <1>2 DEF UpdaterInv, SwapStages
<1>8. StagedStays' /\ AProgramRemains' /\ StagedIsOnDisk'
  BY <1>1, <1>2 DEF UpdaterInv, StagedStays, AProgramRemains, StagedIsOnDisk
<1>9. QED
  BY <1>3, <1>4, <1>6, <1>7, <1>8 DEF UpdaterInv

LEMMA CheckStep ==
  ASSUME Apart, UpdaterInv, NEW t \in {"bg", "page"}, Check(t)
  PROVE  UpdaterInv'
  BY NothingFoundStep, FoundStep, AnnounceStep, CloseCheckStep DEF Check

LEMMA WorkStep ==
  ASSUME Apart, UpdaterInv, NEW t \in Installers, Work(t)
  PROVE  UpdaterInv'
<1>1. CASE Preflight(t)
  <2>1. CASE us' = us /\ Goes(t, "preflight", "begin", loc[t])
    BY <1>1, <2>1, PassStep
  <2>2. CASE us' # us \/ ~Goes(t, "preflight", "begin", loc[t])
    BY <1>1, <2>2, RejectStep
  <2>3. QED
    BY <2>1, <2>2
<1>2. CASE Fetch(t)
  <2>1. CASE us' = us /\ Goes(t, "fetch", "swap", [loc[t] EXCEPT !.pkg = us.url])
    BY <1>2, <2>1, FetchedStep
  <2>2. CASE Fails(t, "fetch")
    BY <1>2, <2>2, FetchFailsStep
  <2>3. QED
    BY <1>2, <2>1, <2>2 DEF Fetch
<1>3. QED
  BY <1>1, <1>2, BeginUpdateStep, SwapStep, OpenCopyStep, CopyStep, CleanStep DEF Work

LEMMA NextStep == Apart /\ UpdaterInv /\ [Next]_vars => UpdaterInv'
<1> SUFFICES ASSUME Apart, UpdaterInv, [Next]_vars PROVE UpdaterInv'
  OBVIOUS
<1>1. us \in StateShape /\ published \in Versions /\ published \in Nat /\ published <= published
  BY Types DEF UpdaterInv, TypeOK, Versions
<1>2. CASE Background
  <2>1. CASE Wake
    BY <2>1, WakeToDecideStep, WakeToLookStep DEF Wake
  <2>2. CASE Decide
    BY <2>2, DecideToCallStep, DecideToWaitStep DEF Decide
  <2>3. CASE Check("bg")
    BY <2>3, CheckStep
  <2>4. CASE Work("bg")
    BY <2>4, WorkStep, InstallersAreThreads
  <2>5. QED
    BY <1>2, <2>1, <2>2, <2>3, <2>4, CallStep, RecordStep DEF Background
<1>3. CASE Check("page")
  BY <1>3, CheckStep
<1>4. CASE Work("btn")
  BY <1>4, WorkStep, InstallersAreThreads
<1>5. CASE PressCheck \/ PressInstall
  BY <1>5, PressCheckStep, PressInstallStep
<1>6. CASE Expire
  <2>1. us' \in StateShape /\ us'.latest = us.latest /\ us'.url = us.url /\ us'.staged = us.staged
        /\ us'.success = us.success /\ us'.downloading = us.downloading
    BY <1>1, <1>6 DEF Expire, StateShape
  <2>2. UNCHANGED <<pc, loc, files, running, faults, quits>> /\ published' = published
    BY <1>6 DEF Expire, world
  <2>3. QED
    BY <1>1, <2>1, <2>2, AsideStep
<1>7. CASE Apply \/ Quit \/ Start
  BY <1>7, WorldStep
<1>8. CASE Publish
  BY <1>1, <1>8, AsideStep DEF Publish, Versions
<1>9. CASE UNCHANGED vars
  BY <1>1, <1>9, AsideStep DEF vars, files
<1>10. QED
  BY <1>2, <1>3, <1>4, <1>5, <1>6, <1>7, <1>8, <1>9 DEF Next

(* Where the checker and the buttons take turns, a whole program is on disk   *)
(* at every moment, through failing copies and a close in the middle, until   *)
(* an install is tried again after a copy failed; and a version announced as  *)
(* staged is on disk (_install_binary_update, _background_check_worker).      *)
THEOREM ProgramKept ==
  ASSUME Apart
  PROVE  Spec => []UpdaterInv
<1>1. UpdaterInv /\ [Next]_vars => UpdaterInv'
  BY NextStep
<1>2. QED
  BY <1>1, InitHolds, PTL DEF Spec

=============================================================================
