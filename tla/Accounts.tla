-------------------------------- MODULE Accounts -------------------------------
(***************************************************************************)
(* Accounts and customers (src/modules/accounts/service.ts,                *)
(* src/modules/customers/service.ts). Who may sign in is in auth_users; a  *)
(* copy of name, address and status, the mirror, is in admin_users or      *)
(* customer_users, and a customer has a status of its own.                 *)
(*                                                                         *)
(* A transaction reads the account without a lock and then updates one row *)
(* after the other; an update waits for the row and keeps it to the end.   *)
(* What it writes is seen when it commits. Names, passwords and sessions   *)
(* are left out.                                                           *)
(***************************************************************************)
EXTENDS FiniteSets, Naturals, Sequences

CONSTANTS Staff,      \* administrators at work
          Accounts, Customers, \* accounts of administrators, and of customers
          Addresses, Nobody, Missing

VARIABLES auth,       \* account -> [banned, address], Missing
          mirror,     \* the copies: [of, address, banned]; of an administrator by the address
          customer,   \* customer -> the row is disabled; Missing
          extras,     \* customers with AI matching
          shops,      \* [customer, active]
          txn, owner

accountVars == <<auth, mirror, customer, extras, shops, txn, owner>>

NoTxn == [op |-> "none"]
Rows == {<<"auth", u>> : u \in Accounts \cup Customers} \cup {<<"mirror", u>> : u \in Accounts \cup Customers}
            \cup {<<"customer", c>> : c \in Customers}
Used == {m.address : m \in mirror}

Init ==
    /\ auth = [u \in Accounts \cup Customers |-> Missing]
    /\ mirror = {} /\ customer = [c \in Customers |-> Missing] /\ extras = {} /\ shops = {}
    /\ txn = [a \in Staff |-> NoTxn] /\ owner = [r \in Rows |-> Nobody]

-----------------------------------------------------------------------------
(* New rows, in one transaction each                                        *)

Present == {u \in DOMAIN auth : auth[u] # Missing}
FreshAddress(x) == x \notin Used /\ \A u \in Present : auth[u].address # x

\* createAdminAccount
CreateAdmin(u, x) ==
    /\ u \in Accounts /\ auth[u] = Missing /\ FreshAddress(x)
    /\ auth' = [auth EXCEPT ![u] = [banned |-> FALSE, address |-> x]]
    /\ mirror' = mirror \cup {[of |-> Nobody, address |-> x, banned |-> FALSE]}
    /\ UNCHANGED <<customer, extras, shops, txn, owner>>

\* provisionCustomerWithStore
Provision(c, x) ==
    /\ customer[c] = Missing /\ FreshAddress(x)
    /\ customer' = [customer EXCEPT ![c] = FALSE]
    /\ shops' = shops \cup {[customer |-> c, active |-> TRUE]}
    /\ auth' = [auth EXCEPT ![c] = [banned |-> FALSE, address |-> x]]
    /\ mirror' = mirror \cup {[of |-> c, address |-> x, banned |-> FALSE]}
    /\ UNCHANGED <<extras, txn, owner>>

\* setStoreStatus; the status of its customer is not looked at.
SetShop(s, on) ==
    /\ s \in shops /\ shops' = (shops \ {s}) \cup {[s EXCEPT !.active = on]}
    /\ UNCHANGED <<auth, mirror, customer, extras, txn, owner>>

-----------------------------------------------------------------------------
(* Changes                                                                  *)

\* The rows that a transaction updates, in the order of the code.
RowsOf(op, u) ==
    CASE op = "customer" -> << <<"customer", u>>, <<"mirror", u>>, <<"auth", u>> >>
      [] op = "matching" -> << <<"customer", u>> >>
      [] OTHER           -> << <<"auth", u>>, <<"mirror", u>> >>

Begin(a, op, u, to) ==
    /\ txn[a] = NoTxn /\ auth[u] # Missing
    /\ op \in {"customer", "matching"} => u \in Customers
    /\ txn' = [txn EXCEPT ![a] = [op |-> op, account |-> u, to |-> to, read |-> auth[u],
                                  todo |-> RowsOf(op, u)]]
    /\ UNCHANGED <<auth, mirror, customer, extras, shops, owner>>

\* updateManagedAccount, setManagedAccountStatus, setCustomerStatus, setCustomerAiSkuMatchAccess
BeginRename(a, u, x) == Begin(a, "rename", u, x)
BeginStatus(a, u, off) == Begin(a, "status", u, off)
BeginCustomer(a, c, off) == Begin(a, "customer", c, off)
BeginMatching(a, c, on) == Begin(a, "matching", c, on)

\* What the statement on a row writes.
Copy(t) ==
    CASE t.op = "rename" -> [address |-> t.to, banned |-> t.read.banned]
      [] t.op = "status" -> [address |-> t.read.address, banned |-> t.to]
OfAccount(t) == IF t.account \in Customers THEN {m \in mirror : m.of = t.account}
                ELSE {m \in mirror : m.of = Nobody /\ m.address = t.read.address}
Key(t) == IF t.account \in Customers THEN t.account ELSE Nobody
\* syncAdminMirror and syncCustomerMirror: a copy that is not found is inserted.
WriteMirror(t) ==
    IF t.op = "customer" THEN {[m EXCEPT !.banned = IF m.of = t.account THEN t.to ELSE @] : m \in mirror}
    ELSE (mirror \ OfAccount(t)) \cup {[of |-> Key(t), address |-> Copy(t).address, banned |-> Copy(t).banned]}
WholeRowAsRead(t) ==
    IF t.op = "rename" THEN [auth EXCEPT ![t.account] = [address |-> t.to, banned |-> t.read.banned]]
    ELSE [auth EXCEPT ![t.account].banned = t.to]
WriteAuth(t) ==
    IF t.op = "rename" THEN [auth EXCEPT ![t.account].address = t.to]
    ELSE [auth EXCEPT ![t.account].banned = t.to]

Statement(a) ==
    /\ txn[a] # NoTxn /\ txn[a].todo # <<>> /\ owner[Head(txn[a].todo)] = Nobody
    /\ owner' = [owner EXCEPT ![Head(txn[a].todo)] = a]
    /\ txn' = [txn EXCEPT ![a].todo = Tail(@)]
    /\ UNCHANGED <<auth, mirror, customer, extras, shops>>

Leave(a) ==
    /\ txn' = [txn EXCEPT ![a] = NoTxn]
    /\ owner' = [r \in Rows |-> IF owner[r] = a THEN Nobody ELSE owner[r]]

\* An address that another account or another mirror has is an error of a unique index.
Taken(t) ==
    \/ t.op = "rename" /\ \E u \in Present \ {t.account} : auth[u].address = t.to
    \/ t.op \in {"rename", "status"} /\ \E m \in mirror \ OfAccount(t) : m.address = Copy(t).address
WriteCustomer(t) == IF t.op = "customer" THEN [customer EXCEPT ![t.account] = t.to] ELSE customer
Commit(a) ==
    /\ txn[a] # NoTxn /\ txn[a].todo = <<>> /\ ~Taken(txn[a])
    /\ LET t == txn[a] IN
       IF t.op = "matching"
       THEN /\ extras' = IF t.to THEN extras \cup {t.account} ELSE extras \ {t.account}
            /\ UNCHANGED <<auth, mirror, customer>>
       ELSE /\ auth' = WriteAuth(t) /\ mirror' = WriteMirror(t) /\ customer' = WriteCustomer(t)
            /\ UNCHANGED extras
    /\ Leave(a) /\ UNCHANGED shops

\* Disabling a customer and disabling its account take the rows in opposite orders.
WaitsFor(a, b) == txn[a] # NoTxn /\ txn[a].todo # <<>> /\ owner[Head(txn[a].todo)] = b
RollBack(a) ==
    /\ \/ txn[a] # NoTxn /\ txn[a].todo = <<>> /\ Taken(txn[a])
       \/ \E b \in Staff \ {a} : WaitsFor(a, b) /\ WaitsFor(b, a)
    /\ Leave(a) /\ UNCHANGED <<auth, mirror, customer, extras, shops>>

Next ==
    \/ \E u \in Accounts, x \in Addresses : CreateAdmin(u, x)
    \/ \E c \in Customers, x \in Addresses : Provision(c, x)
    \/ \E s \in shops, on \in BOOLEAN : SetShop(s, on)
    \/ \E a \in Staff :
          \/ \E u \in Accounts \cup Customers :
                (\E x \in Addresses : BeginRename(a, u, x)) \/ (\E off \in BOOLEAN : BeginStatus(a, u, off))
          \/ \E c \in Customers, on \in BOOLEAN : BeginCustomer(a, c, on) \/ BeginMatching(a, c, on)
          \/ Statement(a) \/ Commit(a) \/ RollBack(a)
Spec == Init /\ [][Next]_accountVars

-----------------------------------------------------------------------------
(* Properties                                                               *)

\* Who may sign in changes only when somebody decides so: a rename that read an account
\* before it was disabled, and is written after, does not let it in again.
OnlyDecisionsBan ==
    [][\A u \in Present : auth'[u].banned # auth[u].banned =>
          \E a \in Staff : /\ txn[a].op \in {"status", "customer"} /\ txn[a].account = u
                           /\ txn[a].to = auth'[u].banned /\ txn'[a] = NoTxn]_accountVars
=============================================================================
