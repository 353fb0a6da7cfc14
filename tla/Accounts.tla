------------------------------ MODULE Accounts ------------------------------
(***************************************************************************)
(* User rows: registration and Google sign-in (backend/app/services/       *)
(* auth_service.py, api/v1/auth.py), the user's own changes                *)
(* (api/v1/settings.py) and the admins' (api/v1/admin.py,                  *)
(* toggle_user_status and delete_user).  The columns that hold a name or a *)
(* password hash are left out but for one that a user can change.          *)
(***************************************************************************)
EXTENDS Naturals, FiniteSets, Orm

CONSTANTS
  UserIds,       \* the UUIDs users can get; one is never given twice
  Addresses,     \* email addresses people sign up with
  Orders,        \* the UUIDs orders can get
  AccountCalls,  \* requests that can be in flight
  MaxPasswords   \* a bound on the passwords a user goes through

\* Nobody signs up with the address of an anonymised user: EmailStr refuses the
\* reserved domain .local.
ASSUME AccountsAssumption ==
  /\ None \notin UserIds \cup Addresses /\ Addresses \cap UserIds = {}
  /\ MaxPasswords \in Nat \ {0}

VARIABLES
  users,         \* users; NoUser where there is no row
  usedUsers,     \* UserIds given away so far
  profiles,      \* users with a mechanic, garage or seller row
  linked,        \* users with other rows that the User class has a relationship to
  orders,        \* marketplace_orders: the customer of each, who need not exist
  accountCalls   \* requests between their reads and their commit

accountsVars == <<users, usedUsers, profiles, linked, orders, accountCalls>>

\* An anonymised address is deleted_<id>@deleted.local.
UserRow ==
  [email : Addresses \cup UserIds, role : {"customer", "mechanic"},
   is_active : BOOLEAN, password_hash : 1..MaxPasswords]
NoUser == [email |-> None, role |-> None, is_active |-> FALSE, password_hash |-> 0]
NoRequest == [op |-> "idle", id |-> None]
Existing == {u \in UserIds : users[u] # NoUser}

\* A provider is never without its profile: both are made in one transaction.
AccountsTypeOK ==
  /\ users \in [UserIds -> UserRow \cup {NoUser}]
  /\ \A u, v \in Existing : users[u].email = users[v].email => u = v
  /\ usedUsers \subseteq UserIds /\ Existing \subseteq usedUsers
  /\ \A u \in Existing : users[u].role = "mechanic" => u \in profiles
  /\ profiles \cup linked \subseteq Existing
  /\ orders \in [Orders -> UserIds \cup {None}]
  /\ \A c \in AccountCalls : accountCalls[c].op \in {"idle", "register", "edit", "toggle", "delete"}

AccountsInit ==
  /\ users = [u \in UserIds |-> NoUser]
  /\ usedUsers = {} /\ profiles = {} /\ linked = {}
  /\ orders = [o \in Orders |-> None]
  /\ accountCalls = [c \in AccountCalls |-> NoRequest]

------------------------------------------------------------------------------
(* The requests.                                                           *)

Request(c, call) ==
  /\ accountCalls[c] = NoRequest
  /\ accountCalls' = [accountCalls EXCEPT ![c] = call]
  /\ UNCHANGED <<users, usedUsers, profiles, linked, orders>>

Over(c) == accountCalls' = [accountCalls EXCEPT ![c] = NoRequest]

SignsUp(c, email, role) ==
  /\ \A u \in Existing : users[u].email # email
  /\ Request(c, [op |-> "register", id |-> None, email |-> email, role |-> role])

\* The register routes and signup: an address that is taken is refused.
Register(c, email, role) == SignsUp(c, email, role)

\* An address that is known is only signed in, whatever role was asked for; an
\* unknown one gets a user with a random password and a profile for the role.
OauthGoogle(c, email, role) == SignsUp(c, email, role)

\* Defect variant: the session is committed after the user and again after the
\* profile, and may be lost between.
WithProfile_SecondCommit(u, role) ==
  {profiles} \cup {profiles \cup {v} : v \in IF role = "customer" THEN {} ELSE {u}}

\* The profile rows after the transaction that makes user u.
WithProfile(u, role) == {profiles \cup {v \in {u} : role # "customer"}}

CommitRegister(c, u) ==
  LET call == accountCalls[c] IN
  /\ call.op = "register" /\ u \notin usedUsers
  /\ \A v \in Existing : users[v].email # call.email   \* the unique index
  /\ users' = [users EXCEPT ![u] =
       [email |-> call.email, role |-> call.role, is_active |-> TRUE, password_hash |-> 1]]
  /\ usedUsers' = usedUsers \cup {u}
  /\ profiles' \in WithProfile(u, call.role)
  /\ Over(c)
  /\ UNCHANGED <<linked, orders>>

EditUser(c, op, u, edited) ==
  Request(c, [op |-> op, id |-> u, changes |-> OrmChanges(users[u], edited)])

\* settings_change_password, and forgot_password_reset, which takes an inactive
\* user as well.
ChangePassword(c, u) ==
  /\ u \in Existing /\ users[u].email \in Addresses
  /\ users[u].password_hash < MaxPasswords   \* the bound
  /\ EditUser(c, "edit", u, [users[u] EXCEPT !.password_hash = @ + 1])

\* settings_delete_account
DeleteAccount(c, u) ==
  /\ u \in Existing /\ users[u].is_active
  /\ EditUser(c, "edit", u, [users[u] EXCEPT !.is_active = FALSE])

\* toggle_user_status; the users here are no admins.
ToggleUserStatus(c, u, is_active) ==
  /\ u \in Existing
  /\ EditUser(c, "toggle", u, [users[u] EXCEPT !.is_active = is_active])

\* The UPDATE finds the row; a row that is gone is a StaleDataError.
CommitEdit(c) ==
  LET call == accountCalls[c] IN
  /\ call.op \in {"edit", "toggle"} /\ call.id \in Existing
  /\ users' = [users EXCEPT ![call.id] = OrmFlush(@, call.changes)]
  /\ Over(c)
  /\ UNCHANGED <<usedUsers, profiles, linked, orders>>

\* delete_user has found the user and the ids of the orders.
DeleteUser(c, u) ==
  /\ u \in Existing
  /\ Request(c, [op |-> "delete", id |-> u, orders |-> {o \in Orders : orders[o] = u}])

\* Defect variant: the rollback only gives back the failed DELETE of the user.
Deactivated_KeepsDeletes(u, named) ==
  /\ users' = [users EXCEPT ![u].is_active = FALSE, ![u].email = u]
  /\ orders' = [o \in Orders |-> IF o \in named THEN None ELSE orders[o]]

\* After the rollback: "deactivate + anonymize so the account is dead but history
\* stays intact".
Deactivated(u, named) ==
  /\ users' = [users EXCEPT ![u].is_active = FALSE, ![u].email = u]
  /\ UNCHANGED orders

\* The User class has relationships without a cascade: deleting a user with such
\* rows sets their NOT NULL keys to NULL, an IntegrityError.
CommitDeleteUser(c) ==
  LET call == accountCalls[c]
      u    == call.id
  IN
  /\ call.op = "delete" /\ u \in Existing
  /\ \/ u \in profiles \cup linked /\ Deactivated(u, call.orders)
     \/ /\ u \notin profiles \cup linked
        /\ users' = [users EXCEPT ![u] = NoUser]
        /\ orders' = [o \in Orders |-> IF o \in call.orders THEN None ELSE orders[o]]
  /\ Over(c)
  /\ UNCHANGED <<usedUsers, profiles, linked>>

AccountCallFails(c) ==
  /\ accountCalls[c] # NoRequest
  /\ Over(c)
  /\ UNCHANGED <<users, usedUsers, profiles, linked, orders>>

\* The user books a job, adds a vehicle or a device, opens the profile page.
UseApp(u) ==
  /\ u \in Existing \ linked /\ users[u].is_active
  /\ linked' = linked \cup {u}
  /\ UNCHANGED <<users, usedUsers, profiles, orders, accountCalls>>

\* marketplace_orders.user_id has no foreign key.
PlaceOrder(u, o) ==
  /\ u \in Existing /\ users[u].is_active
  /\ orders[o] = None
  /\ orders' = [orders EXCEPT ![o] = u]
  /\ UNCHANGED <<users, usedUsers, profiles, linked, accountCalls>>

UserAsks(c) ==
  \/ \E a \in Addresses, role \in {"customer", "mechanic"} :
       Register(c, a, role) \/ OauthGoogle(c, a, role)
  \/ \E u \in UserIds : ChangePassword(c, u) \/ DeleteAccount(c, u)

AdminAsks(c) ==
  \E u \in UserIds : DeleteUser(c, u) \/ \E b \in BOOLEAN : ToggleUserStatus(c, u, b)

AccountsNext ==
  \/ \E c \in AccountCalls :
       \/ UserAsks(c) \/ AdminAsks(c)
       \/ \E u \in UserIds : CommitRegister(c, u)
       \/ CommitEdit(c) \/ CommitDeleteUser(c) \/ AccountCallFails(c)
  \/ \E u \in UserIds : UseApp(u) \/ \E o \in Orders : PlaceOrder(u, o)

AccountsSpec == AccountsInit /\ [][AccountsNext]_accountsVars

------------------------------------------------------------------------------
(* Properties.                                                             *)

\* An order is deleted only together with its customer: where the user stays,
\* deactivated, "history stays intact", although delete_user has deleted the
\* orders before it finds out.
OrdersGoWithUser ==
  [][\A o \in Orders : orders[o] # None /\ orders'[o] = None =>
       orders[o] \in Existing /\ orders[o] \notin Existing']_accountsVars

\* A disabled account comes back only by toggle_user_status: not by a change of
\* password that had read the row before.
OnlyAdminReactivates ==
  [][\A u \in Existing : ~users[u].is_active /\ users'[u].is_active =>
       \E c \in AccountCalls :
         accountCalls[c].op = "toggle" /\ accountCalls[c].id = u /\ accountCalls'[c] = NoRequest]_accountsVars

=============================================================================
