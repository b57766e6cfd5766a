------------------------------- MODULE Login -------------------------------
(***************************************************************************)
(* Logging in: ldap_login_handler, SecurityKernel::authenticate and the    *)
(* FreeIPA client of src/src/ldap.rs.  The live directory is outside the   *)
(* program and changes at any time; it is searched in one exchange and     *)
(* asked for the password in another.  Whatever goes wrong there, also a   *)
(* password that it rejects, sends the login to the built-in directory.    *)
(* `shown' is a history variable: every entry of the user that the live    *)
(* directory has had since the login began.                                *)
(***************************************************************************)
EXTENDS PortalRequests

CONSTANTS
    User, Password,
    Group,
    Allowed,        \* allowed_groups of the security kernel
    Mock,           \* user -> entry, the built-in directory
    LiveEntry,      \* the entries that a user may have in the live directory
    NoEntry,        \* the user is not there
    MaxChanges      \* BOUND: changes of the live directory

Entry == [password : Password, groups : SUBSET Group]

ASSUME LoginAssumption ==
    /\ User # {} /\ Password # {}
    /\ Allowed \subseteq Group
    /\ DOMAIN Mock \subseteq User /\ Mock \in [DOMAIN Mock -> Entry]
    /\ LiveEntry \subseteq Entry
    /\ NoEntry \notin Entry
    /\ MaxChanges \in Nat

VARIABLES
    live,           \* user -> entry or NoEntry
    changes,
    credentials,    \* what each login was given
    found,          \* the groups that its search returned
    shown,
    attempts        \* the two labels of datacore_ldap_auth_attempts_total

loginVars == <<live, changes, credentials, found, shown, attempts>>

LoginInit ==
    /\ live \in [User -> LiveEntry \cup {NoEntry}]
    /\ changes = 0
    /\ credentials = [r \in Request |-> [user |-> CHOOSE u \in User : TRUE, password |-> CHOOSE p \in Password : TRUE]]
    /\ found = [r \in Request |-> {}]
    /\ shown = [r \in Request |-> {}]
    /\ attempts = [success |-> 0, failure |-> 0]

StartLogin(r) ==
    /\ Goto(r, "idle", "search")
    /\ \E u \in User, p \in Password :
          /\ credentials' = [credentials EXCEPT ![r] = [user |-> u, password |-> p]]
          /\ shown' = [shown EXCEPT ![r] = {live[u]}]
    /\ UNCHANGED <<live, changes, found, attempts>>

\* Connect, bind as the service and search for the user.
Search(r) ==
    /\ live[credentials[r].user] # NoEntry
    /\ Goto(r, "search", "bind")
    /\ found' = [found EXCEPT ![r] = live[credentials[r].user].groups]
    /\ UNCHANGED <<live, changes, credentials, shown, attempts>>

\* No connection, service bind refused, user not found, or user bind refused.
LiveFails(r) ==
    /\ \/ Goto(r, "search", "mock")
       \/ Goto(r, "bind", "mock")
    /\ UNCHANGED loginVars

Accepts(entry, c) == entry # NoEntry /\ entry.password = c.password

\* authenticate: some group must be an allowed one.
Decide(r, from, groups) ==
    LET ok == groups \cap Allowed # {}
    IN  /\ Goto(r, from, IF ok THEN "answered" ELSE "refused")
        /\ attempts' = IF ok THEN [attempts EXCEPT !.success = @ + 1]
                             ELSE [attempts EXCEPT !.failure = @ + 1]
        /\ UNCHANGED <<live, changes, credentials, found, shown>>

BindKnown(r) ==                                                    \* mutated form
    /\ live[credentials[r].user] # NoEntry
    /\ Decide(r, "bind", found[r])
\* The groups are those of the search, the password is checked now.
BindUser(r) ==
    /\ Accepts(live[credentials[r].user], credentials[r])
    /\ Decide(r, "bind", found[r])

MockEntry(user) == IF user \in DOMAIN Mock THEN Mock[user] ELSE NoEntry

MockAuthenticate(r) ==
    LET entry == MockEntry(credentials[r].user)
    IN  Decide(r, "mock", IF Accepts(entry, credentials[r]) THEN entry.groups ELSE {})

\* The administrators of the live directory.
ChangeDirectory ==
    /\ changes < MaxChanges
    /\ changes' = changes + 1
    /\ \E u \in User, e \in LiveEntry \cup {NoEntry} :
          /\ live' = [live EXCEPT ![u] = e]
          /\ shown' = [r \in Request |->
                         IF pc[r] \in {"search", "bind", "mock"} /\ credentials[r].user = u
                         THEN shown[r] \cup {e} ELSE shown[r]]
    /\ UNCHANGED <<credentials, found, attempts>>

-----------------------------------------------------------------------------
Login == {r \in Request : shown[r] # {}}

\* Who is logged in had the password and an allowed group, each at some moment of the
\* login, though perhaps never both at once: in the live directory, or else in the
\* built-in one, whatever the live directory says of the user.  Each login that came to
\* a verdict is counted once, one whose client went away before it is not.
GrantExplained ==
    /\ \A r \in Login : pc[r] = "answered" =>
          LET c == credentials[r]
              entries == shown[r] \ {NoEntry}
          IN  \/ /\ \E e \in entries : e.groups \cap Allowed # {}
                 /\ \E e \in entries : Accepts(e, c)
              \/ Accepts(MockEntry(c.user), c) /\ MockEntry(c.user).groups \cap Allowed # {}
    /\ attempts.success = Cardinality({r \in Login : pc[r] = "answered"})
    /\ attempts.failure = Cardinality({r \in Login : pc[r] = "refused"})
=============================================================================
