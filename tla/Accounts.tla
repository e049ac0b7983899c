------------------------------ MODULE Accounts ------------------------------
(***************************************************************************)
(* The account routes of mx-server: registration, login, password reset by *)
(* mail and by phone, password change, profile, deletion, and the session  *)
(* tokens mx-auth issues and verifies.  A handler is a task with one step  *)
(* per await; between two steps the stores change under it, and a client   *)
(* that disconnects makes the runtime drop the task where it stands.       *)
(*                                                                         *)
(* A password hash is represented by the password it verifies, a signed    *)
(* token by its claims: clients hold only tokens the server issued.  A     *)
(* request that is refused before it changes a store is no step.           *)
(***************************************************************************)
EXTENDS Naturals

CONSTANTS
    None,       \* an absent value
    Device,     \* device ids, each used for one session
    User,       \* account ids, each used for one registration
    Name,       \* identifiers, trimmed: usernames, addresses, numbers
    Lower,      \* the lower-case form of an identifier
    Blank,      \* an identifier or text with nothing in it but spaces
    Form,       \* the registrations clients submit
    Password,   \* passwords people submit, a temporary one among them
    Weak,       \* those of them the policy refuses
    Temp,       \* temporary passwords, each generated once
    ResetToken, \* reset tokens, each generated once
    Task,       \* request handlers running at the same time
    Text,       \* profile texts
    TokenTTL, ResetTTL,
    MaxTime     \* bound: the last instant of the clock

(* A hash, as the password it verifies: chosen under the policy, or drawn   *)
(* by the server, which makes them meet it.                                *)
Secret == (Password \ Weak) \cup Temp
Option(S) == S \cup {None}

Account ==
    [username : Name, email : Option(Name), phone : Option(Name),
     password : Option(Secret), must : BOOLEAN, profile : Option(Text)]

(* exp, user: the claims.  must: what the response said.  via: history, the *)
(* password the login verified.                                             *)
Claims == [user : User, exp : Nat, must : BOOLEAN, via : Option(Secret)]
ResetEntry == [user : User, exp : Nat]

(* at: the store access the task is about to make.                         *)
Job == [at : {"idle", "password", "device", "mail", "temp", "reset"},
        user : Option(User), password : Option(Secret), must : BOOLEAN,
        key : Option(ResetToken)]
Idle == [at |-> "idle", user |-> None, password |-> None, must |-> FALSE,
         key |-> None]

ASSUME AccountTypes ==
    /\ Lower \in [Name -> Name]
    /\ \A n \in Name : Lower[Lower[n]] = Lower[n]
    /\ Weak \subseteq Password
    /\ Temp \cap Weak = {} /\ Temp \cap ResetToken = {}
    /\ Blank \notin Name \cup Text
    /\ None \notin User \cup Name \cup Password \cup Temp \cup ResetToken
                     \cup Text \cup {Blank}
    /\ None \notin Account /\ None \notin Claims /\ None \notin ResetEntry
    /\ Form \subseteq [username : Option(Name \cup {Blank}),
                       email : Option(Name \cup {Blank}),
                       phone : Option(Name \cup {Blank}),
                       password : Option(Password)]
    /\ TokenTTL \in Nat /\ ResetTTL \in Nat /\ MaxTime \in Nat

VARIABLES
    now,        \* now_ms()
    users,      \* InMemoryUserStore.users
    owner,      \* InMemoryUserStore.devices: the account of a device
    token,      \* the session token of a device, in its client's hands
    resets,     \* AppState.resets
    task,       \* the handlers' program counters and locals
    born,       \* history: account ids taken
    generated,  \* history: temporary passwords and reset tokens drawn
    applied,    \* history: passwords set through a reset token
    abandoned,  \* history: accounts whose registration was dropped
    typed,      \* history: the passwords people submitted for an account
    voided      \* history: reset tokens that set no password: expired,
                \* given up by the client, or for an account that was gone

store == <<users, owner>>
past == <<born, generated, applied, abandoned, typed, voided>>
vars == <<now, users, owner, token, resets, task, born, generated, applied,
          abandoned, typed, voided>>

-----------------------------------------------------------------------------
(* The store's operators.                                                  *)

Live == {u \in User : users[u] # None}

(* trim, then filter(non-empty).                                           *)
Clean(s) == IF s = Blank THEN None ELSE s

(* Variant: an address is stored as it was typed.                          *)
Normalised_AsTyped(f) ==
    [username |-> Clean(f.username), email |-> Clean(f.email),
     phone |-> Clean(f.phone)]

(* register_account: identifiers trimmed, the address lower-cased.         *)
Normalised(f) ==
    [username |-> Clean(f.username),
     email |-> IF Clean(f.email) = None THEN None ELSE Lower[f.email],
     phone |-> Clean(f.phone)]

(* The first identifier given doubles as the display username.             *)
Display(n) ==
    IF n.username # None THEN n.username
    ELSE IF n.email # None THEN n.email ELSE n.phone

(* User::new, with_contacts.                                               *)
NewUser(n) ==
    [username |-> Display(n), email |-> n.email, phone |-> n.phone,
     password |-> None, must |-> FALSE, profile |-> None]

(* create_user: username, address and number are each unique.              *)
Taken(a) ==
    \E u \in Live : \/ users[u].username = a.username
                    \/ a.email # None /\ users[u].email = a.email
                    \/ a.phone # None /\ users[u].phone = a.phone

(* find_by_email, find_by_phone, find_by_username: exact match on one      *)
(* field.                                                                  *)
FindBy(field, name) == {u \in Live : users[u][field] = name}

(* Variant: the flag keeps its old value.                                  *)
SetPassword_KeepFlag(u, pw, must) ==
    [users EXCEPT ![u] = IF @ = None THEN None
                         ELSE [@ EXCEPT !.password = pw, !.must = @ \/ must]]

(* Variant: an account that is not there is made.                          *)
SetPassword_Upsert(u, pw, must) ==
    [users EXCEPT ![u] =
        IF @ = None
        THEN [username |-> CHOOSE n \in Name : TRUE, email |-> None,
              phone |-> None, password |-> pw, must |-> must,
              profile |-> None]
        ELSE [@ EXCEPT !.password = pw, !.must = must]]

(* set_password: the hash and the flag together, nothing when the account  *)
(* is gone.                                                                *)
SetPassword(u, pw, must) ==
    [users EXCEPT ![u] = IF @ = None THEN None
                         ELSE [@ EXCEPT !.password = pw, !.must = must]]

(* set_profile, nothing when the account is gone.                          *)
SetProfile(u, text) ==
    [users EXCEPT ![u] = IF @ = None THEN None ELSE [@ EXCEPT !.profile = text]]

(* Variant: any password will do.                                          *)
PolicyOK_Any(pw) == TRUE

(* check_password_policy.                                                  *)
PolicyOK(pw) == pw \notin Weak

(* issue_token; a registration verifies no password.                       *)
IssueToken(u, must, via) ==
    [user |-> u, exp |-> now + TokenTTL, must |-> must, via |-> via]

(* verify_token and bearer_user: the signature and the expiry, and no look *)
(* at the account.                                                         *)
Verified(d) == token[d] # None /\ now < token[d].exp

(* resets.get, when it is not expired.                                     *)
Usable(r) == resets[r] # None /\ resets[r].exp >= now

-----------------------------------------------------------------------------
(* Registration and login.                                                 *)

(* Variant: only an address makes a password mandatory.                    *)
PasswordGiven_MailOnly(f) ==
    IF f.password # None THEN PolicyOK(f.password) ELSE f.email = None

(* register, before its first await: a password that is given must pass    *)
(* the policy, and a contact makes one mandatory.                          *)
PasswordGiven(f) ==
    IF f.password # None THEN PolicyOK(f.password)
    ELSE f.email = None /\ f.phone = None

(* register, first await: create_user under a fresh id.                    *)
Register(t, f, u) ==
    LET n == Normalised(f)
    IN  /\ task[t] = Idle
        /\ u \notin born
        /\ PasswordGiven(f)
        /\ Display(n) # None
        /\ ~Taken(NewUser(n))
        /\ users' = [users EXCEPT ![u] = NewUser(n)]
        /\ born' = born \cup {u}
        /\ task' = [task EXCEPT ![t] =
              [Idle EXCEPT !.at = IF f.password = None THEN "device" ELSE "password",
                           !.user = u, !.password = f.password]]
        /\ UNCHANGED <<owner, generated, applied, abandoned, typed, voided>>
        /\ UNCHANGED <<now, token, resets>>

(* register, second await; whether the account still exists is ignored.    *)
RegisterPassword(t) ==
    /\ task[t].at = "password"
    /\ users' = SetPassword(task[t].user, task[t].password, FALSE)
    /\ task' = [task EXCEPT ![t] =
          [@ EXCEPT !.at = "device", !.password = None]]
    /\ typed' = typed \cup {<<task[t].user, task[t].password>>}
    /\ UNCHANGED <<owner, born, generated, applied, abandoned, voided>>
    /\ UNCHANGED <<now, token, resets>>

(* Variant: the answer reports the flag as it is now.                      *)
Told_Fresh(j) == users[j.user] # None /\ users[j.user].must

(* must_change, from the clone the login verified; FALSE for a new account. *)
Told(j) == j.must

(* Variant: the account is not looked up again.                            *)
MayOpen_Always(u) == TRUE

(* register_device: NotFound when the account is gone.                     *)
MayOpen(u) == users[u] # None

(* The last await of register and login: the device, then its token.       *)
OpenSession(t, d) ==
    /\ task[t].at = "device"
    /\ token[d] = None
    /\ IF MayOpen(task[t].user)
       THEN /\ owner' = [owner EXCEPT ![d] = task[t].user]
            /\ token' = [token EXCEPT ![d] =
                  IssueToken(task[t].user, Told(task[t]), task[t].password)]
       ELSE UNCHANGED <<owner, token>>
    /\ task' = [task EXCEPT ![t] = Idle]
    /\ UNCHANGED <<now, users, resets, past>>

(* login, first await: the account found by one identifier as it was       *)
(* typed, its password verified on a clone.                                *)
Login(t, field, name, pw) ==
    /\ task[t] = Idle
    /\ \E u \in FindBy(field, name) :
          /\ users[u].password = pw
          /\ task' = [task EXCEPT ![t] =
                [Idle EXCEPT !.at = "device", !.user = u, !.password = pw,
                             !.must = users[u].must]]
    /\ UNCHANGED <<store, past>>
    /\ UNCHANGED <<now, token, resets>>

-----------------------------------------------------------------------------
(* Password reset.                                                         *)

(* forgot_password, first await, by mail or by phone.                      *)
Forgot(t, field, name) ==
    /\ task[t] = Idle
    /\ \E u \in FindBy(field, name) :
          task' = [task EXCEPT ![t] =
             [Idle EXCEPT !.at = IF field = "email" THEN "mail" ELSE "temp",
                          !.user = u]]
    /\ UNCHANGED <<store, past>>
    /\ UNCHANGED <<now, token, resets>>

(* forgot_password by mail, second await: a token for the account found,   *)
(* whatever became of it.                                                  *)
MailToken(t, r) ==
    /\ task[t].at = "mail"
    /\ r \in ResetToken \ generated
    /\ resets' = [resets EXCEPT ![r] =
          [user |-> task[t].user, exp |-> now + ResetTTL]]
    /\ generated' = generated \cup {r}
    /\ task' = [task EXCEPT ![t] = Idle]
    /\ UNCHANGED <<now, store, token, born, applied, abandoned, typed, voided>>

(* forgot_password by phone, second await: a temporary password.           *)
SendTemp(t, pw) ==
    /\ task[t].at = "temp"
    /\ pw \in Temp \ generated
    /\ users' = SetPassword(task[t].user, pw, TRUE)
    /\ generated' = generated \cup {pw}
    /\ task' = [task EXCEPT ![t] = Idle]
    /\ UNCHANGED <<owner, born, applied, abandoned, typed, voided>>
    /\ UNCHANGED <<now, token, resets>>

(* Variant: the token stays in the map.                                    *)
Consumed_Kept(r) == resets

(* resets.remove, of a token that is used and of one found expired.        *)
Consumed(r) == [resets EXCEPT ![r] = None]

(* Variant: the token is taken before the password is looked at.           *)
ResetPassword_TokenFirst(t, r, pw) ==
    /\ task[t] = Idle
    /\ resets[r] # None
    /\ resets' = Consumed(r)
    /\ task' = IF Usable(r) /\ PolicyOK(pw)
               THEN [task EXCEPT ![t] =
                  [Idle EXCEPT !.at = "reset", !.user = resets[r].user,
                               !.password = pw, !.key = r]]
               ELSE task
    /\ voided' = IF Usable(r) THEN voided ELSE voided \cup {r}
    /\ UNCHANGED <<now, store, token, born, generated, applied, abandoned, typed>>

(* reset_password, first await, under the lock of the map: the policy has  *)
(* been checked, a token that has expired is dropped, a usable one is      *)
(* taken.                                                                  *)
ResetPassword(t, r, pw) ==
    /\ task[t] = Idle
    /\ PolicyOK(pw)
    /\ resets[r] # None
    /\ resets' = Consumed(r)
    /\ task' = IF Usable(r)
               THEN [task EXCEPT ![t] =
                  [Idle EXCEPT !.at = "reset", !.user = resets[r].user,
                               !.password = pw, !.key = r]]
               ELSE task
    /\ voided' = IF Usable(r) THEN voided ELSE voided \cup {r}
    /\ UNCHANGED <<now, store, token, born, generated, applied, abandoned, typed>>

(* reset_password, second await; whether the account exists is ignored.    *)
ApplyReset(t) ==
    /\ task[t].at = "reset"
    /\ users' = SetPassword(task[t].user, task[t].password, FALSE)
    /\ IF users[task[t].user] # None
       THEN applied' = [applied EXCEPT ![task[t].key] = @ + 1] /\ UNCHANGED voided
       ELSE voided' = voided \cup {task[t].key} /\ UNCHANGED applied
    /\ typed' = typed \cup {<<task[t].user, task[t].password>>}
    /\ task' = [task EXCEPT ![t] = Idle]
    /\ UNCHANGED <<owner, born, generated, abandoned>>
    /\ UNCHANGED <<now, token, resets>>

-----------------------------------------------------------------------------
(* Requests of a session, each with one store access.                      *)

(* change_password: any password the policy admits, also the one there is. *)
ChangePassword(d, pw) ==
    /\ Verified(d)
    /\ PolicyOK(pw)
    /\ users' = SetPassword(token[d].user, pw, FALSE)
    /\ typed' = typed \cup {<<token[d].user, pw>>}
    /\ UNCHANGED <<owner, task, born, generated, applied, abandoned, voided>>
    /\ UNCHANGED <<now, token, resets>>

(* put_profile: blank fields are unset.                                    *)
PutProfile(d, text) ==
    /\ Verified(d)
    /\ users' = SetProfile(token[d].user, Clean(text))
    /\ UNCHANGED <<owner, task, past>>
    /\ UNCHANGED <<now, token, resets>>

(* admin_delete_user: the account and its devices under one lock.  Its     *)
(* tokens, its reset tokens and its sockets stay.                          *)
DeleteUser(u) ==
    /\ users' = [users EXCEPT ![u] = None]
    /\ owner' = [d \in Device |-> IF owner[d] = u THEN None ELSE owner[d]]
    /\ UNCHANGED <<task, past>>
    /\ UNCHANGED <<now, token, resets>>

(* The client disconnects: the handler's future is dropped at its await.   *)
Cancel(t) ==
    /\ task[t] # Idle
    /\ abandoned' = IF task[t].at = "password"
                    THEN abandoned \cup {task[t].user} ELSE abandoned
    /\ voided' = IF task[t].at = "reset" THEN voided \cup {task[t].key} ELSE voided
    /\ task' = [task EXCEPT ![t] = Idle]
    /\ UNCHANGED <<store, born, generated, applied, typed>>
    /\ UNCHANGED <<now, token, resets>>

(* Time passes.                                                            *)
Tick ==
    /\ now < MaxTime
    /\ now' = now + 1
    /\ UNCHANGED <<store, token, resets, task, past>>

-----------------------------------------------------------------------------
Init ==
    /\ now = 0
    /\ users = [u \in User |-> None]
    /\ owner = [d \in Device |-> None]
    /\ token = [d \in Device |-> None]
    /\ resets = [r \in ResetToken |-> None]
    /\ task = [t \in Task |-> Idle]
    /\ born = {}
    /\ generated = {}
    /\ applied = [r \in ResetToken |-> 0]
    /\ abandoned = {}
    /\ typed = {}
    /\ voided = {}

Handler(t) ==
    \/ \E f \in Form, u \in User : Register(t, f, u)
    \/ RegisterPassword(t)
    \/ \E d \in Device : OpenSession(t, d)
    \/ \E field \in {"username", "email", "phone"}, name \in Name, pw \in Secret :
          Login(t, field, name, pw)
    \/ \E field \in {"email", "phone"}, name \in Name : Forgot(t, field, name)
    \/ \E r \in ResetToken : MailToken(t, r)
    \/ \E pw \in Temp : SendTemp(t, pw)
    \/ \E r \in ResetToken, pw \in Password : ResetPassword(t, r, pw)
    \/ ApplyReset(t)
    \/ Cancel(t)

Session(d) ==
    \/ \E pw \in Password : ChangePassword(d, pw)
    \/ \E text \in Text \cup {Blank} : PutProfile(d, text)

Next ==
    \/ \E t \in Task : Handler(t)
    \/ \E d \in Device : Session(d)
    \/ \E u \in User : DeleteUser(u)
    \/ Tick

Spec == Init /\ [][Next]_vars

-----------------------------------------------------------------------------
TypeOK ==
    /\ now \in Nat
    /\ users \in [User -> Option(Account)]
    /\ owner \in [Device -> Option(User)]
    /\ token \in [Device -> Option(Claims)]
    /\ resets \in [ResetToken -> Option(ResetEntry)]
    /\ task \in [Task -> Job]
    /\ born \subseteq User
    /\ generated \subseteq Temp \cup ResetToken
    /\ applied \in [ResetToken -> Nat]
    /\ abandoned \subseteq User
    /\ typed \subseteq User \X Secret
    /\ voided \subseteq ResetToken

(* No two accounts share a username, a phone number or an address, and     *)
(* addresses are compared without regard to case: create_user's check is   *)
(* exact, and only register_account's lower-casing makes it so.            *)
ContactsUnique ==
    \A u, v \in Live : u # v =>
        /\ users[u].username # users[v].username
        /\ users[u].phone # None => users[u].phone # users[v].phone
        /\ users[u].email # None /\ users[v].email # None =>
              Lower[users[u].email] # Lower[users[v].email]

(* An account that is flagged must_change has a password the server        *)
(* generated, and one with such a password is flagged until somebody       *)
(* submits that same password for it, in whatever order resets, changes    *)
(* and a registration still under way set it.                              *)
FlagMeansTemporary ==
    \A u \in Live :
        /\ users[u].must => users[u].password \in Temp
        /\ users[u].password \in Temp /\ <<u, users[u].password>> \notin typed
           => users[u].must

(* A session that was opened with a temporary password was told to change  *)
(* it, even when the password changed between login's two store accesses:  *)
(* hash and flag come from the same clone.  Not so once somebody submitted *)
(* the temporary password as a new one (MustChangeReported).               *)
TempLoginIsTold ==
    \A d \in Device :
        /\ token[d] # None /\ token[d].via \in Temp
        /\ <<token[d].user, token[d].via>> \notin typed
        => token[d].must

(* What the doc of RegisterResponse says of must_change: "True when the    *)
(* session was opened with a server-generated temporary password".         *)
MustChangeReported ==
    \A d \in Device :
        token[d] # None /\ token[d].via \in Temp \cap generated => token[d].must

(* However many requests present a reset token at once, it sets a password *)
(* at most once.                                                           *)
ResetAtMostOnce == \A r \in ResetToken : applied[r] <= 1

(* A session token belongs to a device that is registered under its        *)
(* account for as long as the account exists, and to no registered device  *)
(* after the account is deleted, however a login or registration and the   *)
(* deletion interleave.                                                    *)
SessionBacked ==
    \A d \in Device : token[d] # None =>
        owner[d] = IF users[token[d].user] # None THEN token[d].user ELSE None

(* register demands a password of everyone who gives a contact: an account *)
(* with a contact is without one only while its registration is between    *)
(* two awaits, or because the client left it there.                        *)
PasswordOrAbandoned ==
    \A u \in Live :
        (users[u].email # None \/ users[u].phone # None) /\ users[u].password = None
        => \/ u \in abandoned
           \/ \E t \in Task : task[t].at = "password" /\ task[t].user = u

(* A deleted account stays deleted: no password, profile or device request *)
(* that was under way, and no token that outlives it, brings it back.      *)
NoResurrection ==
    [][\A u \in born : users[u] = None => users'[u] = None]_vars

(* A reset link that was mailed is still there, or a request is about to   *)
(* set its password, or it has set one, or it is void for one of three     *)
(* reasons: it had expired, the client of its request left, or its account *)
(* was gone.  A request that is refused for its password never costs the   *)
(* link.                                                                   *)
ResetLinkSurvives ==
    \A r \in ResetToken \cap generated :
        \/ resets[r] # None
        \/ \E t \in Task : task[t].at = "reset" /\ task[t].key = r
        \/ applied[r] > 0
        \/ r \in voided
=============================================================================
