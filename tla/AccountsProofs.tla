--------------------------- MODULE AccountsProofs ---------------------------
(***************************************************************************)
(* Proofs about Accounts, for every set of accounts, devices, handlers,    *)
(* identifiers and tokens, and every TTL.                                  *)
(***************************************************************************)
EXTENDS Accounts, TLAPS

-----------------------------------------------------------------------------
(* The inductive invariant, part by part.                                  *)

(* What a handler carries from one await to the next.  A password it is    *)
(* about to set was chosen under the policy; a login that verified a       *)
(* temporary one read the flag from the same clone, and the flag is on     *)
(* unless somebody submitted that password.                                *)
JobsMakeSense ==
    \A t \in Task :
        LET j == task[t]
        IN  /\ j.at # "idle" => j.user \in born
            /\ j.at \in {"password", "reset"} => j.password \in Password \ Weak
            /\ j.at = "reset" => j.key \in ResetToken
            /\ j.at = "device" /\ j.password \in Temp
               /\ <<j.user, j.password>> \notin typed => j.must

(* Whatever names an account names one that was created.                   *)
OnlyBorn ==
    /\ Live \subseteq born
    /\ \A d \in Device : token[d] # None => token[d].user \in born
    /\ \A r \in ResetToken : resets[r] # None => resets[r].user \in born

TypeInv == TypeOK /\ JobsMakeSense /\ OnlyBorn /\ FlagMeansTemporary

-----------------------------------------------------------------------------
(* The store's operators.                                                  *)

(* set_password makes no account, and changes hash and flag of one.        *)
LEMMA SetPasswordEffect ==
    ASSUME TypeOK, NEW u \in User, NEW pw \in Secret, NEW must \in BOOLEAN
    PROVE  /\ SetPassword(u, pw, must) \in [User -> Option(Account)]
           /\ \A v \in User :
                /\ SetPassword(u, pw, must)[v] = None <=> users[v] = None
                /\ v # u => SetPassword(u, pw, must)[v] = users[v]
                /\ users[v] # None =>
                     /\ SetPassword(u, pw, must)[v].username = users[v].username
                     /\ SetPassword(u, pw, must)[v].email = users[v].email
                     /\ SetPassword(u, pw, must)[v].phone = users[v].phone
           /\ users[u] # None =>
                /\ SetPassword(u, pw, must)[u].password = pw
                /\ SetPassword(u, pw, must)[u].must = must
  <1> USE AccountTypes DEF TypeOK, Option
  <1>1. CASE users[u] = None
    <2>1. SetPassword(u, pw, must) = users
      BY <1>1 DEF SetPassword
    <2>2. QED
      BY <1>1, <2>1
  <1>2. CASE users[u] # None
    <2> DEFINE a == [users[u] EXCEPT !.password = pw, !.must = must]
    <2>0. users[u] \in Account /\ pw \in Option(Secret)
      BY <1>2
    <2>1. /\ a \in Account /\ a.password = pw /\ a.must = must
          /\ a.username = users[u].username
          /\ a.email = users[u].email /\ a.phone = users[u].phone
      BY ONLY <2>0, must \in BOOLEAN DEF Account
    <2>2. SetPassword(u, pw, must) = [users EXCEPT ![u] = a]
      BY <1>2 DEF SetPassword
    <2>3. a # None
      BY <2>1
    <2> HIDE DEF a
    <2>4. QED
      BY <1>2, <2>1, <2>2, <2>3
  <1>3. QED
    BY <1>1, <1>2

(* set_profile makes no account, and changes the profile of one.           *)
LEMMA SetProfileEffect ==
    ASSUME TypeOK, NEW u \in User, NEW text \in Option(Text)
    PROVE  /\ SetProfile(u, text) \in [User -> Option(Account)]
           /\ \A v \in User :
                /\ SetProfile(u, text)[v] = None <=> users[v] = None
                /\ users[v] # None =>
                     /\ SetProfile(u, text)[v].username = users[v].username
                     /\ SetProfile(u, text)[v].email = users[v].email
                     /\ SetProfile(u, text)[v].phone = users[v].phone
                     /\ SetProfile(u, text)[v].password = users[v].password
                     /\ SetProfile(u, text)[v].must = users[v].must
  <1> USE AccountTypes DEF TypeOK, Option
  <1>1. CASE users[u] = None
    <2>1. SetProfile(u, text) = users
      BY <1>1 DEF SetProfile
    <2>2. QED
      BY <1>1, <2>1
  <1>2. CASE users[u] # None
    <2> DEFINE a == [users[u] EXCEPT !.profile = text]
    <2>0. users[u] \in Account
      BY <1>2
    <2>1. /\ a \in Account
          /\ a.username = users[u].username
          /\ a.email = users[u].email /\ a.phone = users[u].phone
          /\ a.password = users[u].password /\ a.must = users[u].must
      BY ONLY <2>0, text \in Option(Text) DEF Account
    <2>2. SetProfile(u, text) = [users EXCEPT ![u] = a]
      BY <1>2 DEF SetProfile
    <2>3. a # None
      BY <2>1
    <2> HIDE DEF a
    <2>4. QED
      BY <1>2, <2>1, <2>2, <2>3
  <1>3. QED
    BY <1>1, <1>2

(* A registration that is not refused makes a well-formed account without  *)
(* a password, whose address is in lower case.                             *)
LEMMA NewUserEffect ==
    ASSUME NEW f \in Form, Display(Normalised(f)) # None
    PROVE  /\ NewUser(Normalised(f)) \in Account
           /\ NewUser(Normalised(f)) # None
           /\ NewUser(Normalised(f)).password = None
           /\ NewUser(Normalised(f)).must = FALSE
           /\ f.email = None => NewUser(Normalised(f)).email = None
           /\ f.phone = None => NewUser(Normalised(f)).phone = None
           /\ NewUser(Normalised(f)).email # None =>
                \E n \in Name : NewUser(Normalised(f)).email = Lower[n]
  <1> DEFINE n == Normalised(f)
  <1>1. /\ f.username \in Option(Name \cup {Blank}) /\ f.email \in Option(Name \cup {Blank})
        /\ f.phone \in Option(Name \cup {Blank}) /\ f.password \in Option(Password)
    BY AccountTypes
  <1>2. /\ n.username = Clean(f.username) /\ n.phone = Clean(f.phone)
        /\ n.email = IF Clean(f.email) = None THEN None ELSE Lower[f.email]
    BY DEF Normalised
  <1>3. n.username \in Option(Name) /\ n.phone \in Option(Name)
    BY <1>1, <1>2 DEF Clean, Option
  <1>4. /\ n.email \in Option(Name)
        /\ n.email # None => f.email \in Name /\ n.email = Lower[f.email]
    BY <1>1, <1>2, AccountTypes DEF Clean, Option
  <1>5. f.email = None => n.email = None
    BY <1>2, AccountTypes DEF Clean
  <1>6. f.phone = None => n.phone = None
    BY <1>2, AccountTypes DEF Clean
  <1>7. Display(n) \in Name
    BY <1>3, <1>4 DEF Display, Option
  <1> HIDE DEF n
  <1>8. /\ NewUser(n) \in Account /\ NewUser(n).password = None /\ NewUser(n).must = FALSE
        /\ NewUser(n).email = n.email /\ NewUser(n).phone = n.phone
    BY <1>3, <1>4, <1>7 DEF NewUser, Account, Option
  <1>9. NewUser(n) # None
    BY <1>8, AccountTypes
  <1>10. QED
    BY <1>4, <1>5, <1>6, <1>8, <1>9 DEF n

(* A handler moves on to job j.                                            *)
LEMMA JobStep ==
    ASSUME TypeOK, JobsMakeSense, NEW t \in Task, NEW j \in Job,
           task' = [task EXCEPT ![t] = j], born \subseteq born',
           typed \subseteq typed',
           j.at # "idle" => j.user \in born',
           j.at \in {"password", "reset"} => j.password \in Password \ Weak,
           j.at = "reset" => j.key \in ResetToken,
           j.at = "device" /\ j.password \in Temp
               /\ <<j.user, j.password>> \notin typed' => j.must
    PROVE  task' \in [Task -> Job] /\ JobsMakeSense'
  <1>1. task' \in [Task -> Job]
    BY DEF TypeOK
  <1>2. task'[t] = j /\ \A s \in Task \ {t} : task'[s] = task[s]
    BY DEF TypeOK
  <1>3. JobsMakeSense'
    BY <1>2 DEF JobsMakeSense
  <1>4. QED
    BY <1>1, <1>3

(* The idle job, and that a handler may always fall back to it.            *)
LEMMA IdleJob ==
    /\ Idle \in Job
    /\ Idle.at = "idle" /\ Idle.user = None /\ Idle.password = None
    /\ Idle.must = FALSE /\ Idle.key = None
  BY DEF Idle, Job, Option

(* Setting a password that was submitted, or a temporary one with the      *)
(* flag, leaves the accounts as the invariant wants them.                  *)
LEMMA PasswordStep ==
    ASSUME TypeOK, OnlyBorn, FlagMeansTemporary, NEW u \in User, NEW pw \in Secret,
           NEW must \in BOOLEAN, must => pw \in Temp,
           typed \subseteq typed', must \/ <<u, pw>> \in typed',
           users' = SetPassword(u, pw, must), UNCHANGED <<born, token, resets>>
    PROVE  users' \in [User -> Option(Account)] /\ OnlyBorn' /\ FlagMeansTemporary'
  <1>1. /\ users' \in [User -> Option(Account)]
        /\ \A v \in User :
             /\ users'[v] = None <=> users[v] = None
             /\ v # u => users'[v] = users[v]
        /\ users[u] # None => users'[u].password = pw /\ users'[u].must = must
    BY SetPasswordEffect
  <1>2. Live' = Live
    BY <1>1 DEF Live
  <1>3. OnlyBorn'
    BY <1>2 DEF OnlyBorn
  <1>4. FlagMeansTemporary'
    BY <1>1, <1>2 DEF FlagMeansTemporary, Live
  <1>5. QED
    BY <1>1, <1>3, <1>4

(* Every step of a handler keeps the invariant.                            *)
LEMMA TypeHandler ==
    ASSUME TypeInv, NEW t \in Task, Handler(t)
    PROVE  TypeInv'
  <1> USE AccountTypes DEF TypeInv
  <1>0. /\ TypeOK /\ JobsMakeSense /\ OnlyBorn /\ FlagMeansTemporary
        /\ task[t] \in Job /\ born \subseteq User
    BY DEF TypeOK
  <1>1. ASSUME NEW f \in Form, NEW u \in User, Register(t, f, u)
        PROVE  TypeInv'
    <2> DEFINE a == NewUser(Normalised(f))
    <2> DEFINE j == [Idle EXCEPT !.at = IF f.password = None THEN "device" ELSE "password",
                                 !.user = u, !.password = f.password]
    <2>1. /\ a \in Account /\ a # None /\ a.password = None /\ a.must = FALSE
      BY <1>1, NewUserEffect DEF Register
    <2>2. f.password \in Option(Password) /\ (f.password # None => f.password \in Password \ Weak)
      BY <1>1 DEF Register, PasswordGiven, PolicyOK, Option
    <2>3. /\ j \in Job /\ j.user = u /\ j.password = f.password /\ j.must = FALSE
          /\ j.at = IF f.password = None THEN "device" ELSE "password"
      BY <2>2, IdleJob DEF Job, Option, Secret
    <2>4. /\ users' = [users EXCEPT ![u] = a] /\ born' = born \cup {u}
          /\ task' = [task EXCEPT ![t] = j] /\ u \notin born
          /\ UNCHANGED <<owner, generated, applied, abandoned, typed, voided, now, token, resets>>
      BY <1>1 DEF Register
    <2> HIDE DEF a, j
    <2>5. task' \in [Task -> Job] /\ JobsMakeSense'
      <3>1. j.at # "idle" => j.user \in born'
        BY <2>3, <2>4
      <3>2. j.at \in {"password", "reset"} => j.password \in Password \ Weak
        BY <2>2, <2>3
      <3>3. j.at # "reset"
        BY <2>3
      <3>4. ~(j.at = "device" /\ j.password \in Temp)
        BY <2>3
      <3>5. born \subseteq born' /\ typed \subseteq typed'
        BY <2>4
      <3>6. QED
        BY <1>0, <2>3, <2>4, <3>1, <3>2, <3>3, <3>4, <3>5, JobStep
    <2>6. users' \in [User -> Option(Account)]
      BY <2>1, <2>4 DEF TypeOK, Option
    <2>7. OnlyBorn'
      BY <2>4 DEF OnlyBorn, Live, TypeOK
    <2>8. FlagMeansTemporary'
      BY <2>1, <2>4 DEF FlagMeansTemporary, Live, TypeOK
    <2>9. TypeOK'
      BY <2>4, <2>5, <2>6 DEF TypeOK
    <2>10. QED
      BY <2>5, <2>7, <2>8, <2>9
  <1>2. CASE RegisterPassword(t)
    <2> DEFINE j == [task[t] EXCEPT !.at = "device", !.password = None]
    <2>1. task[t].user \in born /\ task[t].password \in Password \ Weak
      BY <1>2 DEF JobsMakeSense, RegisterPassword
    <2>2. /\ users' = SetPassword(task[t].user, task[t].password, FALSE)
          /\ task' = [task EXCEPT ![t] = j]
          /\ typed' = typed \cup {<<task[t].user, task[t].password>>}
          /\ UNCHANGED <<owner, born, generated, applied, abandoned, voided, now, token, resets>>
      BY <1>2 DEF RegisterPassword, past
    <2>3. users' \in [User -> Option(Account)] /\ OnlyBorn' /\ FlagMeansTemporary'
      BY <1>0, <2>1, <2>2, PasswordStep DEF Secret
    <2>7. typed' \subseteq User \X Secret
      BY <1>0, <2>1, <2>2 DEF TypeOK, Secret
    <2>4. j \in Job /\ j.at = "device" /\ j.password = None /\ j.user = task[t].user
      BY <1>0 DEF Job, Option
    <2> HIDE DEF j
    <2>5. task' \in [Task -> Job] /\ JobsMakeSense'
      BY <1>0, <2>1, <2>2, <2>4, JobStep
    <2>6. QED
      BY <2>2, <2>3, <2>5, <2>7 DEF TypeOK
  <1>3. ASSUME NEW d \in Device, OpenSession(t, d)
        PROVE  TypeInv'
    <2> DEFINE c == IssueToken(task[t].user, Told(task[t]), task[t].password)
    <2>1. task[t].user \in born
      BY <1>3 DEF JobsMakeSense, OpenSession
    <2>2. c \in Claims /\ c.user = task[t].user
      BY <1>0, <2>1 DEF IssueToken, Told, Claims, Job, TypeOK
    <2>3. /\ \/ /\ owner' = [owner EXCEPT ![d] = task[t].user]
                /\ token' = [token EXCEPT ![d] = c]
             \/ UNCHANGED <<owner, token>>
          /\ task' = [task EXCEPT ![t] = Idle]
          /\ UNCHANGED <<users, born, generated, applied, abandoned, typed, voided, now, resets>>
      BY <1>3 DEF OpenSession, past
    <2> HIDE DEF c
    <2>4. owner' \in [Device -> Option(User)] /\ token' \in [Device -> Option(Claims)]
      BY <1>0, <2>1, <2>2, <2>3 DEF TypeOK, Option
    <2>5. task' \in [Task -> Job] /\ JobsMakeSense'
      BY <1>0, <2>3, IdleJob, JobStep
    <2>6. OnlyBorn'
      BY <2>1, <2>2, <2>3 DEF OnlyBorn, Live, TypeOK
    <2>7. FlagMeansTemporary'
      BY <2>3 DEF FlagMeansTemporary, Live
    <2>8. QED
      BY <2>3, <2>4, <2>5, <2>6, <2>7 DEF TypeOK
  <1>4. ASSUME NEW field \in {"username", "email", "phone"}, NEW name \in Name,
               NEW pw \in Secret, Login(t, field, name, pw)
        PROVE  TypeInv'
    <2>1. PICK u \in FindBy(field, name) :
             /\ users[u].password = pw
             /\ task' = [task EXCEPT ![t] =
                   [Idle EXCEPT !.at = "device", !.user = u, !.password = pw,
                                !.must = users[u].must]]
      BY <1>4, Zenon DEF Login
    <2> DEFINE j == [Idle EXCEPT !.at = "device", !.user = u, !.password = pw,
                                 !.must = users[u].must]
    <2>2. u \in Live /\ u \in born /\ u \in User /\ users[u] \in Account
      BY DEF FindBy, Live, OnlyBorn, TypeOK, Option
    <2>3. users[u].must \in BOOLEAN /\ (pw \in Temp /\ <<u, pw>> \notin typed => users[u].must)
      BY <2>1, <2>2 DEF Account, FlagMeansTemporary
    <2>4. /\ j \in Job /\ j.at = "device" /\ j.user = u /\ j.password = pw
          /\ j.must = users[u].must
      BY <2>2, <2>3, IdleJob DEF Job, Option
    <2>5. UNCHANGED <<users, owner, born, generated, applied, abandoned, typed, voided, now, token, resets>>
      BY <1>4 DEF Login, store, past
    <2>6. task' = [task EXCEPT ![t] = j]
      BY <2>1
    <2> HIDE DEF j
    <2>7. task' \in [Task -> Job] /\ JobsMakeSense'
      BY <1>0, <2>2, <2>3, <2>4, <2>5, <2>6, JobStep
    <2>8. QED
      BY <2>5, <2>7 DEF TypeOK, OnlyBorn, FlagMeansTemporary, Live
  <1>5. ASSUME NEW field \in {"email", "phone"}, NEW name \in Name, Forgot(t, field, name)
        PROVE  TypeInv'
    <2>1. PICK u \in FindBy(field, name) :
             task' = [task EXCEPT ![t] =
                [Idle EXCEPT !.at = IF field = "email" THEN "mail" ELSE "temp",
                             !.user = u]]
      BY <1>5, Zenon DEF Forgot
    <2> DEFINE j == [Idle EXCEPT !.at = IF field = "email" THEN "mail" ELSE "temp",
                                 !.user = u]
    <2>2. u \in born /\ u \in User
      BY DEF FindBy, Live, OnlyBorn
    <2>3. j \in Job /\ j.at \in {"mail", "temp"} /\ j.user = u
      BY <2>2, IdleJob DEF Job, Option
    <2>4. UNCHANGED <<users, owner, born, generated, applied, abandoned, typed, voided, now, token, resets>>
      BY <1>5 DEF Forgot, store, past
    <2>5. task' = [task EXCEPT ![t] = j]
      BY <2>1
    <2> HIDE DEF j
    <2>6. task' \in [Task -> Job] /\ JobsMakeSense'
      BY <1>0, <2>2, <2>3, <2>4, <2>5, JobStep
    <2>7. QED
      BY <2>4, <2>6 DEF TypeOK, OnlyBorn, FlagMeansTemporary, Live
  <1>6. ASSUME NEW r \in ResetToken, MailToken(t, r)
        PROVE  TypeInv'
    <2>1. task[t].user \in born
      BY <1>6 DEF JobsMakeSense, MailToken
    <2> DEFINE e == [user |-> task[t].user, exp |-> now + ResetTTL]
    <2>2. e \in ResetEntry /\ e.user = task[t].user
      BY <1>0, <2>1 DEF ResetEntry, TypeOK
    <2>3. /\ resets' = [resets EXCEPT ![r] = e] /\ generated' = generated \cup {r}
          /\ task' = [task EXCEPT ![t] = Idle]
          /\ UNCHANGED <<users, owner, born, applied, abandoned, typed, voided, now, token>>
      BY <1>6 DEF MailToken, store
    <2> HIDE DEF e
    <2>4. task' \in [Task -> Job] /\ JobsMakeSense'
      BY <1>0, <2>3, IdleJob, JobStep
    <2>5. resets' \in [ResetToken -> Option(ResetEntry)] /\ OnlyBorn'
      BY <2>1, <2>2, <2>3 DEF OnlyBorn, Live, TypeOK, Option
    <2>6. QED
      BY <2>3, <2>4, <2>5 DEF TypeOK, FlagMeansTemporary, Live
  <1>7. ASSUME NEW pw \in Temp, SendTemp(t, pw)
        PROVE  TypeInv'
    <2>1. task[t].user \in born
      BY <1>7 DEF JobsMakeSense, SendTemp
    <2>2. /\ users' = SetPassword(task[t].user, pw, TRUE)
          /\ generated' = generated \cup {pw}
          /\ task' = [task EXCEPT ![t] = Idle]
          /\ UNCHANGED <<owner, born, applied, abandoned, typed, voided, now, token, resets>>
      BY <1>7 DEF SendTemp
    <2>3. users' \in [User -> Option(Account)] /\ OnlyBorn' /\ FlagMeansTemporary'
      BY <1>0, <2>1, <2>2, PasswordStep DEF Secret
    <2>4. task' \in [Task -> Job] /\ JobsMakeSense'
      BY <1>0, <2>2, IdleJob, JobStep
    <2>5. QED
      BY <2>2, <2>3, <2>4 DEF TypeOK
  <1>8. ASSUME NEW r \in ResetToken, NEW pw \in Password, ResetPassword(t, r, pw)
        PROVE  TypeInv'
    <2> DEFINE j == [Idle EXCEPT !.at = "reset", !.user = resets[r].user,
                                 !.password = pw, !.key = r]
    <2>1. resets[r] # None /\ resets[r].user \in born /\ pw \in Password \ Weak
      BY <1>8 DEF ResetPassword, OnlyBorn, PolicyOK
    <2>2. /\ j \in Job /\ j.at = "reset" /\ j.user = resets[r].user
          /\ j.password = pw /\ j.key = r
      BY <1>0, <2>1, IdleJob DEF Job, Option, Secret
    <2>3. /\ resets' = [resets EXCEPT ![r] = None]
          /\ task' = [task EXCEPT ![t] = j] \/ task' = task
          /\ voided' \subseteq voided \cup {r}
          /\ UNCHANGED <<users, owner, born, generated, applied, abandoned, typed, now, token>>
      BY <1>8 DEF ResetPassword, Consumed, store, past
    <2> HIDE DEF j
    <2>4. task' \in [Task -> Job] /\ JobsMakeSense'
      <3>1. CASE task' = [task EXCEPT ![t] = j]
        BY <1>0, <2>1, <2>2, <2>3, <3>1, JobStep
      <3>2. CASE task' = task
        BY <1>0, <2>3, <3>2 DEF JobsMakeSense, TypeOK
      <3>3. QED
        BY <2>3, <3>1, <3>2
    <2>5. resets' \in [ResetToken -> Option(ResetEntry)] /\ OnlyBorn'
      BY <2>3 DEF OnlyBorn, Live, TypeOK, Option
    <2>6. QED
      BY <2>3, <2>4, <2>5 DEF TypeOK, FlagMeansTemporary, Live
  <1>9. CASE ApplyReset(t)
    <2>1. task[t].user \in born /\ task[t].password \in Password \ Weak /\ task[t].key \in ResetToken
      BY <1>9 DEF JobsMakeSense, ApplyReset
    <2>2. /\ users' = SetPassword(task[t].user, task[t].password, FALSE)
          /\ applied' \in {applied, [applied EXCEPT ![task[t].key] = @ + 1]}
          /\ voided' \subseteq voided \cup {task[t].key}
          /\ typed' = typed \cup {<<task[t].user, task[t].password>>}
          /\ task' = [task EXCEPT ![t] = Idle]
          /\ UNCHANGED <<owner, born, generated, abandoned, now, token, resets>>
      BY <1>9 DEF ApplyReset
    <2>3. users' \in [User -> Option(Account)] /\ OnlyBorn' /\ FlagMeansTemporary'
      BY <1>0, <2>1, <2>2, PasswordStep DEF Secret
    <2>4. task' \in [Task -> Job] /\ JobsMakeSense'
      BY <1>0, <2>2, IdleJob, JobStep
    <2>5. applied' \in [ResetToken -> Nat]
      BY <2>1, <2>2 DEF TypeOK
    <2>6. typed' \subseteq User \X Secret /\ voided' \subseteq ResetToken
      BY <1>0, <2>1, <2>2 DEF TypeOK, Secret
    <2>7. QED
      BY <2>2, <2>3, <2>4, <2>5, <2>6 DEF TypeOK
  <1>10. CASE Cancel(t)
    <2>1. /\ \/ abandoned' = abandoned
             \/ task[t].at = "password" /\ abandoned' = abandoned \cup {task[t].user}
          /\ voided' \in {voided, voided \cup {task[t].key}}
          /\ voided' # voided => task[t].at = "reset"
          /\ task' = [task EXCEPT ![t] = Idle]
          /\ UNCHANGED <<users, owner, born, generated, applied, typed, now, token, resets>>
      BY <1>10 DEF Cancel, store
    <2>0. /\ task[t].at = "password" => task[t].user \in User
          /\ task[t].at = "reset" => task[t].key \in ResetToken
      BY <1>0 DEF JobsMakeSense
    <2>2. abandoned' \subseteq User /\ voided' \subseteq ResetToken
      BY <2>0, <2>1 DEF TypeOK
    <2>3. task' \in [Task -> Job] /\ JobsMakeSense'
      BY <1>0, <2>1, IdleJob, JobStep
    <2>4. QED
      BY <2>1, <2>2, <2>3 DEF TypeOK, OnlyBorn, FlagMeansTemporary, Live
  <1>11. QED
    BY <1>1, <1>2, <1>3, <1>4, <1>5, <1>6, <1>7, <1>8, <1>9, <1>10 DEF Handler

(* Every step, of handlers, sessions, the operator and the clock, keeps    *)
(* the invariant.                                                          *)
LEMMA TypeStep == TypeInv /\ [Next]_vars => TypeInv'
  <1> SUFFICES ASSUME TypeInv, [Next]_vars
               PROVE  TypeInv'
    OBVIOUS
  <1>0. /\ TypeOK /\ JobsMakeSense /\ OnlyBorn /\ FlagMeansTemporary
        /\ born \subseteq User
    BY DEF TypeInv, TypeOK
  <1>1. ASSUME NEW d \in Device, NEW pw \in Password, ChangePassword(d, pw)
        PROVE  TypeInv'
    <2>1. token[d].user \in born /\ pw \in Password \ Weak
      BY <1>0, <1>1 DEF ChangePassword, Verified, OnlyBorn, PolicyOK
    <2>2. /\ users' = SetPassword(token[d].user, pw, FALSE)
          /\ typed' = typed \cup {<<token[d].user, pw>>}
          /\ UNCHANGED <<owner, task, born, generated, applied, abandoned, voided, now, token, resets>>
      BY <1>1 DEF ChangePassword, past
    <2>3. users' \in [User -> Option(Account)] /\ OnlyBorn' /\ FlagMeansTemporary'
      BY <1>0, <2>1, <2>2, PasswordStep, AccountTypes DEF Secret
    <2>4. JobsMakeSense'
      BY <1>0, <2>2 DEF JobsMakeSense
    <2>5. typed' \subseteq User \X Secret
      BY <1>0, <2>1, <2>2 DEF TypeOK, Secret
    <2>6. QED
      BY <1>0, <2>2, <2>3, <2>4, <2>5 DEF TypeInv, TypeOK
  <1>2. ASSUME NEW d \in Device, NEW text \in Text \cup {Blank}, PutProfile(d, text)
        PROVE  TypeInv'
    <2>1. token[d].user \in User /\ Clean(text) \in Option(Text)
      BY <1>0, <1>2 DEF PutProfile, Verified, OnlyBorn, Clean, Option
    <2>2. /\ users' = SetProfile(token[d].user, Clean(text))
          /\ UNCHANGED <<owner, task, born, generated, applied, abandoned, typed, voided, now, token, resets>>
      BY <1>2 DEF PutProfile, past
    <2>3. /\ users' \in [User -> Option(Account)]
          /\ \A v \in User :
               /\ users'[v] = None <=> users[v] = None
               /\ users[v] # None => users'[v].password = users[v].password
                                     /\ users'[v].must = users[v].must
      BY <1>0, <2>1, <2>2, SetProfileEffect
    <2>4. Live' = Live
      BY <2>3 DEF Live
    <2>5. OnlyBorn' /\ JobsMakeSense'
      BY <1>0, <2>2, <2>4 DEF OnlyBorn, JobsMakeSense
    <2>6. FlagMeansTemporary'
      BY <1>0, <2>2, <2>3, <2>4 DEF FlagMeansTemporary, Live
    <2>7. QED
      BY <1>0, <2>2, <2>3, <2>5, <2>6 DEF TypeInv, TypeOK
  <1>3. ASSUME NEW u \in User, DeleteUser(u)
        PROVE  TypeInv'
    <2>1. /\ users' = [users EXCEPT ![u] = None]
          /\ owner' = [d \in Device |-> IF owner[d] = u THEN None ELSE owner[d]]
          /\ UNCHANGED <<task, born, generated, applied, abandoned, typed, voided, now, token, resets>>
      BY <1>3 DEF DeleteUser, past
    <2>2. users' \in [User -> Option(Account)] /\ owner' \in [Device -> Option(User)]
      BY <1>0, <2>1 DEF TypeOK, Option
    <2>3. Live' \subseteq Live /\ \A v \in Live' : users'[v] = users[v]
      BY <1>0, <2>1 DEF Live, TypeOK
    <2>4. OnlyBorn' /\ JobsMakeSense' /\ FlagMeansTemporary'
      BY <1>0, <2>1, <2>3 DEF OnlyBorn, JobsMakeSense, FlagMeansTemporary
    <2>5. QED
      BY <1>0, <2>1, <2>2, <2>4 DEF TypeInv, TypeOK
  <1>4. CASE Tick
    BY <1>0, <1>4 DEF Tick, TypeInv, TypeOK, OnlyBorn, JobsMakeSense,
                      FlagMeansTemporary, Live, store, past
  <1>5. CASE UNCHANGED vars
    BY <1>0, <1>5 DEF vars, TypeInv, TypeOK, OnlyBorn, JobsMakeSense,
                      FlagMeansTemporary, Live
  <1>6. QED
    BY <1>1, <1>2, <1>3, <1>4, <1>5, TypeHandler DEF Next, Session

(* No account, session or handler exists at the start.                     *)
LEMMA InitTypes == Init => TypeInv
  <1> SUFFICES ASSUME Init PROVE TypeInv
    OBVIOUS
  <1>1. TypeOK
    BY IdleJob DEF Init, TypeOK, Option
  <1>2. Live = {} /\ \A t \in Task : task[t] = Idle
    BY DEF Init, Live
  <1>3. JobsMakeSense
    BY <1>2, IdleJob, AccountTypes DEF JobsMakeSense
  <1>4. OnlyBorn
    BY <1>2 DEF Init, OnlyBorn
  <1>5. FlagMeansTemporary
    BY <1>2 DEF FlagMeansTemporary
  <1>6. QED
    BY <1>1, <1>3, <1>4, <1>5 DEF TypeInv

(* The invariant holds throughout.                                         *)
LEMMA TypeInvariant == Spec => []TypeInv
  BY InitTypes, TypeStep, PTL DEF Spec

(* Types hold in every state of the account routes.                        *)
THEOREM TypeCorrect == Spec => []TypeOK
  <1>1. TypeInv => TypeOK
    BY DEF TypeInv
  <1>2. QED
    BY <1>1, TypeInvariant, PTL

(* For any number of accounts and overlapping handlers, a flagged account  *)
(* has a generated password, and an account with one is flagged unless     *)
(* somebody submitted that password for it.                                *)
THEOREM FlagIsTrue == Spec => []FlagMeansTemporary
  <1>1. TypeInv => FlagMeansTemporary
    BY DEF TypeInv
  <1>2. QED
    BY <1>1, TypeInvariant, PTL

-----------------------------------------------------------------------------
(* What a step does to the accounts.                                       *)

(* Accounts stay, with their identifiers; a password may be replaced, not  *)
(* taken away.                                                             *)
Keeps ==
    \A v \in User :
        /\ users'[v] = None <=> users[v] = None
        /\ users[v] # None =>
             /\ users'[v].username = users[v].username
             /\ users'[v].email = users[v].email
             /\ users'[v].phone = users[v].phone
             /\ users[v].password # None => users'[v].password # None

(* What each step of a handler leaves alone.                               *)
LEMMA HandlerFrames ==
    ASSUME NEW t
    PROVE  /\ \A f, u : Register(t, f, u) =>
                 /\ owner' = owner /\ token' = token /\ resets' = resets
                 /\ generated' = generated /\ applied' = applied /\ abandoned' = abandoned
           /\ RegisterPassword(t) =>
                 /\ owner' = owner /\ token' = token /\ resets' = resets /\ born' = born
                 /\ generated' = generated /\ applied' = applied /\ abandoned' = abandoned
           /\ \A d : OpenSession(t, d) =>
                 /\ users' = users /\ resets' = resets /\ born' = born
                 /\ generated' = generated /\ applied' = applied /\ abandoned' = abandoned
           /\ \A field, name, pw : Login(t, field, name, pw) \/ Forgot(t, field, name) =>
                 /\ users' = users /\ owner' = owner /\ token' = token /\ resets' = resets
                 /\ born' = born /\ generated' = generated /\ applied' = applied
                 /\ abandoned' = abandoned
           /\ \A r : MailToken(t, r) =>
                 /\ users' = users /\ owner' = owner /\ token' = token /\ born' = born
                 /\ applied' = applied /\ abandoned' = abandoned
           /\ \A pw : SendTemp(t, pw) =>
                 /\ owner' = owner /\ token' = token /\ resets' = resets /\ born' = born
                 /\ applied' = applied /\ abandoned' = abandoned
           /\ \A r, pw : ResetPassword(t, r, pw) =>
                 /\ users' = users /\ owner' = owner /\ token' = token /\ born' = born
                 /\ generated' = generated /\ applied' = applied /\ abandoned' = abandoned
           /\ ApplyReset(t) =>
                 /\ owner' = owner /\ token' = token /\ resets' = resets /\ born' = born
                 /\ generated' = generated /\ abandoned' = abandoned
           /\ Cancel(t) =>
                 /\ users' = users /\ owner' = owner /\ token' = token /\ resets' = resets
                 /\ born' = born /\ generated' = generated /\ applied' = applied
                 /\ abandoned \subseteq abandoned'
  <1>1. ASSUME NEW f, NEW u, Register(t, f, u)
        PROVE  /\ owner' = owner /\ token' = token /\ resets' = resets
               /\ generated' = generated /\ applied' = applied /\ abandoned' = abandoned
    BY <1>1 DEF Register
  <1>2. ASSUME RegisterPassword(t)
        PROVE  /\ owner' = owner /\ token' = token /\ resets' = resets /\ born' = born
               /\ generated' = generated /\ applied' = applied /\ abandoned' = abandoned
    BY <1>2 DEF RegisterPassword, past
  <1>3. ASSUME NEW d, OpenSession(t, d)
        PROVE  /\ users' = users /\ resets' = resets /\ born' = born
               /\ generated' = generated /\ applied' = applied /\ abandoned' = abandoned
    BY <1>3 DEF OpenSession, past
  <1>4. ASSUME NEW field, NEW name, NEW pw, Login(t, field, name, pw) \/ Forgot(t, field, name)
        PROVE  /\ users' = users /\ owner' = owner /\ token' = token /\ resets' = resets
               /\ born' = born /\ generated' = generated /\ applied' = applied
               /\ abandoned' = abandoned
    <2>1. UNCHANGED <<store, past>> /\ UNCHANGED <<now, token, resets>>
      BY <1>4, Zenon DEF Login, Forgot
    <2>2. QED
      BY <2>1 DEF store, past
  <1>5. ASSUME NEW r, MailToken(t, r)
        PROVE  /\ users' = users /\ owner' = owner /\ token' = token /\ born' = born
               /\ applied' = applied /\ abandoned' = abandoned
    BY <1>5 DEF MailToken, store
  <1>6. ASSUME NEW pw, SendTemp(t, pw)
        PROVE  /\ owner' = owner /\ token' = token /\ resets' = resets /\ born' = born
               /\ applied' = applied /\ abandoned' = abandoned
    BY <1>6 DEF SendTemp
  <1>7. ASSUME NEW r, NEW pw, ResetPassword(t, r, pw)
        PROVE  /\ users' = users /\ owner' = owner /\ token' = token /\ born' = born
               /\ generated' = generated /\ applied' = applied /\ abandoned' = abandoned
    BY <1>7 DEF ResetPassword, store, past
  <1>8. ASSUME ApplyReset(t)
        PROVE  /\ owner' = owner /\ token' = token /\ resets' = resets /\ born' = born
               /\ generated' = generated /\ abandoned' = abandoned
    BY <1>8 DEF ApplyReset
  <1>9. ASSUME Cancel(t)
        PROVE  /\ users' = users /\ owner' = owner /\ token' = token /\ resets' = resets
               /\ born' = born /\ generated' = generated /\ applied' = applied
               /\ abandoned \subseteq abandoned'
    BY <1>9 DEF Cancel, store
  <1>10. QED
    BY <1>1, <1>2, <1>3, <1>4, <1>5, <1>6, <1>7, <1>8, <1>9

(* What the other steps leave alone.                                       *)
LEMMA OtherFrames ==
    ASSUME \/ \E d \in Device : Session(d)
           \/ \E u \in User : DeleteUser(u)
           \/ Tick \/ UNCHANGED vars
    PROVE  /\ token' = token /\ resets' = resets /\ task' = task /\ born' = born
           /\ generated' = generated /\ applied' = applied /\ abandoned' = abandoned
           /\ owner' = owner \/ \E u \in User : DeleteUser(u)
  <1>1. ASSUME NEW d \in Device, NEW pw, ChangePassword(d, pw)
        PROVE  /\ token' = token /\ resets' = resets /\ task' = task /\ born' = born
               /\ generated' = generated /\ applied' = applied /\ abandoned' = abandoned
               /\ owner' = owner
    BY <1>1 DEF ChangePassword, past
  <1>2. ASSUME NEW d \in Device, NEW text, PutProfile(d, text)
        PROVE  /\ token' = token /\ resets' = resets /\ task' = task /\ born' = born
               /\ generated' = generated /\ applied' = applied /\ abandoned' = abandoned
               /\ owner' = owner
    BY <1>2 DEF PutProfile, past
  <1>3. ASSUME NEW u \in User, DeleteUser(u)
        PROVE  /\ token' = token /\ resets' = resets /\ task' = task /\ born' = born
               /\ generated' = generated /\ applied' = applied /\ abandoned' = abandoned
    BY <1>3 DEF DeleteUser, past
  <1>4. CASE Tick \/ UNCHANGED vars
    BY <1>4 DEF Tick, store, past, vars
  <1>5. QED
    BY <1>1, <1>2, <1>3, <1>4 DEF Session

(* A handler's step is its own; it leaves "password" and "reset" by        *)
(* setting the password or by being dropped.                               *)
LEMMA OneHandler ==
    ASSUME TypeInv, NEW t \in Task, Handler(t)
    PROVE  /\ \A v \in Task : v # t => task'[v] = task[v]
           /\ task[t].at = "password" => RegisterPassword(t) \/ Cancel(t)
           /\ task[t].at = "reset" => ApplyReset(t) \/ Cancel(t)
  <1>0. TypeOK /\ Idle.at = "idle"
    BY IdleJob DEF TypeInv
  <1> DEFINE Alone == \A v \in Task : v # t => task'[v] = task[v]
  <1> DEFINE Elsewhere == task[t].at \notin {"password", "reset"} /\ Alone
  <1>a. ASSUME NEW j, task' = [task EXCEPT ![t] = j] PROVE Alone
    BY <1>0, <1>a DEF TypeOK
  <1> HIDE DEF Alone
  <1>1. ASSUME NEW f, NEW v, Register(t, f, v) PROVE Elsewhere
    BY <1>0, <1>a, <1>1 DEF Register
  <1>2. ASSUME NEW d, OpenSession(t, d) PROVE Elsewhere
    BY <1>a, <1>2 DEF OpenSession
  <1>3. ASSUME NEW field, NEW name, NEW pw, Login(t, field, name, pw) PROVE Elsewhere
    <2>1. task[t] = Idle /\ \E j : task' = [task EXCEPT ![t] = j]
      BY <1>3, Zenon DEF Login
    <2>2. QED
      BY <1>0, <1>a, <2>1
  <1>4. ASSUME NEW field, NEW name, Forgot(t, field, name) PROVE Elsewhere
    <2>1. task[t] = Idle /\ \E j : task' = [task EXCEPT ![t] = j]
      BY <1>4, Zenon DEF Forgot
    <2>2. QED
      BY <1>0, <1>a, <2>1
  <1>5. ASSUME NEW r, MailToken(t, r) PROVE Elsewhere
    BY <1>a, <1>5 DEF MailToken
  <1>6. ASSUME NEW pw, SendTemp(t, pw) PROVE Elsewhere
    BY <1>a, <1>6 DEF SendTemp
  <1>7. ASSUME NEW r, NEW pw, ResetPassword(t, r, pw) PROVE Elsewhere
    <2>1. task[t] = Idle /\ (task' = task \/ \E j : task' = [task EXCEPT ![t] = j])
      BY <1>7 DEF ResetPassword
    <2>2. QED
      BY <1>0, <1>a, <2>1 DEF Alone
  <1>8. ASSUME RegisterPassword(t) \/ ApplyReset(t) \/ Cancel(t)
        PROVE  /\ Alone
               /\ task[t].at = "password" => RegisterPassword(t) \/ Cancel(t)
               /\ task[t].at = "reset" => ApplyReset(t) \/ Cancel(t)
    <2>1. \E j : task' = [task EXCEPT ![t] = j]
      BY <1>8 DEF RegisterPassword, ApplyReset, Cancel
    <2>2. Alone
      BY <1>a, <2>1
    <2>3. QED
      BY <1>8, <2>2 DEF RegisterPassword, ApplyReset
  <1> HIDE DEF Elsewhere
  <1>9. Elsewhere \/ RegisterPassword(t) \/ ApplyReset(t) \/ Cancel(t)
    BY <1>1, <1>2, <1>3, <1>4, <1>5, <1>6, <1>7 DEF Handler
  <1>10. QED
    BY <1>8, <1>9 DEF Elsewhere, Alone

(* What was submitted, and which links are void, is never forgotten.       *)
LEMMA HistoryGrows ==
    ASSUME [Next]_vars
    PROVE  typed \subseteq typed' /\ voided \subseteq voided'
  <1>1. ASSUME NEW t, NEW f, NEW u, Register(t, f, u)
        PROVE  typed' = typed /\ voided' = voided
    BY <1>1 DEF Register
  <1>2. ASSUME NEW t, RegisterPassword(t) \/ ApplyReset(t) \/ Cancel(t)
        PROVE  typed \subseteq typed' /\ voided \subseteq voided'
    BY <1>2 DEF RegisterPassword, ApplyReset, Cancel
  <1>3. ASSUME NEW t, NEW field, NEW name, NEW pw,
               Login(t, field, name, pw) \/ Forgot(t, field, name)
        PROVE  typed' = typed /\ voided' = voided
    <2>1. UNCHANGED past
      BY <1>3, Zenon DEF Login, Forgot
    <2>2. QED
      BY <2>1 DEF past
  <1>4. ASSUME NEW t, NEW r, NEW pw, NEW d,
               MailToken(t, r) \/ SendTemp(t, pw) \/ OpenSession(t, d)
        PROVE  typed' = typed /\ voided' = voided
    BY <1>4 DEF MailToken, SendTemp, OpenSession, past
  <1>5. ASSUME NEW t, NEW r, NEW pw, ResetPassword(t, r, pw)
        PROVE  typed' = typed /\ voided \subseteq voided'
    BY <1>5 DEF ResetPassword
  <1>6. ASSUME NEW t, Handler(t)
        PROVE  typed \subseteq typed' /\ voided \subseteq voided'
    BY <1>1, <1>2, <1>3, <1>4, <1>5, <1>6 DEF Handler
  <1>7. ASSUME NEW d, NEW pw, ChangePassword(d, pw)
        PROVE  typed \subseteq typed' /\ voided' = voided
    BY <1>7 DEF ChangePassword
  <1>8. ASSUME NEW d, NEW text, PutProfile(d, text)
        PROVE  typed' = typed /\ voided' = voided
    BY <1>8 DEF PutProfile, past
  <1>9. ASSUME (\E u \in User : DeleteUser(u)) \/ Tick \/ UNCHANGED vars
        PROVE  typed' = typed /\ voided' = voided
    BY <1>9 DEF DeleteUser, Tick, past, vars
  <1>10. QED
    BY <1>6, <1>7, <1>8, <1>9 DEF Next, Session

(* An account is made by a registration and removed by a deletion; every   *)
(* other step, whatever it was in the middle of, keeps those there are.    *)
LEMMA StoreStep ==
    ASSUME TypeInv, [Next]_vars
    PROVE  \/ \E t \in Task, f \in Form, u \in User : Register(t, f, u)
           \/ \E u \in User : DeleteUser(u)
           \/ Keeps
  <1> USE AccountTypes
  <1>0. TypeOK /\ JobsMakeSense /\ OnlyBorn /\ born \subseteq User
    BY DEF TypeInv, TypeOK
  <1>1. ASSUME UNCHANGED users PROVE Keeps
    BY <1>1 DEF Keeps
  <1>2. ASSUME NEW u \in User, NEW pw \in Secret, NEW must \in BOOLEAN,
               users' = SetPassword(u, pw, must)
        PROVE  Keeps
    <2>1. pw # None
      BY DEF Secret
    <2>2. QED
      BY <1>0, <1>2, <2>1, SetPasswordEffect DEF Keeps
  <1>3. ASSUME NEW t \in Task, RegisterPassword(t) \/ ApplyReset(t)
        PROVE  Keeps
    <2>1. task[t].user \in User /\ task[t].password \in Secret
      BY <1>0, <1>3 DEF JobsMakeSense, RegisterPassword, ApplyReset, Secret
    <2>2. QED
      BY <1>2, <1>3, <2>1 DEF RegisterPassword, ApplyReset
  <1>4. ASSUME NEW t \in Task, NEW pw \in Temp, SendTemp(t, pw)
        PROVE  Keeps
    <2>1. task[t].user \in User /\ pw \in Secret
      BY <1>0, <1>4 DEF JobsMakeSense, SendTemp, Secret
    <2>2. QED
      BY <1>2, <1>4, <2>1 DEF SendTemp
  <1>5. ASSUME NEW d \in Device, NEW pw \in Password, ChangePassword(d, pw)
        PROVE  Keeps
    <2>1. token[d].user \in User /\ pw \in Secret
      BY <1>0, <1>5 DEF ChangePassword, Verified, OnlyBorn, PolicyOK, Secret
    <2>2. QED
      BY <1>2, <1>5, <2>1 DEF ChangePassword
  <1>6. ASSUME NEW d \in Device, NEW text \in Text \cup {Blank}, PutProfile(d, text)
        PROVE  Keeps
    <2>1. token[d].user \in User /\ Clean(text) \in Option(Text)
      BY <1>0, <1>6 DEF PutProfile, Verified, OnlyBorn, Clean, Option
    <2>2. users' = SetProfile(token[d].user, Clean(text))
      BY <1>6 DEF PutProfile
    <2>3. QED
      BY <1>0, <2>1, <2>2, SetProfileEffect DEF Keeps
  <1>7. ASSUME NEW t \in Task, NEW d \in Device, OpenSession(t, d)
        PROVE  Keeps
    BY <1>1, <1>7 DEF OpenSession
  <1>8. ASSUME NEW t \in Task, NEW field, NEW name, NEW pw,
               Login(t, field, name, pw) \/ Forgot(t, field, name)
        PROVE  Keeps
    BY <1>1, <1>8, HandlerFrames
  <1>9. ASSUME NEW t \in Task, NEW r \in ResetToken, NEW pw,
               MailToken(t, r) \/ ResetPassword(t, r, pw)
        PROVE  Keeps
    BY <1>1, <1>9 DEF MailToken, ResetPassword, store
  <1>10. ASSUME NEW t \in Task, Cancel(t)
         PROVE  Keeps
    BY <1>1, <1>10 DEF Cancel, store
  <1>11. CASE Tick \/ UNCHANGED vars
    BY <1>1, <1>11 DEF Tick, store, vars
  <1>12. QED
    BY <1>3, <1>4, <1>5, <1>6, <1>7, <1>8, <1>9, <1>10, <1>11
       DEF Next, Handler, Session

(* A deleted account stays deleted, for any handlers in flight, any tokens *)
(* that outlive it and any order of their steps.                           *)
THEOREM DeletedForGood == Spec => NoResurrection
  <1>1. ASSUME TypeInv, [Next]_vars
        PROVE  [\A u \in born : users[u] = None => users'[u] = None]_vars
    <2>0. TypeOK /\ born \subseteq User
      BY <1>1 DEF TypeInv, TypeOK
    <2>1. ASSUME NEW t \in Task, NEW f \in Form, NEW v \in User, Register(t, f, v),
                 NEW u \in born, users[u] = None
          PROVE  users'[u] = None
      BY <2>0, <2>1 DEF Register, TypeOK
    <2>2. ASSUME NEW v \in User, DeleteUser(v), NEW u \in born, users[u] = None
          PROVE  users'[u] = None
      BY <2>0, <2>2 DEF DeleteUser, TypeOK
    <2>3. ASSUME Keeps, NEW u \in born, users[u] = None
          PROVE  users'[u] = None
      BY <2>0, <2>3 DEF Keeps
    <2>4. QED
      BY <1>1, <2>1, <2>2, <2>3, StoreStep
  <1>2. QED
    BY <1>1, TypeInvariant, PTL DEF Spec, NoResurrection

-----------------------------------------------------------------------------
(* Identifiers.                                                            *)

(* Every stored address is in lower case: this is what makes create_user's *)
(* exact comparison one without regard to case.                            *)
LowerAddresses ==
    \A u \in Live : users[u].email # None =>
        users[u].email \in Name /\ Lower[users[u].email] = users[u].email

UniqueInv == LowerAddresses /\ ContactsUnique

(* No step makes two accounts share an identifier.                         *)
LEMMA UniqueStep ==
    ASSUME TypeInv, UniqueInv, [Next]_vars
    PROVE  UniqueInv'
  <1>0. TypeOK
    BY DEF TypeInv
  <1>1. ASSUME NEW t \in Task, NEW f \in Form, NEW u \in User, Register(t, f, u)
        PROVE  UniqueInv'
    <2> DEFINE a == NewUser(Normalised(f))
    <2>1. /\ a \in Account /\ a # None
          /\ a.email # None => a.email \in Name /\ Lower[a.email] = a.email
      BY <1>1, NewUserEffect, AccountTypes DEF Register
    <2>2. /\ users' = [users EXCEPT ![u] = a]
          /\ ~Taken(a)
      BY <1>1 DEF Register
    <2> HIDE DEF a
    <2>3. /\ users'[u] = a
          /\ \A v \in Live' : v # u => v \in Live /\ users'[v] = users[v]
      BY <1>0, <2>2 DEF TypeOK, Live
    <2>4. \A v \in Live : /\ users[v].username # a.username
                          /\ a.email # None => users[v].email # a.email
                          /\ a.phone # None => users[v].phone # a.phone
      BY <2>2 DEF Taken
    <2>5. LowerAddresses'
      BY <2>1, <2>3 DEF UniqueInv, LowerAddresses
    <2>6. ASSUME NEW v \in Live', NEW w \in Live', v # w
          PROVE  /\ users'[v].username # users'[w].username
                 /\ users'[v].phone # None => users'[v].phone # users'[w].phone
                 /\ users'[v].email # None /\ users'[w].email # None =>
                      users'[v].email # users'[w].email
      <3>1. CASE v # u /\ w # u
        BY <2>3, <2>6, <3>1 DEF UniqueInv, ContactsUnique, LowerAddresses
      <3>2. CASE v = u
        BY <2>3, <2>4, <2>6, <3>2
      <3>3. CASE w = u
        BY <2>3, <2>4, <2>6, <3>3
      <3>4. QED
        BY <3>1, <3>2, <3>3
    <2>7. QED
      BY <2>5, <2>6 DEF UniqueInv, LowerAddresses, ContactsUnique
  <1>2. ASSUME NEW u \in User, DeleteUser(u)
        PROVE  UniqueInv'
    <2>1. \A v \in Live' : v \in Live /\ users'[v] = users[v]
      BY <1>0, <1>2 DEF DeleteUser, TypeOK, Live
    <2>2. QED
      BY <2>1 DEF UniqueInv, LowerAddresses, ContactsUnique
  <1>3. CASE Keeps
    <2>1. Live' = Live
      BY <1>3 DEF Keeps, Live
    <2>2. \A v \in Live : /\ users'[v].username = users[v].username
                          /\ users'[v].email = users[v].email
                          /\ users'[v].phone = users[v].phone
      BY <1>3 DEF Keeps, Live
    <2>3. QED
      BY <2>1, <2>2 DEF UniqueInv, LowerAddresses, ContactsUnique
  <1>4. QED
    BY <1>1, <1>2, <1>3, StoreStep

(* However registrations, deletions and the rest interleave, a username, a *)
(* number and an address, in whatever case it is typed, name one account.  *)
THEOREM IdentifiersUnique == Spec => []ContactsUnique
  <1>1. Init => UniqueInv
    BY DEF Init, UniqueInv, LowerAddresses, ContactsUnique, Live
  <1>2. UniqueInv => ContactsUnique
    BY DEF UniqueInv
  <1>3. QED
    BY <1>1, <1>2, UniqueStep, TypeInvariant, PTL DEF Spec

-----------------------------------------------------------------------------
(* Sessions.                                                               *)

(* Only the last step of a login or registration gives out a token, and    *)
(* only it and a deletion touch the devices.                               *)
LEMMA SessionStep ==
    ASSUME [Next]_vars
    PROVE  \/ \E t \in Task, d \in Device : OpenSession(t, d)
           \/ \E u \in User : DeleteUser(u)
           \/ UNCHANGED <<owner, token>>
  <1>1. ASSUME NEW t \in Task, Handler(t), \A d \in Device : ~OpenSession(t, d)
        PROVE  owner' = owner /\ token' = token
    BY <1>1, HandlerFrames, Zenon DEF Handler
  <1>2. QED
    BY <1>1, OtherFrames DEF Next

(* The last step of a login or registration, when the account is there.    *)
LEMMA Opened ==
    ASSUME TypeInv, NEW t \in Task, NEW d \in Device, OpenSession(t, d)
    PROVE  /\ UNCHANGED users
           /\ \A e \in Device \ {d} : owner'[e] = owner[e] /\ token'[e] = token[e]
           /\ \/ owner'[d] = owner[d] /\ token'[d] = token[d]
              \/ /\ users[task[t].user] # None
                 /\ owner'[d] = task[t].user
                 /\ token'[d].user = task[t].user
                 /\ token'[d].via = task[t].password
                 /\ token'[d].must = task[t].must
                 /\ task[t].at = "device"
  <1>1. TypeOK
    BY DEF TypeInv
  <1>2. QED
    BY <1>1 DEF OpenSession, TypeOK, IssueToken, Told, MayOpen

(* A session opened with a temporary password nobody submitted was told so. *)
LEMMA ToldStep ==
    ASSUME TypeInv, TempLoginIsTold, [Next]_vars
    PROVE  TempLoginIsTold'
  <1>1. ASSUME NEW t \in Task, NEW d \in Device, OpenSession(t, d)
        PROVE  TempLoginIsTold'
    <2>1. task[t].at = "device" /\ task[t].password \in Temp
             /\ <<task[t].user, task[t].password>> \notin typed => task[t].must
      BY DEF TypeInv, JobsMakeSense
    <2>2. QED
      BY <1>1, <2>1, Opened, HistoryGrows DEF TempLoginIsTold
  <1>2. ASSUME UNCHANGED token
        PROVE  TempLoginIsTold'
    BY <1>2, HistoryGrows DEF TempLoginIsTold
  <1>3. QED
    BY <1>1, <1>2, SessionStep DEF DeleteUser

(* Whoever logs in with a temporary password that nobody has submitted as  *)
(* a new one is told to change it, though the password may be replaced     *)
(* while the login is under way.                                           *)
THEOREM TemporaryIsTold == Spec => []TempLoginIsTold
  <1>1. Init => TempLoginIsTold
    BY DEF Init, TempLoginIsTold
  <1>2. QED
    BY <1>1, ToldStep, TypeInvariant, PTL DEF Spec

(* Sessions and registered devices keep in step.                           *)
LEMMA BackedStep ==
    ASSUME TypeInv, SessionBacked, [Next]_vars
    PROVE  SessionBacked'
  <1>0. TypeOK /\ OnlyBorn /\ born \subseteq User
    BY DEF TypeInv, TypeOK
  <1>1. ASSUME NEW t \in Task, NEW d \in Device, OpenSession(t, d)
        PROVE  SessionBacked'
    BY <1>1, Opened DEF SessionBacked
  <1>2. ASSUME NEW u \in User, DeleteUser(u)
        PROVE  SessionBacked'
    <2>1. /\ token' = token /\ users'[u] = None
          /\ \A v \in User \ {u} : users'[v] = users[v]
          /\ \A d \in Device : owner'[d] = IF owner[d] = u THEN None ELSE owner[d]
      BY <1>0, <1>2 DEF DeleteUser, TypeOK
    <2>2. ASSUME NEW d \in Device, token[d] # None
          PROVE  owner'[d] = IF users'[token[d].user] # None THEN token[d].user ELSE None
      <3>1. token[d].user \in User
        BY <1>0, <2>2 DEF OnlyBorn
      <3>2. owner[d] = IF users[token[d].user] # None THEN token[d].user ELSE None
        BY <2>2 DEF SessionBacked
      <3>3. CASE token[d].user = u
        BY <2>1, <3>2, <3>3
      <3>4. CASE token[d].user # u
        BY <2>1, <3>1, <3>2, <3>4, AccountTypes
      <3>5. QED
        BY <3>3, <3>4
    <2>3. QED
      BY <2>1, <2>2 DEF SessionBacked
  <1>3. ASSUME NEW t \in Task, NEW f \in Form, NEW u \in User, Register(t, f, u)
        PROVE  SessionBacked'
    <2>1. UNCHANGED <<owner, token>> /\ \A v \in born : users'[v] = users[v]
      BY <1>0, <1>3 DEF Register, TypeOK
    <2>2. QED
      BY <1>0, <2>1 DEF SessionBacked, OnlyBorn
  <1>4. ASSUME Keeps, UNCHANGED <<owner, token>>
        PROVE  SessionBacked'
    <2>1. \A d \in Device : token[d] # None => token[d].user \in User
      BY <1>0 DEF OnlyBorn
    <2>2. QED
      BY <1>4, <2>1 DEF SessionBacked, Keeps
  <1>5. QED
    BY <1>1, <1>2, <1>3, <1>4, StoreStep, SessionStep

(* A session is backed by a registered device exactly as long as its       *)
(* account lives, for any number of sessions opened while it is deleted.   *)
THEOREM SessionsBacked == Spec => []SessionBacked
  <1>1. Init => SessionBacked
    BY DEF Init, SessionBacked
  <1>2. QED
    BY <1>1, BackedStep, TypeInvariant, PTL DEF Spec

-----------------------------------------------------------------------------
(* Reset tokens.                                                           *)

(* Handler t is about to set the password it took reset token r for.       *)
Holds(t, r) == task[t].at = "reset" /\ task[t].key = r

(* A reset token is in one place: not drawn yet, in the map, held by one   *)
(* handler, or used.                                                       *)
ResetOnce ==
    \A r \in ResetToken :
        /\ r \notin generated => resets[r] = None
        /\ r \notin generated \/ resets[r] # None =>
              applied[r] = 0 /\ \A t \in Task : ~Holds(t, r)
        /\ \A t \in Task : Holds(t, r) =>
              applied[r] = 0 /\ \A s \in Task : Holds(s, r) => s = t
        /\ applied[r] <= 1

(* A step that takes no token and uses none.                               *)
LEMMA ResetSame ==
    ASSUME ResetOnce, UNCHANGED <<resets, applied>>, generated \subseteq generated',
           \A t \in Task, r \in ResetToken : Holds(t, r)' => Holds(t, r)
    PROVE  ResetOnce'
  BY DEF ResetOnce

(* No step puts a reset token in a second place.                           *)
LEMMA ResetStep ==
    ASSUME TypeInv, ResetOnce, [Next]_vars
    PROVE  ResetOnce'
  <1>0. TypeOK /\ JobsMakeSense /\ Idle.at = "idle"
    BY IdleJob DEF TypeInv
  <1>1. ASSUME UNCHANGED <<task, resets, applied, generated>>
        PROVE  ResetOnce'
    BY <1>1, ResetSame DEF Holds
  <1>2. ASSUME NEW t \in Task, NEW r \in ResetToken, MailToken(t, r)
        PROVE  ResetOnce'
    <2>1. task'[t] = Idle /\ \A s \in Task \ {t} : task'[s] = task[s]
      BY <1>0, <1>2 DEF MailToken, TypeOK
    <2>2. \A s \in Task, q \in ResetToken : Holds(s, q)' => Holds(s, q)
      BY <1>0, <2>1 DEF Holds
    <2>3. /\ \A q \in ResetToken \ {r} : resets'[q] = resets[q]
          /\ r \notin generated /\ generated' = generated \cup {r} /\ applied' = applied
      BY <1>0, <1>2 DEF MailToken, TypeOK
    <2>4. QED
      BY <2>2, <2>3 DEF ResetOnce
  <1>3. ASSUME NEW t \in Task, NEW r \in ResetToken, NEW pw \in Password, ResetPassword(t, r, pw)
        PROVE  ResetOnce'
    <2>1. /\ resets[r] # None /\ resets'[r] = None
          /\ \A q \in ResetToken \ {r} : resets'[q] = resets[q]
          /\ UNCHANGED <<applied, generated>>
      BY <1>0, <1>3 DEF ResetPassword, Consumed, TypeOK, past
    <2>2. /\ \A s \in Task \ {t} : task'[s] = task[s]
          /\ task'[t] = task[t] \/ task'[t].key = r
      BY <1>0, <1>3, IdleJob DEF ResetPassword, TypeOK, Job
    <2>3. \A s \in Task, q \in ResetToken :
             Holds(s, q)' => Holds(s, q) \/ (s = t /\ q = r)
      BY <2>2 DEF Holds
    <2>4. QED
      BY <2>1, <2>3 DEF ResetOnce
  <1>4. ASSUME NEW t \in Task, ApplyReset(t)
        PROVE  ResetOnce'
    <2> DEFINE r == task[t].key
    <2>1. r \in ResetToken /\ Holds(t, r)
      BY <1>0, <1>4 DEF JobsMakeSense, ApplyReset, Holds
    <2>2. /\ applied'[r] \in {applied[r], applied[r] + 1}
          /\ \A q \in ResetToken \ {r} : applied'[q] = applied[q]
          /\ UNCHANGED <<resets, generated>>
      BY <1>0, <1>4, <2>1 DEF ApplyReset, TypeOK
    <2>3. task'[t] = Idle /\ \A s \in Task \ {t} : task'[s] = task[s]
      BY <1>0, <1>4 DEF ApplyReset, TypeOK
    <2>4. \A s \in Task, q \in ResetToken : Holds(s, q)' => s # t /\ Holds(s, q)
      BY <1>0, <2>3 DEF Holds
    <2>5. applied[r] = 0 /\ r \in generated /\ resets[r] = None
          /\ \A s \in Task : s # t => ~Holds(s, r)
      BY <2>1 DEF ResetOnce
    <2> HIDE DEF r
    <2>6. QED
      BY <2>1, <2>2, <2>4, <2>5 DEF ResetOnce
  <1>5. ASSUME NEW t \in Task, NEW f \in Form, NEW u \in User, Register(t, f, u)
        PROVE  ResetOnce'
    <2> DEFINE j == [Idle EXCEPT !.at = IF f.password = None THEN "device" ELSE "password",
                                 !.user = u, !.password = f.password]
    <2>1. j.at # "reset"
      BY DEF Idle
    <2>2. task' = [task EXCEPT ![t] = j] /\ UNCHANGED <<resets, applied, generated>>
      BY <1>5 DEF Register
    <2> HIDE DEF j
    <2>3. task'[t] = j /\ \A s \in Task \ {t} : task'[s] = task[s]
      BY <1>0, <2>2 DEF TypeOK
    <2>4. QED
      BY <2>1, <2>2, <2>3, ResetSame DEF Holds
  <1>6. ASSUME NEW t \in Task,
               RegisterPassword(t) \/ Cancel(t) \/ (\E d \in Device : OpenSession(t, d))
                  \/ (\E pw \in Temp : SendTemp(t, pw))
        PROVE  ResetOnce'
    <2>1. /\ task'[t].at # "reset" /\ \A s \in Task \ {t} : task'[s] = task[s]
          /\ UNCHANGED <<resets, applied>> /\ generated \subseteq generated'
      BY <1>0, <1>6 DEF RegisterPassword, Cancel, OpenSession, SendTemp, past, TypeOK, Job
    <2>2. QED
      BY <2>1, ResetSame DEF Holds
  <1>7. ASSUME NEW t \in Task, NEW field, NEW name, NEW pw,
               Login(t, field, name, pw) \/ Forgot(t, field, name)
        PROVE  ResetOnce'
    <2>1. PICK j : task' = [task EXCEPT ![t] = j] /\ j.at # "reset"
      <3>1. CASE Login(t, field, name, pw)
        <4>1. PICK u : task' = [task EXCEPT ![t] =
                  [Idle EXCEPT !.at = "device", !.user = u, !.password = pw,
                               !.must = users[u].must]]
          BY <3>1, Zenon DEF Login
        <4>2. [Idle EXCEPT !.at = "device", !.user = u, !.password = pw,
                           !.must = users[u].must].at # "reset"
          BY DEF Idle
        <4>3. QED
          BY <4>1, <4>2, Zenon
      <3>2. CASE Forgot(t, field, name)
        <4>1. PICK u : task' = [task EXCEPT ![t] =
                  [Idle EXCEPT !.at = IF field = "email" THEN "mail" ELSE "temp",
                               !.user = u]]
          BY <3>2, Zenon DEF Forgot
        <4>2. [Idle EXCEPT !.at = IF field = "email" THEN "mail" ELSE "temp",
                           !.user = u].at # "reset"
          BY DEF Idle
        <4>3. QED
          BY <4>1, <4>2, Zenon
      <3>3. QED
        BY <1>7, <3>1, <3>2
    <2>2. task'[t].at # "reset" /\ \A s \in Task \ {t} : task'[s] = task[s]
      BY <1>0, <2>1 DEF TypeOK
    <2>3. UNCHANGED <<resets, applied, generated>>
      BY <1>7, HandlerFrames
    <2>4. QED
      BY <2>2, <2>3, ResetSame DEF Holds
  <1>8. ASSUME \/ \E d \in Device : Session(d)
               \/ \E u \in User : DeleteUser(u)
               \/ Tick \/ UNCHANGED vars
        PROVE  ResetOnce'
    BY <1>1, <1>8 DEF Session, ChangePassword, PutProfile, DeleteUser, Tick, past, vars
  <1>9. QED
    BY <1>2, <1>3, <1>4, <1>5, <1>6, <1>7, <1>8 DEF Next, Handler

(* However many handlers present one reset token, in whatever order their  *)
(* steps come, it sets one password.                                       *)
THEOREM ResetsOnce == Spec => []ResetAtMostOnce
  <1>1. Init => ResetOnce
    BY IdleJob DEF Init, ResetOnce, Holds
  <1>2. ResetOnce => ResetAtMostOnce
    BY DEF ResetOnce, ResetAtMostOnce
  <1>3. QED
    BY <1>1, <1>2, ResetStep, TypeInvariant, PTL DEF Spec

(* A link is accounted for after a step that keeps it, and whoever holds   *)
(* it unless it is void.                                                   *)
LEMMA LinkKept ==
    ASSUME ResetLinkSurvives, generated' \cap ResetToken \subseteq generated,
           UNCHANGED <<resets, applied>>, voided \subseteq voided',
           \A t \in Task, r \in ResetToken : Holds(t, r) => Holds(t, r)' \/ r \in voided'
    PROVE  ResetLinkSurvives'
  BY DEF ResetLinkSurvives, Holds

(* No step loses sight of a link.                                          *)
LEMMA LinkStep ==
    ASSUME TypeInv, ResetOnce, ResetLinkSurvives, [Next]_vars
    PROVE  ResetLinkSurvives'
  <1>0. /\ TypeOK /\ JobsMakeSense /\ Idle.at = "idle"
        /\ voided \subseteq voided' /\ typed \subseteq typed'
    BY IdleJob, HistoryGrows DEF TypeInv
  <1>1. ASSUME NEW t \in Task, NEW q \in ResetToken, MailToken(t, q)
        PROVE  ResetLinkSurvives'
    <2>1. task[t].user \in User
      BY <1>0, <1>1 DEF MailToken, JobsMakeSense, TypeOK
    <2>2. [user |-> task[t].user, exp |-> now + ResetTTL] \in ResetEntry
      BY <1>0, <2>1, AccountTypes DEF TypeOK, ResetEntry
    <2>3. /\ resets'[q] # None /\ \A r \in ResetToken \ {q} : resets'[r] = resets[r]
          /\ generated' = generated \cup {q} /\ applied' = applied
          /\ task[t].at # "reset" /\ \A s \in Task \ {t} : task'[s] = task[s]
      BY <1>0, <1>1, <2>2, AccountTypes DEF MailToken, TypeOK
    <2>4. QED
      BY <1>0, <2>3 DEF ResetLinkSurvives
  <1>2. ASSUME NEW t \in Task, NEW q \in ResetToken, NEW pw \in Password,
               ResetPassword(t, q, pw)
        PROVE  ResetLinkSurvives'
    <2>1. /\ \A r \in ResetToken \ {q} : resets'[r] = resets[r]
          /\ UNCHANGED <<generated, applied>>
          /\ task[t].at = "idle" /\ \A s \in Task \ {t} : task'[s] = task[s]
      BY <1>0, <1>2 DEF ResetPassword, Consumed, TypeOK
    <2>2. Usable(q) => task'[t].at = "reset" /\ task'[t].key = q
      <3>1. SUFFICES ASSUME Usable(q) PROVE task'[t].at = "reset" /\ task'[t].key = q
        OBVIOUS
      <3>2. task' = [task EXCEPT ![t] =
               [Idle EXCEPT !.at = "reset", !.user = resets[q].user,
                            !.password = pw, !.key = q]]
        BY <1>2, <3>1 DEF ResetPassword
      <3>3. task'[t] = [Idle EXCEPT !.at = "reset", !.user = resets[q].user,
                                    !.password = pw, !.key = q]
        BY <1>0, <3>2 DEF TypeOK
      <3>4. QED
        BY <3>3 DEF Idle
    <2>3. ~Usable(q) => q \in voided'
      BY <1>2 DEF ResetPassword
    <2>4. QED
      BY <1>0, <2>1, <2>2, <2>3 DEF ResetLinkSurvives
  <1>3. ASSUME NEW t \in Task, ApplyReset(t)
        PROVE  ResetLinkSurvives'
    <2> DEFINE q == task[t].key
    <2>1. q \in ResetToken /\ Holds(t, q)
      BY <1>0, <1>3 DEF JobsMakeSense, ApplyReset, Holds
    <2>2. applied[q] = 0
      BY <2>1 DEF ResetOnce
    <2>3. /\ applied'[q] > 0 \/ q \in voided'
          /\ \A r \in ResetToken \ {q} : applied'[r] = applied[r]
          /\ UNCHANGED <<resets, generated>>
          /\ \A s \in Task \ {t} : task'[s] = task[s]
      BY <1>0, <1>3, <2>1, <2>2 DEF ApplyReset, TypeOK
    <2> HIDE DEF q
    <2>4. \A r \in ResetToken \ {q} : Holds(t, r) => FALSE
      BY <2>1 DEF Holds
    <2>5. QED
      BY <1>0, <2>1, <2>3, <2>4 DEF ResetLinkSurvives, Holds
  <1>4. ASSUME NEW t \in Task, Cancel(t)
        PROVE  ResetLinkSurvives'
    <2>1. /\ UNCHANGED <<resets, applied, generated>>
          /\ \A s \in Task \ {t} : task'[s] = task[s]
          /\ \A r \in ResetToken : Holds(t, r) => r \in voided'
      BY <1>0, <1>4 DEF Cancel, TypeOK, Holds
    <2>2. QED
      BY <1>0, <2>1, LinkKept DEF Holds
  <1>5. ASSUME NEW t \in Task, Handler(t), ~Cancel(t), ~ApplyReset(t),
               \A q \in ResetToken : ~MailToken(t, q),
               \A q \in ResetToken, pw \in Password : ~ResetPassword(t, q, pw)
        PROVE  ResetLinkSurvives'
    <2>1. UNCHANGED <<resets, applied>>
      BY <1>5, HandlerFrames, Zenon DEF Handler
    <2>2. generated' \cap ResetToken \subseteq generated
      <3>1. generated' = generated \/ \E pw \in Temp : SendTemp(t, pw)
        BY <1>5, HandlerFrames, Zenon DEF Handler
      <3>2. ASSUME NEW pw \in Temp, SendTemp(t, pw)
            PROVE  generated' \cap ResetToken \subseteq generated
        <4>1. pw \notin ResetToken
          BY AccountTypes
        <4>2. generated' = generated \cup {pw}
          BY <3>2 DEF SendTemp
        <4>3. QED
          BY <4>1, <4>2
      <3>3. QED
        BY <3>1, <3>2
    <2>3. \A s \in Task, r \in ResetToken : Holds(s, r) => Holds(s, r)'
      BY <1>5, OneHandler DEF Holds
    <2>4. QED
      BY <1>0, <2>1, <2>2, <2>3, LinkKept
  <1>6. ASSUME \/ \E d \in Device : Session(d)
               \/ \E u \in User : DeleteUser(u)
               \/ Tick \/ UNCHANGED vars
        PROVE  ResetLinkSurvives'
    <2>1. UNCHANGED <<resets, applied, generated, task>>
      BY <1>6, OtherFrames
    <2>2. QED
      BY <1>0, <2>1, LinkKept DEF Holds
  <1>7. QED
    BY <1>1, <1>2, <1>3, <1>4, <1>5, <1>6 DEF Next

(* A mailed link is in the map, in the hands of a request, has set a       *)
(* password, or is void because it expired, its request was given up or    *)
(* its account is gone: for any number of links and requests.  What is     *)
(* refused for a weak password never loses one.                            *)
THEOREM LinksSurvive == Spec => []ResetLinkSurvives
  <1>1. Init => ResetOnce /\ ResetLinkSurvives
    BY IdleJob DEF Init, ResetOnce, ResetLinkSurvives, Holds
  <1>2. QED
    BY <1>1, ResetStep, LinkStep, TypeInvariant, PTL DEF Spec

-----------------------------------------------------------------------------
(* Passwords of accounts with a contact.                                   *)

(* A registration that has not set its password yet.                       *)
Pending(u) == \E t \in Task : task[t].at = "password" /\ task[t].user = u

(* Only a registration begins to wait at "password", and it leaves there   *)
(* by setting the password or by being dropped.                            *)
LEMMA PendingStep ==
    ASSUME TypeInv, [Next]_vars, NEW u \in User, Pending(u)
    PROVE  \/ Pending(u)'
           \/ u \in abandoned'
           \/ \E t \in Task : RegisterPassword(t) /\ task[t].user = u
  <1>0. TypeOK /\ Idle.at = "idle"
    BY IdleJob DEF TypeInv
  <1>1. PICK s \in Task : task[s].at = "password" /\ task[s].user = u
    BY DEF Pending
  <1>2. CASE task'[s] = task[s]
    BY <1>1, <1>2 DEF Pending
  <1>3. ASSUME NEW t \in Task, RegisterPassword(t)
        PROVE  t = s \/ task'[s] = task[s]
    BY <1>0, <1>3 DEF RegisterPassword, TypeOK
  <1>4. ASSUME NEW t \in Task, Cancel(t)
        PROVE  (t = s /\ u \in abandoned') \/ task'[s] = task[s]
    BY <1>0, <1>1, <1>4 DEF Cancel, TypeOK
  <1>5. ASSUME NEW t \in Task, Handler(t), ~RegisterPassword(t), ~Cancel(t)
        PROVE  task'[s] = task[s]
    BY <1>1, <1>5, OneHandler
  <1>6. ASSUME \/ \E d \in Device : Session(d)
               \/ \E v \in User : DeleteUser(v)
               \/ Tick \/ UNCHANGED vars
        PROVE  task'[s] = task[s]
    BY <1>6 DEF Session, ChangePassword, PutProfile, DeleteUser, Tick, vars
  <1>7. QED
    BY <1>1, <1>2, <1>3, <1>4, <1>5, <1>6 DEF Next

(* No step leaves an account with a contact and without a password.        *)
LEMMA ContactStep ==
    ASSUME TypeInv, PasswordOrAbandoned, [Next]_vars
    PROVE  PasswordOrAbandoned'
  <1>0. TypeOK /\ JobsMakeSense /\ born \subseteq User /\ abandoned \subseteq abandoned'
    <2>1. ASSUME NEW t \in Task, Handler(t) PROVE abandoned \subseteq abandoned'
      BY <2>1, HandlerFrames DEF Handler
    <2>2. QED
      BY <2>1, OtherFrames DEF TypeInv, TypeOK, Next
  <1> SUFFICES ASSUME NEW u \in Live',
                      users'[u].email # None \/ users'[u].phone # None,
                      users'[u].password = None
               PROVE  u \in abandoned' \/ Pending(u)'
    BY DEF PasswordOrAbandoned, Pending
  <1>1. ASSUME NEW t \in Task, NEW f \in Form, Register(t, f, u)
        PROVE  Pending(u)'
    <2> DEFINE a == NewUser(Normalised(f))
    <2>1. users'[u] = a
      BY <1>0, <1>1 DEF Register, TypeOK, Live
    <2>2. /\ f.email = None => a.email = None
          /\ f.phone = None => a.phone = None
      BY <1>1, NewUserEffect DEF Register
    <2>3. f.password # None
      BY <1>1, <2>1, <2>2 DEF Register, PasswordGiven
    <2>4. task'[t] = [Idle EXCEPT !.at = "password", !.user = u, !.password = f.password]
      BY <1>0, <1>1, <2>3 DEF Register, TypeOK
    <2>5. task'[t].at = "password" /\ task'[t].user = u
      BY <2>4 DEF Idle
    <2>6. QED
      BY <2>5 DEF Pending
  <1>2. ASSUME u \in Live, users[u].email # None \/ users[u].phone # None,
               users[u].password = None,
               \A t \in Task : ~(RegisterPassword(t) /\ task[t].user = u)
        PROVE  u \in abandoned' \/ Pending(u)'
    <2>1. u \in abandoned \/ Pending(u)
      BY <1>2 DEF PasswordOrAbandoned, Pending
    <2>2. QED
      BY <1>0, <1>2, <2>1, PendingStep DEF Live
  <1>3. ASSUME NEW t \in Task, RegisterPassword(t), task[t].user = u, u \in Live
        PROVE  FALSE
    <2>1. task[t].password \in Secret /\ task[t].password # None
      BY <1>0, <1>3, AccountTypes DEF JobsMakeSense, RegisterPassword, Secret
    <2>2. users'[u].password = task[t].password
      <3>1. users' = SetPassword(u, task[t].password, FALSE)
        BY <1>3 DEF RegisterPassword
      <3>2. users[u] # None /\ u \in User
        BY <1>3 DEF Live
      <3>3. QED
        BY <1>0, <2>1, <3>1, <3>2, SetPasswordEffect
    <2>3. QED
      BY <2>1, <2>2
  <1>4. ASSUME NEW t \in Task, NEW f \in Form, NEW v \in User, Register(t, f, v), v # u
        PROVE  u \in Live /\ users'[u] = users[u] /\ \A s \in Task : ~RegisterPassword(s)
    <2>1. u \in Live /\ users'[u] = users[u]
      BY <1>0, <1>4 DEF Register, TypeOK, Live
    <2>2. ASSUME NEW s \in Task, RegisterPassword(s) PROVE FALSE
      <3>1. task'[s].at = "device" /\ born' = born
        BY <1>0, <2>2 DEF RegisterPassword, TypeOK, Job, past
      <3>2. v \in born' /\ v \notin born
        BY <1>4 DEF Register
      <3>3. QED
        BY <3>1, <3>2
    <2>3. QED
      BY <2>1, <2>2
  <1>5. ASSUME NEW v \in User, DeleteUser(v)
        PROVE  u \in Live /\ users'[u] = users[u]
    BY <1>0, <1>5 DEF DeleteUser, TypeOK, Live
  <1>6. ASSUME Keeps
        PROVE  /\ u \in Live /\ users[u].password = None
               /\ users[u].email = users'[u].email /\ users[u].phone = users'[u].phone
    BY <1>6 DEF Keeps, Live
  <1>7. QED
    BY <1>1, <1>2, <1>3, <1>4, <1>5, <1>6, StoreStep

(* An account with an address or a number has a password, unless its       *)
(* registration is between two awaits or was dropped there: for any forms  *)
(* and any number of handlers.                                             *)
THEOREM ContactsHavePasswords == Spec => []PasswordOrAbandoned
  <1>1. Init => PasswordOrAbandoned
    BY DEF Init, PasswordOrAbandoned, Live
  <1>2. QED
    BY <1>1, ContactStep, TypeInvariant, PTL DEF Spec
=============================================================================
