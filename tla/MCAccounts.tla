----------------------------- MODULE MCAccounts -----------------------------
(* Two accounts at most, two devices, two handlers at a time.  The forms   *)
(* collide in every field: two spellings of one address, and a number used *)
(* as a username or given beside the address.                              *)
EXTENDS Accounts, TLC

CONSTANTS mail, MAIL, number, strong, weak

(* Accounts, devices, handlers and reset tokens are interchangeable.       *)
MCSymmetry ==
    Permutations(User) \cup Permutations(Device) \cup Permutations(Task)
        \cup Permutations(ResetToken)

MCLower == [n \in Name |-> IF n = MAIL THEN mail ELSE n]

Given(username, email, phone, password) ==
    [username |-> username, email |-> email, phone |-> phone,
     password |-> password]

MCForm ==
    { Given(number, MAIL, None, strong),
      Given(Blank, mail, number, strong),   \* derives its username
      Given(number, None, None, None),      \* the passwordless path
      Given(None, None, number, None),      \* refused: no password
      Given(mail, None, None, weak) }       \* refused: weak
=============================================================================
