-------------------------- MODULE AccountDirectory --------------------------
(***************************************************************************)
(* What the users table promises to the rest of the service and to its     *)
(* clients, whatever is saved concurrently: an address names at most one   *)
(* account, an account once created is never removed, and the address and  *)
(* the role it was created with are never replaced.                        *)
(***************************************************************************)
EXTENDS Naturals

CONSTANTS Id, Email, Role, None

VARIABLE directory   \* Id -> Account or None

Account == [email : Email, role : Role]

Listed(email) == \E id \in Id : directory[id] # None /\ directory[id].email = email

Init ==
  /\ directory \in [Id -> Account \cup {None}]
  /\ \A i, j \in Id :
       directory[i] # None /\ directory[j] # None /\ directory[i].email = directory[j].email
         => i = j

Create(id, account) ==
  /\ directory[id] = None
  /\ ~Listed(account.email)
  /\ directory' = [directory EXCEPT ![id] = account]

Next == \E id \in Id, account \in Account : Create(id, account)

Spec == Init /\ [][Next]_directory

=============================================================================
